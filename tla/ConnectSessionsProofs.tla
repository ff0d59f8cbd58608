----------------------- MODULE ConnectSessionsProofs ------------------------
(***************************************************************************)
(* Safety of connect sessions for any number of asks, agents, confirms,    *)
(* sweeps and arriving grants, any caps and any number of revisions, with  *)
(* confirms that fail or die between any two of their transactions.        *)
(***************************************************************************)
EXTENDS ConnectSessions, FiniteSetTheorems, TLAPS

(* The inductive invariant, part by part. *)

Named    == Agents \cup {NoAgent}
RowType  == [state : {"none", "created", "awaiting_app", "polling", "connected", "gone",
                      "reopened", "over"},
             rev : Nat, agent : Named, flow : Flows \cup {"edit"}]
AskType  == [pc : {"new", "absent", "asked", "clear", "opened", "refused"},
             agent : Named, own : BOOLEAN, flow : Flows]
Talking  == {"begin", "rules", "bindlast", "issued"}
ConfirmType ==
    [pc : {"new", "absent", "bind", "bound", "swap", "recheck", "unbind", "done"} \cup Talking,
     ask : Asks, kind : Flows \cup {"own_client", "existing", "widen"}, agent : Named,
     late : BOOLEAN, rev : Nat, from : Open, new : BOOLEAN]
SweepType ==
    [pc : {"idle", "absent", "end", "unbind"}, ask : Asks, agent : Named, how : Ended, edit : BOOLEAN]
LandingType == [pc : {"idle", "absent", "exchanged", "bind"}, ask : Asks]

TypeOK ==
    /\ ask \in [Asks -> AskType]
    /\ row \in [Asks -> RowType]
    /\ cred \in [Creds -> {"none", "pending", "connected", "deleted"}]
    /\ outcome \in [Asks -> [how : {"none", "connected"} \cup Ended, cred : Creds]]
    /\ confirm \in [Confirms -> ConfirmType]
    /\ sweep \in [Sweeps -> SweepType]
    /\ landing \in [Landings -> LandingType]

\* A session exists once its ask was opened, and an open one names the agent it was
\* asked for.
SessionsAsked ==
    \A a \in Asks :
        /\ row[a].state # "none" => ask[a].pc = "opened"
        /\ row[a].state \in Open => row[a].agent = ask[a].agent

\* A confirm names the session's agent, or picked one for a session that named none.
AgentsPicked ==
    \A c \in Confirms : confirm[c].pc \notin {"new", "absent"} =>
        /\ confirm[c].late => ask[confirm[c].ask].agent = NoAgent
        /\ ~confirm[c].late => confirm[c].agent = ask[confirm[c].ask].agent

\* The rule an approved revision grants.
Approved(g, a, rev) == [agent |-> g, cred |-> a, ask |-> a, rev |-> rev]

\* The confirm that talks to the vendor owns the session: nobody can confirm or amend
\* it, it names the confirm's agent and revision, it widens a credential exactly if the
\* confirm does, and unless the session has ended the approved rules stay as the confirm
\* wrote them.
TalkerOwns(c) ==
    LET a == confirm[c].ask IN
    /\ row[a].state \in {"polling", "connected", "gone", "reopened", "over"}
    /\ row[a].state \notin {"gone", "over"} =>
          /\ row[a].agent = confirm[c].agent
          /\ row[a].rev = confirm[c].rev
          /\ row[a].flow = "edit" <=> confirm[c].kind = "widen"
          /\ confirm[c].pc \in {"bindlast", "issued"} /\ confirm[c].agent # NoAgent
             /\ confirm[c].kind # "widen" =>
                Approved(confirm[c].agent, a, confirm[c].rev) \in rules

TalkersOwn == \A c \in Confirms : confirm[c].pc \in Talking => TalkerOwns(c)

\* A grant arrives only for a consent some confirm has issued.
GrantsIssued ==
    \A l \in Landings : landing[l].pc = "exchanged" =>
        \E c \in Confirms : confirm[c].ask = landing[l].ask /\ confirm[c].pc = "issued"

\* A session that widens a credential has given up its own, and can be reopened; the
\* others cannot.
EditOK(a) ==
    /\ row[a].flow = "edit" =>
          /\ row[a].state \in {"polling", "reopened", "gone", "over"}
          /\ cred[a] = "deleted"
          /\ \A r \in rules : r.cred # a
    /\ row[a].state \in {"reopened", "over"} => row[a].flow = "edit"

EditsMoved == \A a \in Asks : EditOK(a)

\* A sweep that read a session as widening a credential finds it so.
SweepsKnow == \A s \in Sweeps : sweep[s].pc = "end" /\ sweep[s].edit => row[sweep[s].ask].flow = "edit"

\* A session writes rules on another credential than its own only as it connects.
RulesKnown == \A r \in rules : r.ask \in Asks /\ (r.cred # r.ask => outcome[r.ask].how = "connected")

\* An ended session has nothing left of its own.
EndedGone ==
    \A a \in Asks : outcome[a].how \in Ended =>
        /\ row[a].state \in {"gone", "over"} /\ cred[a] = "deleted"
        /\ \A r \in rules : r.cred # a

\* Only finitely many sessions are open at a time.
LiveSessions == {a \in Asks : row[a].state \in Live}

Inv ==
    /\ TypeOK
    /\ SessionsAsked
    /\ AgentsPicked
    /\ TalkersOwn
    /\ GrantsIssued
    /\ IsFiniteSet(LiveSessions)
    /\ OneConversation
    /\ EndedGone
    /\ ConnectedAsReviewed
    /\ EditsMoved
    /\ SweepsKnow
    /\ RulesKnown

-----------------------------------------------------------------------------
(* What several actions share. *)

LEMMA AnAsk == (CHOOSE a \in Asks : TRUE) \in Asks
BY MixesAssumption

LEMMA IdleSweep == NoSweep \in SweepType /\ NoSweep.pc = "idle" /\ ~NoSweep.edit
BY AnAsk DEF NoSweep, SweepType, Named, Ended

LEMMA InitInv == Init => Inv
<1> SUFFICES ASSUME Init PROVE Inv
  OBVIOUS
<1>1. PICK mix \in Mixes :
        /\ ask = mix.asks
        /\ row = [a \in Asks |-> NoRow]
        /\ cred = [c \in Creds |-> IF c = Existing THEN "connected" ELSE "none"]
        /\ rules = {}
        /\ outcome = [a \in Asks |-> [how |-> "none", cred |-> a]]
        /\ confirm = [c \in Confirms |->
             [pc |-> IF c \in mix.confirms THEN "new" ELSE "absent", ask |-> CHOOSE a \in Asks : TRUE,
              kind |-> "oauth", agent |-> NoAgent, late |-> FALSE, rev |-> 0, from |-> "created",
              new |-> FALSE]]
        /\ sweep = [s \in Sweeps |->
             [NoSweep EXCEPT !.pc = IF s \in mix.sweeps THEN "idle" ELSE "absent"]]
        /\ landing = [l \in Landings |->
             [pc |-> IF l \in mix.landings THEN "idle" ELSE "absent", ask |-> CHOOSE a \in Asks : TRUE]]
  BY DEF Init
<1>2. ask \in [Asks -> AskType]
  <2>1. ask \in [Asks -> Profiles]
    BY <1>1, MixesAssumption
  <2>2. Profiles \subseteq AskType
    BY DEF Profiles, AskType, Named
  <2> QED
    BY <2>1, <2>2
<1>3. row \in [Asks -> RowType] /\ \A a \in Asks : row[a].state = "none" /\ row[a].flow = "oauth"
  BY <1>1 DEF RowType, NoRow, Named, Flows
<1>4. cred \in [Creds -> {"none", "pending", "connected", "deleted"}]
  BY <1>1
<1>5. /\ outcome \in [Asks -> [how : {"none", "connected"} \cup Ended, cred : Creds]]
      /\ \A a \in Asks : outcome[a].how = "none"
  BY <1>1 DEF Creds
<1>6. /\ confirm \in [Confirms -> ConfirmType]
      /\ \A c \in Confirms : confirm[c].pc \in {"new", "absent"}
  <2>1. \A c \in Confirms : confirm[c] \in ConfirmType
    BY <1>1, AnAsk DEF ConfirmType, Flows, Named, Open
  <2> QED
    BY <1>1, <2>1
<1>7. sweep \in [Sweeps -> SweepType] /\ \A s \in Sweeps : sweep[s].pc \in {"idle", "absent"}
  <2>1. ASSUME NEW pc \in {"idle", "absent"}
        PROVE  [NoSweep EXCEPT !.pc = pc] \in SweepType /\ [NoSweep EXCEPT !.pc = pc].pc = pc
    BY IdleSweep DEF SweepType
  <2>2. sweep = [s \in Sweeps |-> [NoSweep EXCEPT !.pc = IF s \in mix.sweeps THEN "idle" ELSE "absent"]]
    BY <1>1
  <2>3. \A s \in Sweeps : sweep[s] \in SweepType /\ sweep[s].pc \in {"idle", "absent"}
    BY <2>1, <2>2
  <2> QED
    BY <2>2, <2>3
<1>8. /\ landing \in [Landings -> LandingType]
      /\ \A l \in Landings : landing[l].pc \in {"idle", "absent"}
  BY <1>1, AnAsk DEF LandingType
<1>9. TypeOK
  BY <1>2, <1>3, <1>4, <1>5, <1>6, <1>7, <1>8 DEF TypeOK
<1>10. IsFiniteSet(LiveSessions)
  <2>1. LiveSessions = {}
    BY <1>3 DEF LiveSessions, Live
  <2> QED
    BY <2>1, FS_EmptySet
<1>11. EditsMoved /\ SweepsKnow /\ RulesKnown
  BY <1>1, <1>3, <1>7 DEF EditsMoved, EditOK, SweepsKnow, RulesKnown
<1> QED
  BY <1>3, <1>5, <1>6, <1>8, <1>9, <1>10, <1>11
  DEF Inv, SessionsAsked, AgentsPicked, TalkersOwn, GrantsIssued, OneConversation, EndedGone,
      ConnectedAsReviewed, Open, Talking, Ended

\* Sweeps know what they read as long as no session stops being an edit.
LEMMA SweepsKept ==
    ASSUME Inv, sweep' = sweep,
           \A a \in Asks : row[a].flow = "edit" => row'[a].flow = "edit"
    PROVE  SweepsKnow'
<1>1. \A s \in Sweeps : sweep[s].ask \in Asks
  BY DEF Inv, TypeOK, SweepType
<1> QED
  BY <1>1 DEF Inv, SweepsKnow

\* Rules are added on a session's own credential, or as it connects.
LEMMA RulesKept ==
    ASSUME Inv,
           \A r \in rules' : \/ r \in rules
                             \/ r.ask \in Asks /\ (r.cred = r.ask \/ outcome'[r.ask].how = "connected"),
           \A a \in Asks : outcome[a].how = "connected" => outcome'[a].how = "connected"
    PROVE  RulesKnown'
BY DEF Inv, RulesKnown

\* A step on one session leaves the other sessions' edits alone.
LEMMA EditsKept ==
    ASSUME Inv, NEW a \in Asks, \A b \in Asks : b = a => EditOK(b)',
           \A b \in Asks : b # a => row'[b] = row[b] /\ cred'[b] = cred[b],
           \A r \in rules' : r \in rules \/ r.cred \in {a, Existing}
    PROVE  EditsMoved'
<1> SUFFICES ASSUME NEW b \in Asks, b # a PROVE EditOK(b)'
  BY DEF EditsMoved
<1>1. EditOK(b) /\ b # Existing
  BY NamesAssumption DEF Inv, EditsMoved
<1> QED
  BY <1>1 DEF EditOK

\* A step that leaves sessions, confirms and grants alone.
LEMMA FrameInv ==
    ASSUME Inv, TypeOK', UNCHANGED <<row, cred, rules, outcome, confirm, landing>>, SweepsKnow',
           \A a \in Asks : /\ ask'[a].agent = ask[a].agent
                           /\ ask[a].pc = "opened" => ask'[a].pc = "opened"
    PROVE  Inv'
<1> USE DEF Inv
<1>1. SessionsAsked' /\ AgentsPicked'
  BY SMTT(30) DEF SessionsAsked, AgentsPicked, TypeOK, ConfirmType
<1>2. TalkersOwn' /\ GrantsIssued' /\ IsFiniteSet(LiveSessions)'
  BY DEF TalkersOwn, TalkerOwns, GrantsIssued, LiveSessions
<1>3. OneConversation' /\ EndedGone' /\ ConnectedAsReviewed'
  BY DEF OneConversation, EndedGone, ConnectedAsReviewed
<1>4. EditsMoved' /\ RulesKnown'
  BY DEF EditsMoved, EditOK, RulesKnown
<1> QED
  BY <1>1, <1>2, <1>3, <1>4

\* Confirm c takes a step that writes no session and no rule.
LEMMA ConfirmMoves ==
    ASSUME Inv, TypeOK', NEW c \in Confirms,
           UNCHANGED <<ask, row, cred, rules, outcome, sweep, landing>>,
           \A d \in Confirms : d # c => confirm'[d] = confirm[d],
           /\ confirm'[c].ask = confirm[c].ask /\ confirm'[c].agent = confirm[c].agent
           /\ confirm'[c].late = confirm[c].late /\ confirm'[c].rev = confirm[c].rev
           /\ confirm'[c].kind = confirm[c].kind,
           confirm[c].pc \notin {"new", "absent", "issued"},
           confirm'[c].pc \in Talking => confirm[c].pc \in Talking,
           confirm'[c].pc \in {"bindlast", "issued"} =>
               confirm[c].pc \in {"bindlast", "issued"} \/ confirm[c].kind = "widen"
    PROVE  Inv'
<1> USE DEF Inv
<1>1. SessionsAsked' /\ EndedGone' /\ ConnectedAsReviewed' /\ IsFiniteSet(LiveSessions)'
  BY DEF SessionsAsked, EndedGone, ConnectedAsReviewed, LiveSessions
<1>2. AgentsPicked'
  BY DEF AgentsPicked
<1>3. TalkersOwn'
  <2> SUFFICES ASSUME NEW d \in Confirms, confirm'[d].pc \in Talking PROVE TalkerOwns(d)'
    BY DEF TalkersOwn
  <2>1. TalkerOwns(d)
    BY DEF TalkersOwn
  <2> QED
    BY <2>1 DEF TalkerOwns
<1>4. GrantsIssued'
  BY DEF GrantsIssued
<1>5. OneConversation'
  BY DEF OneConversation, Talking
<1>6. EditsMoved' /\ SweepsKnow' /\ RulesKnown'
  BY DEF EditsMoved, EditOK, SweepsKnow, RulesKnown
<1> QED
  BY <1>1, <1>2, <1>3, <1>4, <1>5, <1>6

\* Fewer sessions are open.
LEMMA FewerLive ==
    ASSUME IsFiniteSet(LiveSessions), \A a \in Asks : row'[a].state \in Live => row[a].state \in Live
    PROVE  IsFiniteSet(LiveSessions)'
<1>1. LiveSessions' \subseteq LiveSessions
  BY DEF LiveSessions
<1> QED
  BY <1>1, FS_Subset

-----------------------------------------------------------------------------
(* One lemma per action. *)

LEMMA AskStepInv == ASSUME Inv, NEW a \in Asks, AskCooldown(a) \/ AskOpen(a) PROVE Inv'
<1>1. /\ UNCHANGED <<row, cred, rules, outcome, bound, hold, confirm, sweep, landing>>
      /\ ask[a].pc \in {"new", "asked"}
  BY DEF AskCooldown, AskOpen, rowVars
<1>2. PICK pc \in {"refused", "asked", "clear"} : ask' = [ask EXCEPT ![a].pc = pc]
  <2>1. CASE AskCooldown(a)
    BY <2>1 DEF AskCooldown, AskGoes
  <2>2. CASE AskOpen(a)
    BY <2>2 DEF AskOpen, AskGoes
  <2> QED
    BY <2>1, <2>2
<1>3. TypeOK'
  <2>1. ask \in [Asks -> AskType]
    BY DEF Inv, TypeOK
  <2>2. ask' \in [Asks -> AskType]
    BY <1>2, <2>1 DEF AskType
  <2> QED
    BY <1>1, <2>2 DEF Inv, TypeOK
<1>4. \A b \in Asks : /\ ask'[b].agent = ask[b].agent
                      /\ ask[b].pc = "opened" => ask'[b].pc = "opened"
  BY <1>1, <1>2 DEF Inv, TypeOK, AskType
<1>5. SweepsKnow'
  BY <1>1, SweepsKept
<1> QED
  BY <1>1, <1>3, <1>4, <1>5, FrameInv

LEMMA OpenSessionInv == ASSUME Inv, NEW a \in Asks, OpenSession(a) PROVE Inv'
<1>0. /\ ask[a].pc = "clear" /\ UNCHANGED <<rules, outcome, bound, hold, confirm, sweep, landing>>
      /\ ask \in [Asks -> AskType] /\ row \in [Asks -> RowType]
  BY DEF OpenSession, Inv, TypeOK
<1>1. CASE ~MayOpen(a)
  <2>1. ask' = [ask EXCEPT ![a].pc = "refused"] /\ UNCHANGED <<cred, row>>
    BY <1>1 DEF OpenSession, AskGoes
  <2>2. TypeOK'
    BY <1>0, <2>1, SMTT(30) DEF Inv, TypeOK, AskType
  <2>3. \A b \in Asks : /\ ask'[b].agent = ask[b].agent
                        /\ ask[b].pc = "opened" => ask'[b].pc = "opened"
    BY <1>0, <2>1 DEF AskType
  <2>4. SweepsKnow'
    BY <1>0, <2>1, SweepsKept
  <2> QED
    BY <1>0, <2>1, <2>2, <2>3, <2>4, FrameInv
<1>2. CASE MayOpen(a)
  <2> DEFINE r == [state |-> IF ask[a].flow = "awaiting_app" THEN "awaiting_app" ELSE "created",
                   rev |-> 1, agent |-> ask[a].agent, flow |-> ask[a].flow]
  <2>1. /\ ask' = [ask EXCEPT ![a].pc = "opened"] /\ cred' = [cred EXCEPT ![a] = "pending"]
        /\ row' = [row EXCEPT ![a] = r]
    BY <1>2 DEF OpenSession, AskGoes
  <2>2. r \in RowType /\ r.state \in Open /\ r.agent = ask[a].agent /\ r.flow # "edit"
    BY <1>0 DEF RowType, AskType, Open, Flows
  <2> HIDE DEF r
  <2>3. /\ row' \in [Asks -> RowType] /\ row'[a] = r
        /\ \A b \in Asks : b # a => row'[b] = row[b]
    BY <1>0, <2>1, <2>2
  <2>4. /\ ask' \in [Asks -> AskType] /\ ask'[a].pc = "opened"
        /\ \A b \in Asks : ask'[b].agent = ask[b].agent /\ (b # a => ask'[b] = ask[b])
    BY <1>0, <2>1 DEF AskType
  <2>5. TypeOK'
    BY <1>0, <2>1, <2>3, <2>4 DEF Inv, TypeOK
  <2>6. row[a].state = "none"
    BY <1>0 DEF Inv, SessionsAsked
  <2>7. SessionsAsked'
    BY <2>2, <2>3, <2>4 DEF Inv, SessionsAsked
  <2>8. AgentsPicked'
    BY <1>0, <2>4 DEF Inv, TypeOK, ConfirmType, AgentsPicked
  <2>9. TalkersOwn'
    <3> SUFFICES ASSUME NEW d \in Confirms, confirm[d].pc \in Talking PROVE TalkerOwns(d)'
      BY <1>0 DEF TalkersOwn
    <3>1. TalkerOwns(d) /\ confirm[d].ask \in Asks
      BY DEF Inv, TypeOK, ConfirmType, TalkersOwn
    <3>2. confirm[d].ask # a
      BY <2>6, <3>1 DEF TalkerOwns
    <3> QED
      BY <1>0, <2>3, <3>1, <3>2 DEF TalkerOwns
  <2>10. GrantsIssued' /\ OneConversation'
    BY <1>0 DEF Inv, GrantsIssued, OneConversation
  <2>11. IsFiniteSet(LiveSessions)'
    <3>1. LiveSessions' = LiveSessions \cup {a}
      BY <2>2, <2>3 DEF LiveSessions, Live, Open
    <3> QED
      BY <3>1, FS_AddElement DEF Inv
  <2>12. EndedGone'
    <3>1. \A b \in Asks : b # a => cred'[b] = cred[b]
      BY <2>1 DEF Inv, TypeOK, Creds
    <3> QED
      BY <1>0, <2>3, <2>6, <3>1 DEF Inv, EndedGone
  <2>13. ConnectedAsReviewed'
    BY <1>0, <2>2, <2>3 DEF Inv, ConnectedAsReviewed, Open
  <2>14. EditsMoved'
    <3>1. \A b \in Asks : b # a => cred'[b] = cred[b]
      BY <2>1 DEF Inv, TypeOK, Creds
    <3>2. \A b \in Asks : b = a => EditOK(b)'
      BY <2>2, <2>3 DEF EditOK, Open
    <3> QED
      BY <1>0, <2>3, <3>1, <3>2, EditsKept
  <2>15. row[a].flow # "edit"
    BY <2>6 DEF Inv, EditsMoved, EditOK
  <2>16. SweepsKnow' /\ RulesKnown'
    BY <1>0, <2>3, <2>15, SweepsKept, RulesKept
  <2> QED
    BY <2>5, <2>7, <2>8, <2>9, <2>10, <2>11, <2>12, <2>13, <2>14, <2>16 DEF Inv
<1> QED
  BY <1>1, <1>2

\* Amending a session, or learning of its OAuth app, leaves it open for the same agent;
\* no confirm talks to the vendor about an open session.
LEMMA OpenEditInv == ASSUME Inv, NEW a \in Asks, Amend(a) \/ LeaveAwaitingApp(a) PROVE Inv'
<1>0. /\ UNCHANGED <<ask, cred, rules, outcome, bound, hold, confirm, sweep, landing>>
      /\ row[a].state \in Open
      /\ row \in [Asks -> RowType]
      /\ row[a].flow # "edit"
  BY DEF Amend, LeaveAwaitingApp, Inv, TypeOK, Open, EditsMoved, EditOK
<1>1. /\ row' \in [Asks -> RowType] /\ row'[a].state \in Open /\ row'[a].agent = row[a].agent
      /\ row'[a].flow # "edit"
      /\ \A b \in Asks : b # a => row'[b] = row[b]
  <2>1. CASE Amend(a)
    BY <1>0, <2>1 DEF Amend, RowType
  <2>2. CASE LeaveAwaitingApp(a)
    BY <1>0, <2>2, ZenonT(60) DEF LeaveAwaitingApp, RowType, Open, Flows
  <2> QED
    BY <2>1, <2>2
<1>2. TypeOK'
  BY <1>0, <1>1 DEF Inv, TypeOK
<1>3. SessionsAsked'
  BY <1>0, <1>1 DEF Inv, SessionsAsked, Open
<1>4. AgentsPicked' /\ GrantsIssued' /\ OneConversation'
  BY <1>0 DEF Inv, AgentsPicked, GrantsIssued, OneConversation
<1>5. TalkersOwn'
  <2> SUFFICES ASSUME NEW d \in Confirms, confirm[d].pc \in Talking PROVE TalkerOwns(d)'
    BY <1>0 DEF TalkersOwn
  <2>1. TalkerOwns(d) /\ confirm[d].ask \in Asks
    BY DEF Inv, TypeOK, ConfirmType, TalkersOwn
  <2>2. confirm[d].ask # a
    BY <1>0, <2>1 DEF TalkerOwns, Open
  <2> QED
    BY <1>0, <1>1, <2>1, <2>2 DEF TalkerOwns
<1>6. IsFiniteSet(LiveSessions)'
  BY <1>0, <1>1, FewerLive DEF Inv, Live, Open
<1>7. EndedGone' /\ ConnectedAsReviewed'
  BY <1>0, <1>1 DEF Inv, EndedGone, ConnectedAsReviewed, Open
<1>8. EditsMoved'
  <2>1. \A b \in Asks : b = a => EditOK(b)'
    BY <1>1 DEF EditOK, Open
  <2> QED
    BY <1>0, <1>1, <2>1, EditsKept
<1>9. SweepsKnow' /\ RulesKnown'
  BY <1>0, <1>1, SweepsKept, RulesKept
<1> QED
  BY <1>2, <1>3, <1>4, <1>5, <1>6, <1>7, <1>8, <1>9 DEF Inv

\* A confirm begins: late is exactly that the session named nobody.
LEMMA ConfirmReadInv ==
    ASSUME Inv, NEW c \in Confirms, NEW a \in Asks, NEW g \in Agents \cup {NoAgent},
           NEW kind \in Kinds(a), ConfirmRead(c, a, kind, g)
    PROVE  Inv'
<1> DEFINE n == [pc |-> IF kind \in {"secret", "existing"} /\ g # NoAgent THEN "bind" ELSE "swap",
                 ask |-> a, kind |-> kind, agent |-> g, late |-> g # row[a].agent,
                 rev |-> row[a].rev, from |-> row[a].state, new |-> FALSE]
<1>0. /\ UNCHANGED <<ask, row, cred, rules, outcome, bound, hold, sweep, landing>>
      /\ confirm[c].pc = "new" /\ row[a].state \in Open
      /\ row[a].agent # NoAgent => g = row[a].agent
      /\ confirm' = [confirm EXCEPT ![c] = n]
      /\ row[a] \in RowType /\ confirm \in [Confirms -> ConfirmType]
  BY DEF ConfirmRead, rowVars, Inv, TypeOK
<1>1. /\ n.pc \in {"bind", "swap"} /\ n.ask = a /\ n.agent = g /\ n.late = (g # row[a].agent)
      /\ n \in ConfirmType
  <2>1. kind \in Flows \cup {"own_client", "existing", "widen"}
    <3>1. row[a].flow \in Flows
      BY <1>0 DEF Inv, EditsMoved, EditOK, RowType, Open
    <3> QED
      BY <3>1 DEF Kinds
  <2>2. row[a].rev \in Nat
    BY <1>0 DEF RowType
  <2> QED
    BY <1>0, <2>1, <2>2 DEF ConfirmType, Named
<1> HIDE DEF n
<1>2. /\ confirm' \in [Confirms -> ConfirmType] /\ confirm'[c] = n
      /\ \A d \in Confirms : d # c => confirm'[d] = confirm[d]
  BY <1>0, <1>1
<1>3. TypeOK'
  BY <1>0, <1>2 DEF Inv, TypeOK
<1>4. SessionsAsked' /\ EndedGone' /\ ConnectedAsReviewed' /\ IsFiniteSet(LiveSessions)'
  BY <1>0 DEF Inv, SessionsAsked, EndedGone, ConnectedAsReviewed, LiveSessions
<1>5. AgentsPicked'
  <2>1. row[a].agent = ask[a].agent
    BY <1>0 DEF Inv, SessionsAsked
  <2> QED
    BY <1>0, <1>1, <1>2, <2>1 DEF Inv, AgentsPicked
<1>6. TalkersOwn'
  <2> SUFFICES ASSUME NEW d \in Confirms, confirm'[d].pc \in Talking PROVE TalkerOwns(d)'
    BY DEF TalkersOwn
  <2>1. d # c /\ confirm'[d] = confirm[d]
    BY <1>1, <1>2 DEF Talking
  <2>2. TalkerOwns(d)
    BY <2>1 DEF Inv, TalkersOwn
  <2> QED
    BY <1>0, <2>1, <2>2 DEF TalkerOwns
<1>7. GrantsIssued'
  BY <1>0, <1>2 DEF Inv, GrantsIssued
<1>8. OneConversation'
  BY <1>1, <1>2 DEF Inv, OneConversation
<1>9. EditsMoved' /\ SweepsKnow' /\ RulesKnown'
  BY <1>0 DEF Inv, EditsMoved, EditOK, SweepsKnow, RulesKnown
<1> QED
  BY <1>3, <1>4, <1>5, <1>6, <1>7, <1>8, <1>9 DEF Inv

\* The steps of a confirm that write neither its session nor rules.
LEMMA ConfirmStepInv ==
    ASSUME Inv, NEW c \in Confirms,
           \/ BindFirst(c) \/ AgentUsable(c) \/ AgentUnusable(c) \/ BeginSucceeds(c) \/ BindLast(c)
           \/ SwapRaises(c) \/ Recheck(c) \/ Compensate(c) \/ ConfirmDies(c)
    PROVE  Inv'
<1>0. UNCHANGED <<ask, row, cred, rules, outcome, sweep, landing>>
  BY DEF BindFirst, AgentUsable, AgentUnusable, BeginSucceeds, BindLast, SwapRaises, Recheck, Compensate,
         ConfirmDies, rowVars
<1>1. confirm \in [Confirms -> ConfirmType]
  BY DEF Inv, TypeOK
<1>2. PICK pc \in {"bound", "swap", "rules", "issued", "unbind", "done"}, new \in BOOLEAN :
        /\ confirm' = [confirm EXCEPT ![c].pc = pc, ![c].new = new]
        /\ pc = "rules" => confirm[c].pc = "begin"
        /\ pc = "issued" => \/ confirm[c].pc = "bindlast"
                            \/ confirm[c].pc = "begin" /\ confirm[c].kind = "widen"
        /\ confirm[c].pc \notin {"new", "absent", "issued"}
  <2>1. CASE BindFirst(c)
    <3>1. confirm' = [confirm EXCEPT ![c].pc = "bound", ![c].new = (Pair(c) \notin bound)]
      BY <2>1 DEF BindFirst
    <3> QED
      BY <2>1, <3>1 DEF BindFirst
  <2>2. CASE \/ AgentUsable(c) \/ AgentUnusable(c) \/ BeginSucceeds(c) \/ BindLast(c)
             \/ SwapRaises(c) \/ Recheck(c) \/ Compensate(c) \/ ConfirmDies(c)
    <3>1. PICK pc \in {"swap", "rules", "issued", "unbind", "done"} :
            /\ confirm' = [confirm EXCEPT ![c].pc = pc]
            /\ pc = "rules" => confirm[c].pc = "begin"
            /\ pc = "issued" => \/ confirm[c].pc = "bindlast"
                                \/ confirm[c].pc = "begin" /\ confirm[c].kind = "widen"
            /\ confirm[c].pc \notin {"new", "absent", "issued"}
      BY <2>2 DEF AgentUsable, AgentUnusable, BeginSucceeds, BindLast, SwapRaises, Recheck, Compensate,
                  ConfirmDies, ConfirmGoes
    <3>2. confirm[c] \in ConfirmType /\ confirm[c].new \in BOOLEAN
      BY <1>1 DEF ConfirmType
    <3>3. [confirm EXCEPT ![c].pc = pc] = [confirm EXCEPT ![c].pc = pc, ![c].new = confirm[c].new]
      BY <1>1, <3>2 DEF ConfirmType
    <3> QED
      BY <3>1, <3>2, <3>3
  <2> QED
    BY <2>1, <2>2
<1>3. /\ confirm' \in [Confirms -> ConfirmType]
      /\ \A d \in Confirms : d # c => confirm'[d] = confirm[d]
      /\ confirm'[c].ask = confirm[c].ask /\ confirm'[c].agent = confirm[c].agent
      /\ confirm'[c].late = confirm[c].late /\ confirm'[c].rev = confirm[c].rev
      /\ confirm'[c].kind = confirm[c].kind /\ confirm'[c].pc = pc
  <2> DEFINE x == [confirm[c] EXCEPT !.pc = pc, !.new = new]
  <2>1. confirm' = [confirm EXCEPT ![c] = x]
    BY <1>2
  <2>2. confirm[c] \in ConfirmType
    BY <1>1
  <2>3. /\ x \in ConfirmType /\ x.pc = pc /\ x.ask = confirm[c].ask
        /\ x.agent = confirm[c].agent /\ x.late = confirm[c].late /\ x.rev = confirm[c].rev
        /\ x.kind = confirm[c].kind
    BY ONLY <2>2, pc \in {"bound", "swap", "rules", "issued", "unbind", "done"}, new \in BOOLEAN
    DEF ConfirmType, Talking
  <2> HIDE DEF x
  <2> QED
    BY <1>1, <2>1, <2>3
<1>4. TypeOK'
  BY <1>0, <1>3 DEF Inv, TypeOK
<1> QED
  BY <1>0, <1>2, <1>3, <1>4, ConfirmMoves DEF Talking

\* A swap that is lost leaves everything but the confirm.
LEMMA SwapLostInv ==
    ASSUME Inv, NEW c \in Confirms, confirm[c].pc = "swap", ~Wins(c),
           SwapToPolling(c) \/ SwapToEdit(c) \/ SwapToConnected(c)
    PROVE  Inv'
<1>0. UNCHANGED <<ask, row, cred, rules, outcome, sweep, landing>>
  BY DEF SwapToPolling, SwapToEdit, SwapToConnected, rowVars
<1>1. confirm \in [Confirms -> ConfirmType]
  BY DEF Inv, TypeOK
<1>2. PICK pc \in {"recheck", "done"} : confirm' = [confirm EXCEPT ![c].pc = pc]
  BY DEF SwapToPolling, SwapToEdit, SwapToConnected, ConfirmGoes
<1>3. /\ confirm' \in [Confirms -> ConfirmType]
      /\ \A d \in Confirms : d # c => confirm'[d] = confirm[d]
      /\ confirm'[c].ask = confirm[c].ask /\ confirm'[c].agent = confirm[c].agent
      /\ confirm'[c].late = confirm[c].late /\ confirm'[c].rev = confirm[c].rev
      /\ confirm'[c].kind = confirm[c].kind /\ confirm'[c].pc = pc
  BY <1>1, <1>2 DEF ConfirmType
<1>4. TypeOK'
  BY <1>0, <1>3 DEF Inv, TypeOK
<1> QED
  BY <1>0, <1>3, <1>4, ConfirmMoves DEF Talking

\* What a won swap finds, and the row it leaves: an open session nobody talks about,
\* which from now on names the confirm's agent.
LEMMA WonSwap ==
    ASSUME Inv, NEW c \in Confirms, confirm[c].pc = "swap", Wins(c),
           NEW state \in {"polling", "connected", "gone"}, row' = Moved(c, state),
           UNCHANGED ask
    PROVE  /\ confirm[c].ask \in Asks
           /\ row[confirm[c].ask].state \in Open
           /\ \A d \in Confirms : confirm[d].pc \in Talking => confirm[d].ask # confirm[c].ask
           /\ row' \in [Asks -> RowType]
           /\ row'[confirm[c].ask].state = state
           /\ row'[confirm[c].ask].agent = confirm[c].agent
           /\ row'[confirm[c].ask].rev = confirm[c].rev
           /\ row[confirm[c].ask].flow # "edit"
           /\ row'[confirm[c].ask].flow = "edit" <=> confirm[c].kind = "widen"
           /\ outcome[confirm[c].ask].how \notin Ended
           /\ \A b \in Asks : b # confirm[c].ask => row'[b] = row[b]
           /\ SessionsAsked'
           /\ IsFiniteSet(LiveSessions)'
<1> DEFINE a == confirm[c].ask
<1>0. /\ confirm[c] \in ConfirmType /\ a \in Asks /\ confirm[c].agent \in Named
      /\ confirm[c].from \in Open
      /\ row \in [Asks -> RowType] /\ row[a] \in RowType
  BY DEF Inv, TypeOK, ConfirmType
<1>1. /\ row[a].state \in Open /\ row[a].rev = confirm[c].rev
      /\ row[a].flow # "edit" /\ outcome[a].how \notin Ended
  <2>1. row[a].state \in Open /\ row[a].rev = confirm[c].rev
    BY <1>0 DEF Wins
  <2> QED
    BY <1>0, <2>1 DEF Inv, EditsMoved, EditOK, EndedGone, Open
<1>2. row[a].agent = ask[a].agent /\ ask[a].pc = "opened"
  BY <1>0, <1>1 DEF Inv, SessionsAsked, Open
<1>3. \A d \in Confirms : confirm[d].pc \in Talking => confirm[d].ask # a
  BY <1>1 DEF Inv, TalkersOwn, TalkerOwns, Open
<1> DEFINE g == IF confirm[c].late THEN confirm[c].agent ELSE row[a].agent
           w == CASE confirm[c].kind = "own_client" -> "oauth"
                  [] confirm[c].kind = "widen"      -> "edit"
                  [] OTHER                          -> row[a].flow
<1>4. g = confirm[c].agent
  BY <1>2 DEF Inv, AgentsPicked
<1>5. g \in Named /\ w \in Flows \cup {"edit"} /\ (w = "edit" <=> confirm[c].kind = "widen")
  BY <1>0, <1>1 DEF RowType, Flows
<1>6. row' = [row EXCEPT ![a].state = state, ![a].agent = g, ![a].flow = w]
  BY <1>0, SMTT(30) DEF Moved
<1> HIDE DEF g, w
<1>7. /\ row' \in [Asks -> RowType] /\ row'[a].state = state /\ row'[a].agent = confirm[c].agent
      /\ row'[a].rev = confirm[c].rev /\ row'[a].flow = w
      /\ \A b \in Asks : b # a => row'[b] = row[b]
  BY <1>0, <1>1, <1>4, <1>5, <1>6 DEF RowType
<1>8. SessionsAsked'
  BY <1>2, <1>7 DEF Inv, SessionsAsked, Open
<1>9. IsFiniteSet(LiveSessions)'
  <2>1. \A b \in Asks : row'[b].state \in Live => row[b].state \in Live
    BY <1>1, <1>7 DEF Live, Open
  <2> QED
    BY <2>1, FewerLive DEF Inv
<1> HIDE DEF a
<1> QED
  BY <1>0, <1>1, <1>3, <1>5, <1>7, <1>8, <1>9 DEF a

\* The swap to polling makes c the one that talks.
LEMMA SwapToPollingInv == ASSUME Inv, NEW c \in Confirms, SwapToPolling(c), Wins(c) PROVE Inv'
<1> DEFINE a == confirm[c].ask
<1>0. /\ UNCHANGED <<ask, cred, rules, outcome, bound, hold, sweep, landing>>
      /\ confirm[c].pc = "swap" /\ confirm[c].kind # "widen" /\ row' = Moved(c, "polling")
      /\ confirm' = [confirm EXCEPT ![c].pc = "begin"]
      /\ confirm \in [Confirms -> ConfirmType]
  BY DEF SwapToPolling, ConfirmGoes, Inv, TypeOK
<1>1. /\ a \in Asks /\ row[a].state \in Open
      /\ \A d \in Confirms : confirm[d].pc \in Talking => confirm[d].ask # a
      /\ row' \in [Asks -> RowType]
      /\ row'[a].state = "polling" /\ row'[a].agent = confirm[c].agent
      /\ row'[a].rev = confirm[c].rev /\ row[a].flow # "edit" /\ row'[a].flow # "edit"
      /\ \A b \in Asks : b # a => row'[b] = row[b]
      /\ SessionsAsked' /\ IsFiniteSet(LiveSessions)'
  BY <1>0, WonSwap
<1>2. /\ confirm' \in [Confirms -> ConfirmType]
      /\ \A d \in Confirms : d # c => confirm'[d] = confirm[d]
      /\ confirm'[c].ask = confirm[c].ask /\ confirm'[c].agent = confirm[c].agent
      /\ confirm'[c].late = confirm[c].late /\ confirm'[c].rev = confirm[c].rev
      /\ confirm'[c].kind = confirm[c].kind /\ confirm'[c].pc = "begin"
  BY <1>0 DEF ConfirmType, Talking
<1>3. TypeOK'
  BY <1>0, <1>1, <1>2 DEF Inv, TypeOK
<1>4. AgentsPicked'
  BY <1>0, <1>2 DEF Inv, AgentsPicked
<1>5. TalkersOwn'
  <2> SUFFICES ASSUME NEW d \in Confirms, confirm'[d].pc \in Talking PROVE TalkerOwns(d)'
    BY DEF TalkersOwn
  <2>1. CASE d = c
    BY <1>0, <1>1, <1>2, <2>1 DEF TalkerOwns
  <2>2. CASE d # c
    <3>1. confirm'[d] = confirm[d] /\ TalkerOwns(d) /\ confirm[d].ask \in Asks /\ confirm[d].ask # a
      BY <1>1, <1>2, <2>2 DEF Inv, TypeOK, ConfirmType, TalkersOwn
    <3> HIDE DEF a
    <3> QED
      BY <1>0, <1>1, <3>1 DEF TalkerOwns
  <2> QED
    BY <2>1, <2>2
<1>6. GrantsIssued'
  BY <1>0, <1>2 DEF Inv, GrantsIssued
<1>7. OneConversation'
  BY <1>1, <1>2 DEF Inv, OneConversation, Talking
<1>8. EndedGone' /\ ConnectedAsReviewed'
  <2> HIDE DEF a
  <2> QED
    BY <1>0, <1>1 DEF Inv, EndedGone, ConnectedAsReviewed, Open
<1>9. EditsMoved'
  <2>1. \A b \in Asks : b = a => EditOK(b)'
    BY <1>1 DEF EditOK
  <2> QED
    BY <1>0, <1>1, <2>1, EditsKept
<1>10. SweepsKnow' /\ RulesKnown'
  <2>1. \A b \in Asks : row[b].flow = "edit" => row'[b].flow = "edit"
    BY <1>1
  <2> QED
    BY <1>0, <2>1, SweepsKept, RulesKept
<1> QED
  BY <1>1, <1>3, <1>4, <1>5, <1>6, <1>7, <1>8, <1>9, <1>10 DEF Inv

\* The swap onto the existing credential makes c the one that talks, and leaves the
\* session nothing of its own.
LEMMA SwapToEditInv == ASSUME Inv, NEW c \in Confirms, SwapToEdit(c), Wins(c) PROVE Inv'
<1> DEFINE a == confirm[c].ask
<1>0. /\ UNCHANGED <<ask, outcome, bound, hold, sweep, landing>>
      /\ confirm[c].pc = "swap" /\ confirm[c].kind = "widen" /\ row' = Moved(c, "polling")
      /\ cred' = [cred EXCEPT ![a] = "deleted"]
      /\ rules' = {r \in rules : r.cred # a}
      /\ confirm' = [confirm EXCEPT ![c].pc = "begin"]
      /\ confirm \in [Confirms -> ConfirmType]
  BY DEF SwapToEdit, ConfirmGoes, Inv, TypeOK
<1>1. /\ a \in Asks /\ row[a].state \in Open
      /\ \A d \in Confirms : confirm[d].pc \in Talking => confirm[d].ask # a
      /\ row' \in [Asks -> RowType]
      /\ row'[a].state = "polling" /\ row'[a].agent = confirm[c].agent
      /\ row'[a].rev = confirm[c].rev /\ row[a].flow # "edit" /\ row'[a].flow = "edit"
      /\ outcome[a].how \notin Ended
      /\ \A b \in Asks : b # a => row'[b] = row[b]
      /\ SessionsAsked' /\ IsFiniteSet(LiveSessions)'
  BY <1>0, WonSwap
<1>2. /\ confirm' \in [Confirms -> ConfirmType]
      /\ \A d \in Confirms : d # c => confirm'[d] = confirm[d]
      /\ confirm'[c].ask = confirm[c].ask /\ confirm'[c].agent = confirm[c].agent
      /\ confirm'[c].late = confirm[c].late /\ confirm'[c].rev = confirm[c].rev
      /\ confirm'[c].kind = confirm[c].kind /\ confirm'[c].pc = "begin"
  BY <1>0 DEF ConfirmType, Talking
<1>3. /\ cred' \in [Creds -> {"none", "pending", "connected", "deleted"}]
      /\ cred'[a] = "deleted" /\ \A b \in Asks : b # a => cred'[b] = cred[b]
  BY <1>0, <1>1 DEF Inv, TypeOK, Creds
<1>4. TypeOK'
  BY <1>0, <1>1, <1>2, <1>3 DEF Inv, TypeOK
<1>5. AgentsPicked'
  BY <1>0, <1>2 DEF Inv, AgentsPicked
<1>6. GrantsIssued'
  BY <1>0, <1>2 DEF Inv, GrantsIssued
<1>7. OneConversation'
  BY <1>1, <1>2 DEF Inv, OneConversation, Talking
<1>8. TalkersOwn'
  <2> SUFFICES ASSUME NEW d \in Confirms, confirm'[d].pc \in Talking PROVE TalkerOwns(d)'
    BY DEF TalkersOwn
  <2>1. CASE d = c
    BY <1>0, <1>1, <1>2, <2>1 DEF TalkerOwns
  <2>2. CASE d # c
    <3>1. confirm'[d] = confirm[d] /\ TalkerOwns(d) /\ confirm[d].ask \in Asks /\ confirm[d].ask # a
      BY <1>1, <1>2, <2>2 DEF Inv, TypeOK, ConfirmType, TalkersOwn
    <3>2. Approved(confirm[d].agent, confirm[d].ask, confirm[d].rev).cred # a
      BY <3>1 DEF Approved
    <3> HIDE DEF a
    <3> QED
      BY <1>0, <1>1, <3>1, <3>2 DEF TalkerOwns
  <2> QED
    BY <2>1, <2>2
<1> HIDE DEF a
<1>9. EndedGone'
  BY <1>0, <1>1, <1>3 DEF Inv, EndedGone
<1>10. ConnectedAsReviewed'
  <2> SUFFICES ASSUME NEW b \in Asks, row'[b].state = "connected", row'[b].agent # NoAgent
               PROVE  Approved(row'[b].agent, b, row'[b].rev) \in rules'
    BY DEF ConnectedAsReviewed, Approved
  <2>1. b # a /\ row'[b] = row[b]
    BY <1>1
  <2>2. Approved(row[b].agent, b, row[b].rev) \in rules
    BY <2>1 DEF Inv, ConnectedAsReviewed, Approved
  <2>3. Approved(row[b].agent, b, row[b].rev).cred # a
    BY <2>1 DEF Approved
  <2> QED
    BY <1>0, <2>1, <2>2, <2>3
<1>11. EditsMoved'
  <2>1. \A b \in Asks : b = a => EditOK(b)'
    BY <1>0, <1>1, <1>3 DEF EditOK
  <2> QED
    BY <1>0, <1>1, <1>3, <2>1, EditsKept
<1>12. SweepsKnow' /\ RulesKnown'
  <2>1. \A b \in Asks : row[b].flow = "edit" => row'[b].flow = "edit"
    BY <1>1
  <2>2. \A r \in rules' : r \in rules
    BY <1>0
  <2> QED
    BY <1>0, <2>1, <2>2, SweepsKept, RulesKept
<1> QED
  BY <1>1, <1>4, <1>5, <1>6, <1>7, <1>8, <1>9, <1>10, <1>11, <1>12 DEF Inv

\* The vendor cannot be reached: the session is open again, for the agent it was asked
\* for.
LEMMA BeginFailsInv == ASSUME Inv, NEW c \in Confirms, BeginFails(c) PROVE Inv'
<1> DEFINE a == confirm[c].ask
<1>0. /\ UNCHANGED <<ask, cred, rules, outcome, bound, hold, sweep, landing>>
      /\ confirm[c].pc = "begin" /\ confirm[c].kind # "widen"
      /\ confirm' = [confirm EXCEPT ![c].pc = "done"]
      /\ confirm \in [Confirms -> ConfirmType]
      /\ row \in [Asks -> RowType]
  BY DEF BeginFails, ConfirmGoes, Inv, TypeOK
<1>1. /\ confirm' \in [Confirms -> ConfirmType]
      /\ \A d \in Confirms : d # c => confirm'[d] = confirm[d]
      /\ confirm'[c].ask = confirm[c].ask /\ confirm'[c].agent = confirm[c].agent
      /\ confirm'[c].late = confirm[c].late /\ confirm'[c].rev = confirm[c].rev
      /\ confirm'[c].kind = confirm[c].kind /\ confirm'[c].pc = "done"
  BY <1>0 DEF ConfirmType
<1>2. /\ a \in Asks /\ confirm[c].from \in Open /\ TalkerOwns(c)
      /\ row[a].state \in {"polling", "connected", "gone", "reopened", "over"}
  BY <1>0 DEF Inv, TalkersOwn, TalkerOwns, Talking, ConfirmType
<1>3. CASE row[a].state # "polling"
  <2>1. row' = row
    BY <1>3 DEF BeginFails
  <2>2. TypeOK'
    BY <1>0, <1>1, <2>1 DEF Inv, TypeOK
  <2> QED
    BY <1>0, <1>1, <2>1, <2>2, ConfirmMoves DEF Talking
<1>4. CASE row[a].state = "polling"
  <2> DEFINE g == IF confirm[c].late THEN NoAgent ELSE row[a].agent
             w == IF confirm[c].kind = "own_client" THEN "awaiting_app" ELSE row[a].flow
  <2>1. row' = [row EXCEPT ![a].state = confirm[c].from, ![a].agent = g, ![a].flow = w]
    BY <1>0, <1>2, <1>4 DEF BeginFails
  <2>2. row[a].agent = confirm[c].agent /\ row[a].flow # "edit"
    BY <1>0, <1>2, <1>4 DEF TalkerOwns
  <2>3. g = ask[a].agent
    BY <1>0, <2>2 DEF Inv, AgentsPicked
  <2>4. g \in Named /\ w \in Flows
    BY <1>0, <1>2, <2>2 DEF RowType, Named, Flows
  <2> HIDE DEF g, w
  <2>5. confirm[c].from \in {"created", "awaiting_app"}
    BY <1>2 DEF Open
  <2>6. /\ row' \in [Asks -> RowType] /\ row'[a].state \in Open /\ row'[a].agent = ask[a].agent
        /\ row'[a].flow = w
        /\ \A b \in Asks : b # a => row'[b] = row[b]
    BY <1>0, <1>2, <2>1, <2>3, <2>4, <2>5 DEF RowType, Open
  <2>7. TypeOK'
    BY <1>0, <1>1, <2>6 DEF Inv, TypeOK
  <2>8. SessionsAsked'
    BY <1>0, <1>4, <2>6 DEF Inv, SessionsAsked
  <2>9. AgentsPicked'
    BY <1>0, <1>1 DEF Inv, AgentsPicked
  <2>10. TalkersOwn'
    <3> SUFFICES ASSUME NEW d \in Confirms, confirm'[d].pc \in Talking PROVE TalkerOwns(d)'
      BY DEF TalkersOwn
    <3>1. d # c /\ confirm'[d] = confirm[d]
      BY <1>1 DEF Talking
    <3>2. confirm[d].ask # a
      BY <1>0, <3>1 DEF Inv, OneConversation, Talking
    <3>3. TalkerOwns(d) /\ confirm[d].ask \in Asks
      BY <1>0, <3>1 DEF Inv, TalkersOwn, ConfirmType
    <3> HIDE DEF a
    <3> QED
      BY <1>0, <2>6, <3>1, <3>2, <3>3 DEF TalkerOwns
  <2>11. GrantsIssued' /\ OneConversation'
    BY <1>0, <1>1 DEF Inv, GrantsIssued, OneConversation
  <2>12. IsFiniteSet(LiveSessions)'
    <3>1. \A b \in Asks : row'[b].state \in Live => row[b].state \in Live
      BY <1>4, <2>6 DEF Live
    <3> QED
      BY <3>1, FewerLive DEF Inv
  <2>13. EndedGone' /\ ConnectedAsReviewed'
    <3> HIDE DEF a
    <3> QED
      BY <1>0, <1>4, <2>6 DEF Inv, EndedGone, ConnectedAsReviewed, Open
  <2>14. EditsMoved'
    <3>1. \A b \in Asks : b = a => EditOK(b)'
      BY <2>4, <2>6 DEF EditOK, Open, Flows
    <3> QED
      BY <1>0, <1>2, <2>6, <3>1, EditsKept
  <2>15. SweepsKnow' /\ RulesKnown'
    <3>1. \A b \in Asks : row[b].flow = "edit" => row'[b].flow = "edit"
      BY <2>2, <2>6
    <3> QED
      BY <1>0, <3>1, SweepsKept, RulesKept
  <2> QED
    BY <2>7, <2>8, <2>9, <2>10, <2>11, <2>12, <2>13, <2>14, <2>15 DEF Inv
<1> QED
  BY <1>3, <1>4

\* A session that only changes its state, from live to ended, on a credential that is not
\* its own: what the end of an edit has in common.
LEMMA EditEnds ==
    ASSUME Inv, TypeOK', NEW a \in Asks, row[a].state \in Live, row[a].flow = "edit",
           NEW how \in Ended, outcome' = Recorded(a, how, Existing),
           row' = [row EXCEPT ![a].state = "gone"], UNCHANGED <<ask, cred, rules, landing>>
    PROVE  /\ SessionsAsked' /\ IsFiniteSet(LiveSessions)' /\ EndedGone' /\ ConnectedAsReviewed'
           /\ EditsMoved' /\ RulesKnown'
           /\ \A b \in Asks : row[b].flow = "edit" => row'[b].flow = "edit"
           /\ \A d \in Confirms : confirm'[d] = confirm[d] /\ TalkerOwns(d) => TalkerOwns(d)'
<1>0. row \in [Asks -> RowType] /\ EditOK(a)
  BY DEF Inv, TypeOK, EditsMoved
<1>1. /\ row'[a].state = "gone" /\ row'[a].flow = "edit"
      /\ \A b \in Asks : b # a => row'[b] = row[b]
  BY <1>0 DEF RowType
<1>2. /\ \A b \in Asks : b # a => outcome'[b] = outcome[b]
      /\ \A b \in Asks : outcome[b].how = "connected" => outcome'[b].how = "connected"
  BY DEF Recorded, Inv, TypeOK
<1>3. SessionsAsked'
  BY <1>1 DEF Inv, SessionsAsked, Open, Live
<1>4. IsFiniteSet(LiveSessions)'
  <2>1. \A b \in Asks : row'[b].state \in Live => row[b].state \in Live
    BY <1>1
  <2> QED
    BY <2>1, FewerLive DEF Inv
<1>5. EndedGone'
  BY <1>0, <1>1, <1>2 DEF Inv, EndedGone, EditOK
<1>6. ConnectedAsReviewed'
  BY <1>1 DEF Inv, ConnectedAsReviewed
<1>7. EditsMoved'
  <2>1. \A b \in Asks : b = a => EditOK(b)'
    BY <1>0, <1>1 DEF EditOK
  <2> QED
    BY <1>1, <2>1, EditsKept
<1>8. RulesKnown'
  BY <1>2, RulesKept
<1>9. ASSUME NEW d \in Confirms, confirm'[d] = confirm[d], TalkerOwns(d) PROVE TalkerOwns(d)'
  <2>1. confirm[d].ask \in Asks
    BY DEF Inv, TypeOK, ConfirmType
  <2> QED
    BY <1>1, <1>9, <2>1 DEF TalkerOwns
<1> QED
  BY <1>1, <1>3, <1>4, <1>5, <1>6, <1>7, <1>8, <1>9

\* The vendor cannot be reached for a widening: the session ends.
LEMMA WideningFailsInv == ASSUME Inv, NEW c \in Confirms, WideningFails(c) PROVE Inv'
<1> DEFINE a == confirm[c].ask
<1>0. /\ UNCHANGED <<ask, cred, rules, bound, hold, sweep, landing>>
      /\ confirm[c].pc = "begin" /\ confirm[c].kind = "widen"
      /\ confirm' = [confirm EXCEPT ![c].pc = "done"]
      /\ confirm \in [Confirms -> ConfirmType]
      /\ a \in Asks /\ row \in [Asks -> RowType]
  BY DEF WideningFails, ConfirmGoes, Inv, TypeOK, ConfirmType
<1>1. /\ confirm' \in [Confirms -> ConfirmType]
      /\ \A d \in Confirms : d # c => confirm'[d] = confirm[d]
      /\ confirm'[c].ask = confirm[c].ask /\ confirm'[c].agent = confirm[c].agent
      /\ confirm'[c].late = confirm[c].late /\ confirm'[c].rev = confirm[c].rev
      /\ confirm'[c].kind = confirm[c].kind /\ confirm'[c].pc = "done"
  BY <1>0 DEF ConfirmType
<1>2. CASE ~IsLive(a)
  <2>1. UNCHANGED <<row, outcome>>
    BY <1>2 DEF WideningFails
  <2>2. TypeOK'
    BY <1>0, <1>1, <2>1 DEF Inv, TypeOK
  <2> QED
    BY <1>0, <1>1, <2>1, <2>2, ConfirmMoves DEF Talking
<1>3. CASE IsLive(a)
  <2>1. row' = [row EXCEPT ![a].state = "gone"] /\ outcome' = Recorded(a, "ended", Existing)
    BY <1>3 DEF WideningFails
  <2>2. row[a].state \in Live /\ row[a].flow = "edit"
    <3>1. TalkerOwns(c)
      BY <1>0 DEF Inv, TalkersOwn, Talking
    <3> QED
      BY <1>0, <1>3, <3>1 DEF TalkerOwns, IsLive, Live
  <2>3. /\ row' \in [Asks -> RowType]
        /\ outcome' \in [Asks -> [how : {"none", "connected"} \cup Ended, cred : Creds]]
    BY <1>0, <2>1, SMTT(30) DEF RowType, Recorded, Inv, TypeOK, Ended, Creds
  <2>4. TypeOK'
    BY <1>0, <1>1, <2>3 DEF Inv, TypeOK
  <2> HIDE DEF a
  <2>5. /\ SessionsAsked' /\ IsFiniteSet(LiveSessions)' /\ EndedGone' /\ ConnectedAsReviewed'
        /\ EditsMoved' /\ RulesKnown'
        /\ \A b \in Asks : row[b].flow = "edit" => row'[b].flow = "edit"
        /\ \A d \in Confirms : confirm'[d] = confirm[d] /\ TalkerOwns(d) => TalkerOwns(d)'
    BY <1>0, <2>1, <2>2, <2>4, EditEnds DEF Ended
  <2>6. AgentsPicked' /\ GrantsIssued' /\ OneConversation'
    BY <1>0, <1>1 DEF Inv, AgentsPicked, GrantsIssued, OneConversation
  <2>7. TalkersOwn'
    BY <1>1, <2>5 DEF Inv, TalkersOwn, Talking
  <2>8. SweepsKnow'
    BY <1>0, <2>5, SweepsKept
  <2> QED
    BY <2>4, <2>5, <2>6, <2>7, <2>8 DEF Inv
<1> QED
  BY <1>2, <1>3

\* The approved rules are those of the session's agent and revision, and nobody else
\* writes rules for its credential.
LEMMA WriteRulesInv == ASSUME Inv, NEW c \in Confirms, WriteRules(c) PROVE Inv'
<1> DEFINE a == confirm[c].ask
           g == confirm[c].agent
<1>0. /\ UNCHANGED <<ask, row, cred, outcome, bound, hold, sweep, landing>>
      /\ confirm[c].pc = "rules"
      /\ confirm \in [Confirms -> ConfirmType] /\ confirm[c] \in ConfirmType /\ a \in Asks
  BY DEF WriteRules, Inv, TypeOK, ConfirmType
<1>1. PICK pc \in {"issued", "bindlast", "done"} :
        /\ confirm' = [confirm EXCEPT ![c].pc = pc]
        /\ \/ rules' = rules /\ (pc # "done" => g = NoAgent)
           \/ g # NoAgent /\ cred[a] # "deleted" /\ rules' = Replaced(g, a, a, confirm[c].rev)
  BY DEF WriteRules, ConfirmGoes
<1>2. /\ confirm' \in [Confirms -> ConfirmType]
      /\ \A d \in Confirms : d # c => confirm'[d] = confirm[d]
      /\ confirm'[c].ask = confirm[c].ask /\ confirm'[c].agent = confirm[c].agent
      /\ confirm'[c].late = confirm[c].late /\ confirm'[c].rev = confirm[c].rev
      /\ confirm'[c].kind = confirm[c].kind /\ confirm'[c].pc = pc
  BY <1>0, <1>1 DEF ConfirmType, Talking
<1>3. TypeOK'
  BY <1>0, <1>2 DEF Inv, TypeOK
<1>4. SessionsAsked' /\ AgentsPicked' /\ IsFiniteSet(LiveSessions)'
  BY <1>0, <1>2 DEF Inv, SessionsAsked, AgentsPicked, LiveSessions
<1>5. GrantsIssued' /\ OneConversation'
  BY <1>0, <1>2 DEF Inv, GrantsIssued, OneConversation, Talking
<1>6. \A r \in rules : r.cred # a => r \in rules'
  BY <1>1 DEF Replaced
<1>7. \A r \in rules' : r \in rules \/ r.cred = a
  BY <1>1 DEF Replaced
<1>8. pc \in {"issued", "bindlast"} /\ g # NoAgent => Approved(g, a, confirm[c].rev) \in rules'
  BY <1>1 DEF Replaced, Approved
<1>9. TalkersOwn'
  <2> SUFFICES ASSUME NEW d \in Confirms, confirm'[d].pc \in Talking PROVE TalkerOwns(d)'
    BY DEF TalkersOwn
  <2>1. CASE d = c
    <3>1. TalkerOwns(c)
      BY <1>0 DEF Inv, TalkersOwn, Talking
    <3> QED
      BY <1>0, <1>2, <1>8, <2>1, <3>1 DEF TalkerOwns
  <2>2. CASE d # c
    <3>1. confirm'[d] = confirm[d] /\ confirm[d].pc \in Talking
      BY <1>2, <2>2
    <3>2. confirm[d].ask # a
      BY <1>0, <2>2, <3>1 DEF Inv, OneConversation, Talking
    <3>3. TalkerOwns(d)
      BY <3>1 DEF Inv, TalkersOwn
    <3>4. Approved(confirm[d].agent, confirm[d].ask, confirm[d].rev).cred # a
      BY <3>2 DEF Approved
    <3> QED
      BY <1>0, <1>6, <3>1, <3>3, <3>4 DEF TalkerOwns
  <2> QED
    BY <2>1, <2>2
<1>10. EndedGone'
  <2>1. rules' = rules \/ cred[a] # "deleted"
    BY <1>1
  <2> HIDE DEF a
  <2> QED
    BY <1>0, <1>7, <2>1 DEF Inv, EndedGone
<1>11. ConnectedAsReviewed'
  <2> SUFFICES ASSUME NEW b \in Asks, row[b].state = "connected", row[b].agent # NoAgent
               PROVE  Approved(row[b].agent, b, row[b].rev) \in rules'
    BY <1>0 DEF ConnectedAsReviewed, Approved
  <2>1. Approved(row[b].agent, b, row[b].rev) \in rules
    BY DEF Inv, ConnectedAsReviewed, Approved
  <2>2. CASE b # a
    <3>1. Approved(row[b].agent, b, row[b].rev).cred # a
      BY <2>2 DEF Approved
    <3> QED
      BY <1>6, <2>1, <3>1
  <2>3. CASE b = a
    <3>1. row[a].agent = g /\ row[a].rev = confirm[c].rev
      BY <1>0, <2>3 DEF Inv, TalkersOwn, TalkerOwns, Talking
    <3>2. rules' = rules \/ Approved(g, a, confirm[c].rev) \in rules'
      BY <1>1 DEF Replaced, Approved
    <3> QED
      BY <2>1, <2>3, <3>1, <3>2
  <2> QED
    BY <2>2, <2>3
<1>12. EditsMoved'
  <2>1. EditOK(a)
    BY <1>0 DEF Inv, EditsMoved
  <2>2. rules' = rules \/ cred[a] # "deleted"
    BY <1>1
  <2>3. \A b \in Asks : b = a => EditOK(b)'
    BY <1>0, <2>1, <2>2 DEF EditOK
  <2> QED
    BY <1>0, <1>7, <2>3, EditsKept
<1>13. SweepsKnow' /\ RulesKnown'
  <2>1. \A r \in rules' : r \in rules \/ (r.ask \in Asks /\ r.cred = r.ask)
    BY <1>0, <1>1 DEF Replaced
  <2> QED
    BY <1>0, <2>1, SweepsKept, RulesKept
<1> QED
  BY <1>3, <1>4, <1>5, <1>9, <1>10, <1>11, <1>12, <1>13 DEF Inv

\* A session connected with a secret carries the reviewed rules; one connected with an
\* existing credential gives up its pending one.
LEMMA SwapToConnectedInv == ASSUME Inv, NEW c \in Confirms, SwapToConnected(c), Wins(c) PROVE Inv'
<1> DEFINE a == confirm[c].ask
           g == confirm[c].agent
           state == IF confirm[c].kind = "secret" THEN "connected" ELSE "gone"
<1>0. /\ UNCHANGED <<ask, bound, hold, sweep, landing>>
      /\ confirm[c].pc = "swap" /\ row' = Moved(c, state)
      /\ cred' = [cred EXCEPT ![a] = IF confirm[c].kind = "secret" THEN "connected" ELSE "deleted"]
      /\ rules' = Replaced(g, Target(c), a, confirm[c].rev)
      /\ outcome' = Recorded(a, "connected", Target(c))
      /\ confirm' = [confirm EXCEPT ![c].pc = "done"]
      /\ confirm[c].kind \in {"secret", "existing"}
      /\ confirm \in [Confirms -> ConfirmType]
  BY DEF SwapToConnected, ConfirmGoes, Inv, TypeOK
<1>1. /\ a \in Asks /\ row[a].state \in Open
      /\ \A d \in Confirms : confirm[d].pc \in Talking => confirm[d].ask # a
      /\ row' \in [Asks -> RowType]
      /\ row'[a].state = state /\ row'[a].agent = g
      /\ row'[a].rev = confirm[c].rev /\ row[a].flow # "edit" /\ row'[a].flow # "edit"
      /\ outcome[a].how \notin Ended
      /\ \A b \in Asks : b # a => row'[b] = row[b]
      /\ SessionsAsked' /\ IsFiniteSet(LiveSessions)'
  <2>1. state \in {"polling", "connected", "gone"}
    OBVIOUS
  <2> HIDE DEF state
  <2> QED
    BY <1>0, <2>1, WonSwap
<1>2. /\ confirm' \in [Confirms -> ConfirmType]
      /\ \A d \in Confirms : d # c => confirm'[d] = confirm[d]
      /\ confirm'[c].ask = confirm[c].ask /\ confirm'[c].agent = confirm[c].agent
      /\ confirm'[c].late = confirm[c].late /\ confirm'[c].rev = confirm[c].rev
      /\ confirm'[c].kind = confirm[c].kind /\ confirm'[c].pc = "done"
  BY <1>0 DEF ConfirmType
<1>3. /\ Target(c) \in {a, Existing} /\ Target(c) \in Creds
      /\ confirm[c].kind = "secret" => Target(c) = a
      /\ Existing \notin Asks
  BY <1>0, <1>1, NamesAssumption DEF Target, Creds
<1>4. /\ outcome' \in [Asks -> [how : {"none", "connected"} \cup Ended, cred : Creds]]
      /\ \A b \in Asks : b # a => outcome'[b] = outcome[b]
      /\ outcome'[a].how = "connected"
  BY <1>0, <1>1, <1>3 DEF Recorded, Inv, TypeOK
<1>5. /\ cred' \in [Creds -> {"none", "pending", "connected", "deleted"}]
      /\ \A b \in Asks : b # a => cred'[b] = cred[b]
  BY <1>0, <1>1 DEF Inv, TypeOK, Creds
<1>6. TypeOK'
  BY <1>0, <1>1, <1>2, <1>4, <1>5 DEF Inv, TypeOK
<1>7. AgentsPicked'
  BY <1>0, <1>2 DEF Inv, AgentsPicked
<1>8. GrantsIssued' /\ OneConversation'
  BY <1>0, <1>2 DEF Inv, GrantsIssued, OneConversation
<1>9. /\ \A r \in rules : r.cred # Target(c) => r \in rules'
      /\ \A r \in rules' : r \in rules \/ r.cred = Target(c)
      /\ g # NoAgent => [agent |-> g, cred |-> Target(c), ask |-> a, rev |-> confirm[c].rev] \in rules'
  BY <1>0 DEF Replaced
<1>10. TalkersOwn'
  <2> SUFFICES ASSUME NEW d \in Confirms, confirm'[d].pc \in Talking PROVE TalkerOwns(d)'
    BY DEF TalkersOwn
  <2>1. d # c /\ confirm'[d] = confirm[d]
    BY <1>2 DEF Talking
  <2>2. TalkerOwns(d) /\ confirm[d].ask \in Asks /\ confirm[d].ask # a
    BY <1>0, <1>1, <2>1 DEF Inv, TalkersOwn, ConfirmType
  <2>3. Approved(confirm[d].agent, confirm[d].ask, confirm[d].rev).cred # Target(c)
    BY <1>3, <2>2 DEF Approved
  <2> HIDE DEF a
  <2> QED
    BY <1>1, <1>9, <2>1, <2>2, <2>3 DEF TalkerOwns
<1>11. EndedGone'
  <2> SUFFICES ASSUME NEW b \in Asks, outcome'[b].how \in Ended
               PROVE  /\ row'[b].state \in {"gone", "over"} /\ cred'[b] = "deleted"
                      /\ \A r \in rules' : r.cred # b
    BY DEF EndedGone
  <2>1. b # a
    BY <1>4 DEF Ended
  <2>2. /\ row[b].state \in {"gone", "over"} /\ cred[b] = "deleted" /\ \A r \in rules : r.cred # b
    BY <1>4, <2>1 DEF Inv, EndedGone
  <2> HIDE DEF a
  <2> QED
    BY <1>1, <1>3, <1>5, <1>9, <2>1, <2>2
<1>12. ConnectedAsReviewed'
  <2> SUFFICES ASSUME NEW b \in Asks, row'[b].state = "connected", row'[b].agent # NoAgent
               PROVE  Approved(row'[b].agent, b, row'[b].rev) \in rules'
    BY DEF ConnectedAsReviewed, Approved
  <2>1. CASE b = a
    <3>1. confirm[c].kind = "secret"
      BY <1>1, <2>1
    <3> QED
      BY <1>1, <1>3, <1>9, <2>1, <3>1 DEF Approved
  <2>2. CASE b # a
    <3>1. Approved(row[b].agent, b, row[b].rev) \in rules /\ row'[b] = row[b]
      BY <1>1, <2>2 DEF Inv, ConnectedAsReviewed, Approved
    <3>2. Approved(row[b].agent, b, row[b].rev).cred # Target(c)
      BY <1>3, <2>2 DEF Approved
    <3> QED
      BY <1>9, <3>1, <3>2
  <2> QED
    BY <2>1, <2>2
<1>13. EditsMoved'
  <2>1. \A b \in Asks : b = a => EditOK(b)'
    BY <1>1 DEF EditOK
  <2>2. \A r \in rules' : r \in rules \/ r.cred \in {a, Existing}
    BY <1>3, <1>9
  <2> QED
    BY <1>1, <1>5, <2>1, <2>2, EditsKept
<1>14. SweepsKnow' /\ RulesKnown'
  <2>1. \A b \in Asks : row[b].flow = "edit" => row'[b].flow = "edit"
    BY <1>1
  <2>2. \A r \in rules' : r \in rules \/ r.ask = a
    BY <1>0 DEF Replaced
  <2>3. \A b \in Asks : outcome[b].how = "connected" => outcome'[b].how = "connected"
    BY <1>4
  <2> QED
    BY <1>0, <1>1, <1>4, <2>1, <2>2, <2>3, SweepsKept, RulesKept
<1> QED
  BY <1>1, <1>6, <1>7, <1>8, <1>10, <1>11, <1>12, <1>13, <1>14 DEF Inv

LEMMA LandReadInv == ASSUME Inv, NEW l \in Landings, NEW a \in Asks, LandRead(l, a) PROVE Inv'
<1>0. /\ UNCHANGED <<ask, row, cred, rules, outcome, bound, hold, confirm, sweep>>
      /\ landing' = [landing EXCEPT ![l] = [pc |-> "exchanged", ask |-> a]]
      /\ \E c \in Confirms : confirm[c].ask = a /\ confirm[c].pc = "issued"
  BY DEF LandRead, rowVars
<1>1. TypeOK'
  BY <1>0 DEF Inv, TypeOK, LandingType
<1>2. GrantsIssued'
  BY <1>0 DEF Inv, TypeOK, GrantsIssued
<1>3. SessionsAsked' /\ AgentsPicked' /\ TalkersOwn' /\ IsFiniteSet(LiveSessions)'
  BY <1>0 DEF Inv, SessionsAsked, AgentsPicked, TalkersOwn, TalkerOwns, LiveSessions
<1>4. OneConversation' /\ EndedGone' /\ ConnectedAsReviewed'
  BY <1>0 DEF Inv, OneConversation, EndedGone, ConnectedAsReviewed
<1>5. EditsMoved' /\ SweepsKnow' /\ RulesKnown'
  BY <1>0 DEF Inv, EditsMoved, EditOK, SweepsKnow, RulesKnown
<1> QED
  BY <1>1, <1>2, <1>3, <1>4, <1>5 DEF Inv

\* A landing that writes no session.
LEMMA LandingMoves ==
    ASSUME Inv, NEW l \in Landings, UNCHANGED <<ask, row, cred, rules, outcome, confirm, sweep>>,
           NEW pc \in {"idle", "bind"}, landing' = [landing EXCEPT ![l].pc = pc]
    PROVE  Inv'
<1>1. /\ landing' \in [Landings -> LandingType]
      /\ \A m \in Landings : landing'[m].pc = "exchanged" => landing'[m] = landing[m]
  BY DEF Inv, TypeOK, LandingType
<1>2. TypeOK' /\ GrantsIssued'
  BY <1>1 DEF Inv, TypeOK, GrantsIssued
<1>3. SessionsAsked' /\ AgentsPicked' /\ TalkersOwn' /\ IsFiniteSet(LiveSessions)'
  BY DEF Inv, SessionsAsked, AgentsPicked, TalkersOwn, TalkerOwns, LiveSessions
<1>4. OneConversation' /\ EndedGone' /\ ConnectedAsReviewed'
  BY DEF Inv, OneConversation, EndedGone, ConnectedAsReviewed
<1>5. EditsMoved' /\ SweepsKnow' /\ RulesKnown'
  BY DEF Inv, EditsMoved, EditOK, SweepsKnow, RulesKnown
<1> QED
  BY <1>2, <1>3, <1>4, <1>5 DEF Inv

\* A grant connects the session only while it is live, and then the confirm that issued
\* the consent has written the rules.
LEMMA LandWriteInv == ASSUME Inv, NEW l \in Landings, LandWrite(l) PROVE Inv'
<1> DEFINE a == landing[l].ask
<1>0. /\ UNCHANGED <<ask, rules, bound, hold, confirm, sweep>>
      /\ landing[l].pc = "exchanged" /\ landing' = [landing EXCEPT ![l].pc = "idle"]
      /\ a \in Asks /\ row \in [Asks -> RowType] /\ row[a].flow # "edit"
  BY DEF LandWrite, IsEdit, Inv, TypeOK, LandingType
<1>1. /\ landing' \in [Landings -> LandingType]
      /\ \A m \in Landings : landing'[m].pc = "exchanged" => landing'[m] = landing[m]
  BY <1>0 DEF Inv, TypeOK, LandingType
<1>2. GrantsIssued' /\ AgentsPicked' /\ OneConversation'
  BY <1>0, <1>1 DEF Inv, GrantsIssued, AgentsPicked, OneConversation
<1>3. CASE ~StillLive(a)
  <2>1. UNCHANGED <<row, cred, outcome>>
    BY <1>3 DEF LandWrite
  <2> QED
    BY <1>0, <2>1, LandingMoves
<1>4. CASE StillLive(a)
  <2>1. /\ row' = [row EXCEPT ![a].state = "connected"]
        /\ cred' = [cred EXCEPT ![a] = "connected"]
        /\ outcome' = Recorded(a, "connected", a)
    BY <1>4 DEF LandWrite
  <2>2. /\ row' \in [Asks -> RowType] /\ row'[a].state = "connected"
        /\ row'[a].agent = row[a].agent /\ row'[a].rev = row[a].rev /\ row'[a].flow = row[a].flow
        /\ \A b \in Asks : b # a => row'[b] = row[b]
    BY <1>0, <2>1 DEF RowType
  <2>3. /\ outcome' \in [Asks -> [how : {"none", "connected"} \cup Ended, cred : Creds]]
        /\ \A b \in Asks : b # a => outcome'[b] = outcome[b]
        /\ outcome[a].how \notin Ended => outcome'[a].how \notin Ended
        /\ \A b \in Asks : outcome[b].how = "connected" => outcome'[b].how = "connected"
    BY <1>0, <2>1 DEF Recorded, Inv, TypeOK, Ended, Creds
  <2>4. /\ cred' \in [Creds -> {"none", "pending", "connected", "deleted"}]
        /\ \A b \in Asks : b # a => cred'[b] = cred[b]
    BY <1>0, <2>1 DEF Inv, TypeOK, Creds
  <2>5. TypeOK'
    BY <1>0, <1>1, <2>2, <2>3, <2>4 DEF Inv, TypeOK
  <2>6. row[a].state \in Live
    BY <1>4 DEF StillLive, IsLive
  <2>7. PICK c \in Confirms : confirm[c].ask = a /\ confirm[c].pc = "issued"
    BY <1>0 DEF Inv, GrantsIssued
  <2>8. TalkerOwns(c)
    BY <2>7 DEF Inv, TalkersOwn, Talking
  <2>9. row[a].state = "polling" /\ confirm[c].kind # "widen"
    <3>1. EditOK(a)
      BY <1>0 DEF Inv, EditsMoved
    <3>2. row[a].state = "polling"
      BY <1>0, <2>6, <2>7, <2>8, <3>1 DEF TalkerOwns, EditOK, Live
    <3> QED
      BY <1>0, <2>7, <2>8, <3>2 DEF TalkerOwns
  <2> HIDE DEF a
  <2>10. SessionsAsked'
    BY <1>0, <2>2, <2>9 DEF Inv, SessionsAsked, Open
  <2>11. TalkersOwn'
    <3> SUFFICES ASSUME NEW d \in Confirms, confirm[d].pc \in Talking PROVE TalkerOwns(d)'
      BY <1>0 DEF TalkersOwn
    <3>1. TalkerOwns(d) /\ confirm[d].ask \in Asks
      BY DEF Inv, TalkersOwn, TypeOK, ConfirmType
    <3>2. CASE confirm[d].ask = a
      BY <1>0, <2>2, <2>9, <3>1, <3>2 DEF TalkerOwns
    <3>3. CASE confirm[d].ask # a
      BY <1>0, <2>2, <3>1, <3>3 DEF TalkerOwns
    <3> QED
      BY <3>2, <3>3
  <2>12. IsFiniteSet(LiveSessions)'
    <3>1. \A b \in Asks : row'[b].state \in Live => row[b].state \in Live
      BY <2>2, <2>6
    <3> QED
      BY <3>1, FewerLive DEF Inv
  <2>13. EndedGone'
    BY <1>0, <2>2, <2>3, <2>4, <2>9 DEF Inv, EndedGone
  <2>14. ConnectedAsReviewed'
    <3> SUFFICES ASSUME NEW b \in Asks, row'[b].state = "connected", row'[b].agent # NoAgent
                 PROVE  Approved(row'[b].agent, b, row'[b].rev) \in rules
      BY <1>0 DEF ConnectedAsReviewed, Approved
    <3>1. CASE b = a
      BY <2>2, <2>7, <2>8, <2>9, <3>1 DEF TalkerOwns
    <3>2. CASE b # a
      BY <2>2, <3>2 DEF Inv, ConnectedAsReviewed, Approved
    <3> QED
      BY <3>1, <3>2
  <2>15. EditsMoved'
    <3>1. \A b \in Asks : b = a => EditOK(b)'
      BY <1>0, <2>2 DEF EditOK
    <3> QED
      BY <1>0, <2>2, <2>4, <3>1, EditsKept
  <2>16. SweepsKnow' /\ RulesKnown'
    BY <1>0, <2>2, <2>3, SweepsKept, RulesKept
  <2> QED
    BY <1>2, <2>5, <2>10, <2>11, <2>12, <2>13, <2>14, <2>15, <2>16 DEF Inv
<1> QED
  BY <1>3, <1>4

\* The grant of a widening: the session connects the existing credential, or is reopened.
LEMMA LandEditInv ==
    ASSUME Inv, NEW l \in Landings, NEW moved \in BOOLEAN, LandEdit(l, moved) PROVE Inv'
<1>1. PICK a \in Asks : a = landing[l].ask
  BY DEF Inv, TypeOK, LandingType
<1>0. /\ UNCHANGED <<ask, cred, bound, hold, confirm, sweep>>
      /\ landing[l].pc = "exchanged" /\ row[a].flow = "edit"
      /\ row \in [Asks -> RowType] /\ EditOK(a)
  BY <1>1 DEF LandEdit, IsEdit, Inv, TypeOK, EditsMoved
<1>2. CASE row[a].state # "polling"
  <2>1. UNCHANGED <<row, rules, outcome>> /\ landing' = [landing EXCEPT ![l].pc = "idle"]
    BY <1>1, <1>2 DEF LandEdit
  <2> QED
    BY <1>0, <2>1, LandingMoves
<1>3. CASE row[a].state = "polling"
  <2>0. /\ landing' = [landing EXCEPT ![l].pc = "bind"]
        /\ outcome[a].how \notin Ended
    BY <1>1, <1>3 DEF LandEdit, Inv, EndedGone
  <2>1. PICK state \in {"reopened", "gone"} :
          /\ row' = [row EXCEPT ![a].state = state]
          /\ \/ UNCHANGED <<rules, outcome>>
             \/ /\ rules' = Replaced(row[a].agent, Existing, a, row[a].rev)
                /\ outcome' = Recorded(a, "connected", Existing)
    BY <1>1, <1>3 DEF LandEdit
  <2>2. /\ landing' \in [Landings -> LandingType]
        /\ \A m \in Landings : landing'[m].pc = "exchanged" => landing'[m] = landing[m]
    BY <2>0 DEF Inv, TypeOK, LandingType
  <2>3. /\ row' \in [Asks -> RowType] /\ row'[a].state = state /\ row'[a].flow = "edit"
        /\ row'[a].agent = row[a].agent /\ row'[a].rev = row[a].rev
        /\ \A b \in Asks : b # a => row'[b] = row[b]
    BY <1>0, <2>1 DEF RowType
  <2>4. /\ outcome' \in [Asks -> [how : {"none", "connected"} \cup Ended, cred : Creds]]
        /\ \A b \in Asks : outcome'[b].how \in Ended => outcome'[b] = outcome[b]
        /\ \A b \in Asks : outcome[b].how = "connected" => outcome'[b].how = "connected"
        /\ outcome' # outcome \/ rules' # rules => outcome'[a].how = "connected"
    BY <2>0, <2>1, SMTT(30) DEF Recorded, Inv, TypeOK, Ended, Creds
  <2>5. /\ \A r \in rules : r.cred # Existing => r \in rules'
        /\ \A r \in rules' : r \in rules \/ (r.cred = Existing /\ r.ask = a /\ rules' # rules)
    BY <2>1 DEF Replaced
  <2>6. \A b \in Asks : b # Existing
    BY NamesAssumption
  <2>7. TypeOK' /\ GrantsIssued' /\ AgentsPicked' /\ OneConversation'
    BY <1>0, <2>2, <2>3, <2>4 DEF Inv, TypeOK, GrantsIssued, AgentsPicked, OneConversation
  <2>8. SessionsAsked'
    BY <1>0, <1>3, <2>3 DEF Inv, SessionsAsked, Open
  <2>9. TalkersOwn'
    <3> SUFFICES ASSUME NEW d \in Confirms, confirm[d].pc \in Talking PROVE TalkerOwns(d)'
      BY <1>0 DEF TalkersOwn
    <3>1. TalkerOwns(d) /\ confirm[d].ask \in Asks
      BY DEF Inv, TalkersOwn, TypeOK, ConfirmType
    <3>2. CASE confirm[d].ask = a
      BY <1>0, <1>3, <2>3, <3>1, <3>2 DEF TalkerOwns
    <3>3. CASE confirm[d].ask # a
      <4>1. Approved(confirm[d].agent, confirm[d].ask, confirm[d].rev).cred # Existing
        BY <2>6, <3>1 DEF Approved
      <4> QED
        BY <1>0, <2>3, <2>5, <3>1, <3>3, <4>1 DEF TalkerOwns
    <3> QED
      BY <3>2, <3>3
  <2>10. IsFiniteSet(LiveSessions)'
    <3>1. \A b \in Asks : row'[b].state \in Live => row[b].state \in Live
      BY <1>3, <2>3 DEF Live
    <3> QED
      BY <3>1, FewerLive DEF Inv
  <2>11. EndedGone'
    <3> SUFFICES ASSUME NEW b \in Asks, outcome'[b].how \in Ended
                 PROVE  /\ row'[b].state \in {"gone", "over"} /\ cred'[b] = "deleted"
                        /\ \A r \in rules' : r.cred # b
      BY DEF EndedGone
    <3>1. outcome[b].how \in Ended /\ b # a
      BY <2>0, <2>4
    <3>2. row[b].state \in {"gone", "over"} /\ cred[b] = "deleted" /\ \A r \in rules : r.cred # b
      BY <3>1 DEF Inv, EndedGone
    <3> QED
      BY <1>0, <2>3, <2>5, <2>6, <3>1, <3>2
  <2>12. ConnectedAsReviewed'
    <3> SUFFICES ASSUME NEW b \in Asks, row'[b].state = "connected", row'[b].agent # NoAgent
                 PROVE  Approved(row'[b].agent, b, row'[b].rev) \in rules'
      BY DEF ConnectedAsReviewed, Approved
    <3>1. row'[b] = row[b]
      BY <2>3
    <3>2. /\ Approved(row[b].agent, b, row[b].rev) \in rules
          /\ Approved(row[b].agent, b, row[b].rev).cred # Existing
      BY <2>6, <3>1 DEF Inv, ConnectedAsReviewed, Approved
    <3> QED
      BY <2>5, <3>1, <3>2
  <2>13. EditsMoved'
    <3>1. \A b \in Asks : b = a => EditOK(b)'
      BY <1>0, <2>3, <2>5, <2>6 DEF EditOK
    <3>2. \A r \in rules' : r \in rules \/ r.cred \in {a, Existing}
      BY <2>5
    <3> QED
      BY <1>0, <2>3, <3>1, <3>2, EditsKept
  <2>14. SweepsKnow' /\ RulesKnown'
    <3>1. \A b \in Asks : row[b].flow = "edit" => row'[b].flow = "edit"
      BY <2>3
    <3> QED
      BY <1>0, <2>4, <2>5, <3>1, SweepsKept, RulesKept
  <2> QED
    BY <2>7, <2>8, <2>9, <2>10, <2>11, <2>12, <2>13, <2>14 DEF Inv
<1> QED
  BY <1>2, <1>3

LEMMA LandBindInv == ASSUME Inv, NEW l \in Landings, LandBind(l) PROVE Inv'
BY LandingMoves DEF LandBind, rowVars

\* A session that ends takes its credential and the rules on it along.
LEMMA SweepEndInv == ASSUME Inv, NEW s \in Sweeps, SweepEnd(s) PROVE Inv'
<1> DEFINE a == sweep[s].ask
<1>0. /\ UNCHANGED <<ask, bound, confirm, landing>>
      /\ a \in Asks /\ row \in [Asks -> RowType] /\ sweep[s].how \in Ended
      /\ sweep \in [Sweeps -> SweepType] /\ sweep[s] \in SweepType
  BY DEF SweepEnd, Inv, TypeOK, SweepType
<1>1. /\ sweep' \in [Sweeps -> SweepType]
      /\ \A t \in Sweeps : sweep'[t].pc = "end" => sweep'[t] = sweep[t]
  <2>1. PICK x \in SweepType : x.pc \in {"idle", "unbind"} /\ sweep' = [sweep EXCEPT ![s] = x]
    <3>1. /\ [sweep[s] EXCEPT !.pc = "unbind"] \in SweepType
          /\ [sweep[s] EXCEPT !.pc = "unbind"].pc = "unbind"
      BY <1>0 DEF SweepType
    <3> QED
      BY <1>0, <3>1, IdleSweep DEF SweepEnd
  <2> QED
    BY <1>0, <2>1
<1>2. CASE ~StillLive(a)
  <2>1. UNCHANGED <<row, cred, rules, outcome>>
    BY <1>2 DEF SweepEnd, rowVars
  <2>2. TypeOK'
    BY <1>0, <1>1, <2>1 DEF Inv, TypeOK
  <2>3. SweepsKnow'
    BY <1>1, <2>1 DEF Inv, SweepsKnow
  <2> QED
    BY <1>0, <2>1, <2>2, <2>3, FrameInv
<1>3. CASE StillLive(a)
  <2>0. PICK state \in {"gone", "over"} :
          row' = [row EXCEPT ![a].state = state] /\ (state = "over" => row[a].flow = "edit")
    BY <1>3 DEF SweepEnd, IsEdit
  <2>1. /\ row' = [row EXCEPT ![a].state = state]
        /\ cred' = [cred EXCEPT ![a] = "deleted"]
        /\ rules' = {r \in rules : r.cred # a}
        /\ outcome' = Recorded(a, sweep[s].how, a)
    BY <1>3, <2>0 DEF SweepEnd
  <2>2. /\ row' \in [Asks -> RowType] /\ row'[a].state = state /\ row'[a].flow = row[a].flow
        /\ \A b \in Asks : b # a => row'[b] = row[b]
    BY <1>0, <2>1 DEF RowType
  <2>3. /\ outcome' \in [Asks -> [how : {"none", "connected"} \cup Ended, cred : Creds]]
        /\ \A b \in Asks : b # a => outcome'[b] = outcome[b]
        /\ \A b \in Asks : outcome[b].how = "connected" => outcome'[b].how = "connected"
    BY <1>0, <2>1 DEF Recorded, Inv, TypeOK, Ended, Creds
  <2>4. /\ cred' \in [Creds -> {"none", "pending", "connected", "deleted"}]
        /\ cred'[a] = "deleted" /\ \A b \in Asks : b # a => cred'[b] = cred[b]
    BY <1>0, <2>1 DEF Inv, TypeOK, Creds
  <2>5. TypeOK'
    BY <1>0, <1>1, <2>2, <2>3, <2>4 DEF Inv, TypeOK
  <2>6. row[a].state \in Live
    BY <1>3 DEF StillLive, IsLive
  <2>7. GrantsIssued' /\ AgentsPicked' /\ OneConversation'
    BY <1>0 DEF Inv, GrantsIssued, AgentsPicked, OneConversation
  <2> HIDE DEF a
  <2>8. SessionsAsked'
    BY <1>0, <2>2, <2>6 DEF Inv, SessionsAsked, Open, Live
  <2>9. TalkersOwn'
    <3> SUFFICES ASSUME NEW d \in Confirms, confirm[d].pc \in Talking PROVE TalkerOwns(d)'
      BY <1>0 DEF TalkersOwn
    <3>1. TalkerOwns(d) /\ confirm[d].ask \in Asks
      BY DEF Inv, TalkersOwn, TypeOK, ConfirmType
    <3>2. CASE confirm[d].ask = a
      BY <1>0, <2>2, <3>2 DEF TalkerOwns
    <3>3. CASE confirm[d].ask # a
      <4>1. Approved(confirm[d].agent, confirm[d].ask, confirm[d].rev).cred # a
        BY <3>3 DEF Approved
      <4> QED
        BY <1>0, <2>1, <2>2, <3>1, <3>3, <4>1 DEF TalkerOwns
    <3> QED
      BY <3>2, <3>3
  <2>10. IsFiniteSet(LiveSessions)'
    <3>1. \A b \in Asks : row'[b].state \in Live => row[b].state \in Live
      BY <2>2, <2>6
    <3> QED
      BY <3>1, FewerLive DEF Inv
  <2>11. EndedGone'
    BY <2>1, <2>2, <2>3, <2>4 DEF Inv, EndedGone
  <2>12. ConnectedAsReviewed'
    <3> SUFFICES ASSUME NEW b \in Asks, row'[b].state = "connected", row'[b].agent # NoAgent
                 PROVE  Approved(row'[b].agent, b, row'[b].rev) \in rules'
      BY DEF ConnectedAsReviewed, Approved
    <3>1. b # a /\ row'[b] = row[b]
      BY <2>2
    <3>2. Approved(row[b].agent, b, row[b].rev) \in rules
      BY <3>1 DEF Inv, ConnectedAsReviewed, Approved
    <3>3. Approved(row[b].agent, b, row[b].rev).cred # a
      BY <3>1 DEF Approved
    <3> QED
      BY <2>1, <3>1, <3>2, <3>3
  <2>13. EditsMoved'
    <3>1. EditOK(a)
      BY <1>0 DEF Inv, EditsMoved
    <3>2. \A b \in Asks : b = a => EditOK(b)'
      BY <2>0, <2>1, <2>2, <2>4, <3>1 DEF EditOK
    <3> QED
      BY <1>0, <2>1, <2>2, <2>4, <3>2, EditsKept
  <2>14. SweepsKnow'
    <3>1. \A b \in Asks : row[b].flow = "edit" => row'[b].flow = "edit"
      BY <2>2
    <3>2. \A t \in Sweeps : sweep[t].ask \in Asks
      BY <1>0 DEF SweepType
    <3> QED
      BY <1>1, <3>1, <3>2 DEF Inv, SweepsKnow
  <2>15. RulesKnown'
    BY <2>1, <2>3, RulesKept
  <2> QED
    BY <2>5, <2>7, <2>8, <2>9, <2>10, <2>11, <2>12, <2>13, <2>14, <2>15 DEF Inv
<1> QED
  BY <1>2, <1>3

\* An edit that ends takes only the session along.
LEMMA SweepEndEditInv == ASSUME Inv, NEW s \in Sweeps, SweepEndEdit(s) PROVE Inv'
<1>1. PICK a \in Asks : a = sweep[s].ask
  BY DEF Inv, TypeOK, SweepType
<1>0. /\ UNCHANGED <<ask, cred, rules, bound, hold, confirm, landing>>
      /\ row \in [Asks -> RowType] /\ sweep \in [Sweeps -> SweepType] /\ sweep[s].how \in Ended
      /\ sweep' = [sweep EXCEPT ![s] = NoSweep]
      /\ row[a].flow = "edit"
  BY <1>1 DEF SweepEndEdit, Inv, TypeOK, SweepType, SweepsKnow
<1>2. /\ sweep' \in [Sweeps -> SweepType]
      /\ \A t \in Sweeps : sweep'[t].pc = "end" => sweep'[t] = sweep[t]
  BY <1>0, IdleSweep
<1>3. CASE ~StillLive(a)
  <2>1. UNCHANGED <<row, outcome>>
    BY <1>1, <1>3 DEF SweepEndEdit
  <2>2. TypeOK' /\ SweepsKnow'
    BY <1>0, <1>2, <2>1 DEF Inv, TypeOK, SweepsKnow
  <2> QED
    BY <1>0, <2>1, <2>2, FrameInv
<1>4. CASE StillLive(a)
  <2>1. row' = [row EXCEPT ![a].state = "gone"] /\ outcome' = Recorded(a, sweep[s].how, Existing)
    BY <1>1, <1>4 DEF SweepEndEdit
  <2>2. /\ row' \in [Asks -> RowType]
        /\ outcome' \in [Asks -> [how : {"none", "connected"} \cup Ended, cred : Creds]]
    BY <1>0, <2>1, SMTT(30) DEF RowType, Recorded, Inv, TypeOK, Creds
  <2>3. TypeOK'
    BY <1>0, <1>2, <2>2 DEF Inv, TypeOK
  <2>4. row[a].state \in Live
    BY <1>4 DEF StillLive, IsLive
  <2>5. /\ SessionsAsked' /\ IsFiniteSet(LiveSessions)' /\ EndedGone' /\ ConnectedAsReviewed'
        /\ EditsMoved' /\ RulesKnown'
        /\ \A b \in Asks : row[b].flow = "edit" => row'[b].flow = "edit"
        /\ \A d \in Confirms : confirm'[d] = confirm[d] /\ TalkerOwns(d) => TalkerOwns(d)'
    BY <1>0, <2>1, <2>3, <2>4, EditEnds
  <2>6. AgentsPicked' /\ GrantsIssued' /\ OneConversation'
    BY <1>0 DEF Inv, AgentsPicked, GrantsIssued, OneConversation
  <2>7. TalkersOwn'
    BY <1>0, <2>5 DEF Inv, TalkersOwn
  <2>8. SweepsKnow'
    <3>1. \A t \in Sweeps : sweep[t].ask \in Asks
      BY <1>0 DEF SweepType
    <3> QED
      BY <1>2, <2>5, <3>1 DEF Inv, SweepsKnow
  <2> QED
    BY <2>3, <2>5, <2>6, <2>7, <2>8 DEF Inv
<1> QED
  BY <1>3, <1>4

\* The sweep's other steps, and a cooldown that ends.
LEMMA SweepStepInv ==
    ASSUME Inv,
           \/ \E s \in Sweeps, a \in Asks, how \in Ended : SweepRead(s, a, how)
           \/ \E s \in Sweeps : SweepUnbind(s)
           \/ \E g \in Agents : CooldownEnds(g)
    PROVE  Inv'
<1>1. UNCHANGED <<ask, row, cred, rules, outcome, confirm, landing>>
  BY DEF SweepRead, SweepUnbind, CooldownEnds, rowVars
<1>2. sweep' \in [Sweeps -> SweepType] /\ SweepsKnow'
  <2>0. sweep \in [Sweeps -> SweepType]
    BY DEF Inv, TypeOK
  <2>1. ASSUME NEW s \in Sweeps, NEW x \in SweepType, sweep' = [sweep EXCEPT ![s] = x],
               x.pc = "end" /\ x.edit => row[x.ask].flow = "edit"
        PROVE  sweep' \in [Sweeps -> SweepType] /\ SweepsKnow'
    BY <1>1, <2>0, <2>1 DEF Inv, SweepsKnow
  <2>2. ASSUME NEW s \in Sweeps, NEW a \in Asks, NEW how \in Ended, SweepRead(s, a, how)
        PROVE  sweep' \in [Sweeps -> SweepType] /\ SweepsKnow'
    <3> DEFINE x == [pc |-> "end", ask |-> a, agent |-> row[a].agent, how |-> how, edit |-> IsEdit(a)]
    <3>1. row[a].agent \in Named
      BY DEF Inv, TypeOK, RowType
    <3>2. x \in SweepType /\ (x.pc = "end" /\ x.edit => row[x.ask].flow = "edit")
      BY <3>1 DEF SweepType, IsEdit
    <3>3. sweep' = [sweep EXCEPT ![s] = x]
      BY <2>2 DEF SweepRead
    <3> HIDE DEF x
    <3> QED
      BY <2>1, <3>2, <3>3
  <2>3. ASSUME NEW s \in Sweeps, SweepUnbind(s)
        PROVE  sweep' \in [Sweeps -> SweepType] /\ SweepsKnow'
    BY <2>1, <2>3, IdleSweep DEF SweepUnbind
  <2>4. ASSUME NEW g \in Agents, CooldownEnds(g)
        PROVE  sweep' \in [Sweeps -> SweepType] /\ SweepsKnow'
    BY <1>1, <2>0, <2>4 DEF CooldownEnds, Inv, SweepsKnow
  <2> QED
    BY <2>2, <2>3, <2>4
<1>3. TypeOK'
  BY <1>1, <1>2 DEF Inv, TypeOK
<1> QED
  BY <1>1, <1>2, <1>3, FrameInv

LEMMA StutterInv == ASSUME Inv, UNCHANGED vars PROVE Inv'
<1>1. UNCHANGED <<ask, row, cred, rules, outcome, bound, hold, confirm, sweep, landing>>
  BY DEF vars, rowVars
<1>2. TypeOK' /\ SweepsKnow'
  BY <1>1 DEF Inv, TypeOK, SweepsKnow
<1> QED
  BY <1>1, <1>2, FrameInv

LEMMA NextInv == ASSUME Inv, [Next]_vars PROVE Inv'
<1>1. ASSUME NEW a \in Asks, Opening(a) PROVE Inv'
  BY <1>1, AskStepInv, OpenSessionInv, OpenEditInv DEF Opening
<1>2. ASSUME NEW c \in Confirms, Confirming(c) PROVE Inv'
  <2>1. ASSUME NEW a \in Asks, NEW g \in Agents \cup {NoAgent}, NEW kind \in Kinds(a),
               ConfirmRead(c, a, kind, g)
        PROVE  Inv'
    BY <2>1, ConfirmReadInv
  <2>2. CASE SwapToPolling(c)
    <3>1. confirm[c].pc = "swap"
      BY <2>2 DEF SwapToPolling
    <3> QED
      BY <2>2, <3>1, SwapToPollingInv, SwapLostInv
  <2>3. CASE SwapToConnected(c)
    <3>1. confirm[c].pc = "swap"
      BY <2>3 DEF SwapToConnected
    <3> QED
      BY <2>3, <3>1, SwapToConnectedInv, SwapLostInv
  <2>4. CASE SwapToEdit(c)
    <3>1. confirm[c].pc = "swap"
      BY <2>4 DEF SwapToEdit
    <3> QED
      BY <2>4, <3>1, SwapToEditInv, SwapLostInv
  <2> QED
    BY <1>2, <2>1, <2>2, <2>3, <2>4, ConfirmStepInv, BeginFailsInv, WideningFailsInv, WriteRulesInv
    DEF Confirming
<1>3. ASSUME NEW l \in Landings, Landing(l) PROVE Inv'
  BY <1>3, LandWriteInv, LandReadInv, LandEditInv, LandBindInv DEF Landing
<1>4. ASSUME NEW s \in Sweeps, Expiring(s) \/ \E a \in Asks : SweepRead(s, a, "rejected") PROVE Inv'
  BY <1>4, SweepEndInv, SweepEndEditInv, SweepStepInv DEF Expiring, Ended
<1>5. ASSUME NEW g \in Agents, CooldownEnds(g) PROVE Inv'
  BY <1>5, SweepStepInv
<1>6. CASE UNCHANGED vars
  BY <1>6, StutterInv
<1> QED
  BY <1>1, <1>2, <1>3, <1>4, <1>5, <1>6 DEF Next

-----------------------------------------------------------------------------
(* Opening a session. *)

\* Every step but the creating transaction leaves a session that does not exist alone.
LEMMA OnlyOpenSessionOpens ==
    ASSUME Inv, [Next]_vars, NEW a \in Asks, row[a].state = "none", row'[a].state \in Live
    PROVE  OpenSession(a)
<1> USE DEF Live, Open
<1>0. row \in [Asks -> RowType] /\ row'[a] # row[a]
  BY DEF Inv, TypeOK
<1>1. ASSUME NEW b \in Asks, Opening(b) PROVE OpenSession(a)
  <2>1. CASE AskCooldown(b) \/ AskOpen(b)
    BY <1>0, <2>1 DEF AskCooldown, AskOpen, rowVars
  <2>2. CASE Amend(b) \/ LeaveAwaitingApp(b)
    <3>1. b # a /\ row'[a] = row[a]
      BY <1>0, <2>2 DEF Amend, LeaveAwaitingApp
    <3> QED
      BY <1>0, <3>1
  <2>3. CASE OpenSession(b)
    <3>1. b # a => row'[a] = row[a]
      BY <1>0, <2>3 DEF OpenSession
    <3> QED
      BY <1>0, <2>3, <3>1
  <2> QED
    BY <1>1, <2>1, <2>2, <2>3 DEF Opening
<1>2. ASSUME NEW c \in Confirms, Confirming(c) PROVE OpenSession(a)
  <2>1. CASE row' = row
    BY <1>0, <2>1
  <2>2. CASE BeginFails(c)
    <3>1. confirm[c].ask = a => row' = row
      BY <2>2, SMTT(30) DEF BeginFails
    <3>2. confirm[c].ask # a => row'[a] = row[a]
      BY <1>0, <2>2 DEF BeginFails
    <3> QED
      BY <1>0, <3>1, <3>2
  <2>3. CASE (SwapToPolling(c) \/ SwapToEdit(c) \/ SwapToConnected(c)) /\ Wins(c)
    <3>1. confirm[c].ask # a
      BY <2>3, SMTT(30) DEF Wins, Inv, TypeOK, ConfirmType
    <3>2. row'[a] = row[a]
      BY <1>0, <2>3, <3>1 DEF SwapToPolling, SwapToEdit, SwapToConnected, Moved
    <3> QED
      BY <1>0, <3>2
  <2>4. CASE WideningFails(c)
    BY <1>0, <2>4 DEF WideningFails, IsLive
  <2> QED
    BY <1>2, <2>1, <2>2, <2>3, <2>4
    DEF Confirming, ConfirmRead, BindFirst, AgentUsable, AgentUnusable, SwapToPolling, SwapToEdit,
        BeginSucceeds, WriteRules, BindLast, SwapToConnected, SwapRaises, Recheck, Compensate,
        ConfirmDies, rowVars
<1>3. ASSUME NEW l \in Landings, Landing(l) PROVE OpenSession(a)
  BY <1>0, <1>3 DEF Landing, LandWrite, LandRead, LandEdit, LandBind, StillLive, IsLive, rowVars
<1>4. ASSUME NEW s \in Sweeps, Expiring(s) \/ \E b \in Asks : SweepRead(s, b, "rejected")
      PROVE  OpenSession(a)
  BY <1>0, <1>4 DEF Expiring, SweepRead, SweepEnd, SweepEndEdit, SweepUnbind, StillLive, IsLive, rowVars
<1>5. ASSUME NEW g \in Agents, CooldownEnds(g) PROVE OpenSession(a)
  BY <1>0, <1>5 DEF CooldownEnds, rowVars
<1>6. CASE UNCHANGED vars
  BY <1>0, <1>6 DEF vars, rowVars
<1> QED
  BY <1>1, <1>2, <1>3, <1>4, <1>5, <1>6 DEF Next

\* One more session, counted in the transaction that adds it.
LEMMA CountedIn ==
    ASSUME NEW S, IsFiniteSet(S), NEW x, NEW max \in Nat, Cardinality(S) < max
    PROVE  Cardinality(S \cup {x}) <= max
BY FS_AddElement, FS_CardinalityType

LEMMA OpeningIsCapped ==
    ASSUME Inv, [Next]_vars, NEW a \in Asks, row[a].state = "none", row'[a].state \in Live
    PROVE  /\ Cardinality({b \in Asks : row'[b].state \in Live}) <= MaxPerOwner
           /\ ask[a].agent # NoAgent =>
                Cardinality({b \in Asks : row'[b].state \in Live /\ row'[b].agent = ask[a].agent})
                    <= MaxPerAgent
<1>1. OpenSession(a)
  BY OnlyOpenSessionOpens
<1>2. MayOpen(a)
  BY <1>1 DEF OpenSession, Live
<1>3. /\ row'[a].agent = ask[a].agent /\ \A b \in Asks : b # a => row'[b] = row[b]
  BY <1>1, <1>2 DEF OpenSession, Inv, TypeOK
<1>4. {b \in Asks : row'[b].state \in Live} = LiveSessions \cup {a}
  BY <1>3 DEF LiveSessions
<1>5. Cardinality(LiveSessions) < MaxPerOwner
  <2>1. LiveSessions = {b \in Asks : IsLive(b)}
    BY DEF LiveSessions, IsLive
  <2> QED
    BY <1>2, <2>1 DEF MayOpen, RoomFor
<1>6. Cardinality({b \in Asks : row'[b].state \in Live}) <= MaxPerOwner
  BY <1>4, <1>5, CountedIn, CapsAssumption DEF Inv
<1>7. ASSUME ask[a].agent # NoAgent
      PROVE  Cardinality({b \in Asks : row'[b].state \in Live /\ row'[b].agent = ask[a].agent})
                <= MaxPerAgent
  <2> DEFINE mine == LiveOf(ask[a].agent)
  <2>1. {b \in Asks : row'[b].state \in Live /\ row'[b].agent = ask[a].agent} = mine \cup {a}
    BY <1>3 DEF LiveOf, IsLive
  <2>2. mine \subseteq LiveSessions
    BY DEF LiveOf, IsLive, LiveSessions
  <2>3. Cardinality(mine) < MaxPerAgent
    BY <1>2, <1>7 DEF MayOpen, RoomFor
  <2> HIDE DEF mine
  <2>4. IsFiniteSet(mine)
    BY <2>2, FS_Subset DEF Inv
  <2> QED
    BY <2>1, <2>3, <2>4, CountedIn, CapsAssumption
<1> QED
  BY <1>6, <1>7

-----------------------------------------------------------------------------
(* The results. *)

\* The invariant holds in every reachable state.
THEOREM ConnectInvariant == Spec => []Inv
BY InitInv, NextInv, PTL DEF Spec

\* A session that was cancelled, rejected or expired keeps neither its credential nor a
\* rule, on it or on a credential it was widening, whichever confirm or grant was under
\* way when it ended (_mark_terminal, _write_finalise, _finalise_edit).
THEOREM EndedSessionsKeepNothing == Spec => []EndedKeepsNothing
<1>1. Inv => EndedKeepsNothing
  BY DEF Inv, EndedGone, RulesKnown, EndedKeepsNothing, Ended
<1> QED
  BY <1>1, ConnectInvariant, PTL

\* A connected session's agent has on its credential the rules of the revision that was
\* reviewed, and of no earlier one (transition_state on the revision).
THEOREM ReviewedIsConnected == Spec => []ConnectedAsReviewed
<1>1. Inv => ConnectedAsReviewed
  BY DEF Inv
<1> QED
  BY <1>1, ConnectInvariant, PTL

\* Of any number of confirms of one session at most one talks to the vendor.
THEOREM OneVendorConversation == Spec => []OneConversation
<1>1. Inv => OneConversation
  BY DEF Inv
<1> QED
  BY <1>1, ConnectInvariant, PTL

\* No step opens a session beyond the cap of its agent or of its owner, however many
\* asks passed the early count (_enforce_open_session_caps).
THEOREM CapsHold == Spec => CapsHoldAtOpening
<1>1. ASSUME Inv, [Next]_vars
      PROVE  [\A a \in Asks : row[a].state = "none" /\ row'[a].state \in Live =>
                /\ Cardinality({b \in Asks : row'[b].state \in Live}) <= MaxPerOwner
                /\ ask[a].agent # NoAgent =>
                     Cardinality({b \in Asks : row'[b].state \in Live /\ row'[b].agent = ask[a].agent})
                        <= MaxPerAgent]_vars
  BY <1>1, OpeningIsCapped
<1> QED
  BY <1>1, ConnectInvariant, PTL DEF Spec, CapsHoldAtOpening

=============================================================================
