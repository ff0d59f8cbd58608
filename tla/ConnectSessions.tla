--------------------------- MODULE ConnectSessions ---------------------------
(***************************************************************************)
(* Connect sessions (control/services/integrations/                        *)
(* connect_session_service.py and control/repos/connect_session_repo.py):  *)
(* an agent or its owner asks to connect an API; a human reviews and       *)
(* confirms a revision of the ask, with an OAuth consent, an entered       *)
(* secret, an own OAuth client or a credential already held, as it is or   *)
(* widened by a consent for the scopes it lacks; the session ends          *)
(* connected, or is cancelled, rejected or expired and takes its pending   *)
(* credential with it.                                                     *)
(*                                                                         *)
(* Sessions, credentials and rules are in the control database, bindings   *)
(* in the admin database: an operation is a sequence of transactions, each *)
(* an action here.  All asks are for one API and belong to one owner.      *)
(***************************************************************************)
EXTENDS FiniteSets, Naturals

CONSTANTS
    Asks,                        \* requests to open a session; a session has its ask's name
    Agents, NoAgent,
    Existing,                    \* a credential for the API that the approver already holds
    Confirms, Sweeps, Landings,  \* confirm calls; calls that end a session; arriving grants
    Mixes,                       \* what runs together: [asks, confirms, sweeps, landings]
    Faulty,                      \* bound: confirms whose process or database may fail
    MaxRev,                      \* _MAX_SESSION_REVISIONS
    MaxPerAgent, MaxPerOwner     \* max_open_sessions_per_agent, _per_owner

Creds == Asks \cup {Existing}

ASSUME NamesAssumption == NoAgent \notin Agents /\ Existing \notin Asks
ASSUME CapsAssumption  == MaxPerAgent \in Nat /\ MaxPerOwner \in Nat /\ MaxRev \in Nat

VARIABLES
    ask,      \* each ask: whom it names, whether that agent asks itself, its flow, progress
    row,      \* the connect_sessions row
    cred,     \* state of each credential
    rules,    \* agent_permission_rules: who, on which credential, approved for which revision
    bound,    \* agent_credential_bindings, in the admin database
    outcome,  \* connect_session_outcomes: how a session ended, on which credential
    hold,     \* agents whose ask was rejected within the cooldown
    confirm, sweep, landing

rowVars  == <<row, cred, rules, outcome>>
vars     == <<ask, rowVars, bound, hold, confirm, sweep, landing>>

\* A session that widens a credential is an edit from then on; a landing may reopen it
\* for BindingEdits' review, which is not followed here.
Live     == {"created", "awaiting_app", "polling", "reopened"}
Open     == {"created", "awaiting_app"}
Flows    == {"secret", "oauth", "awaiting_app"}
Ended    == {"rejected", "ended"}
Profiles == [pc : {"new", "absent"}, agent : Agents \cup {NoAgent}, own : BOOLEAN, flow : Flows]
NoRow    == [state |-> "none", rev |-> 0, agent |-> NoAgent, flow |-> "oauth"]
NoSweep  == [pc |-> "idle", ask |-> CHOOSE a \in Asks : TRUE, agent |-> NoAgent, how |-> "ended",
             edit |-> FALSE]

ASSUME MixesAssumption == Asks # {} /\ \A mix \in Mixes : mix.asks \in [Asks -> Profiles]

Init ==
    \E mix \in Mixes :
      /\ ask = mix.asks
      /\ row = [a \in Asks |-> NoRow]
      /\ cred = [c \in Creds |-> IF c = Existing THEN "connected" ELSE "none"]
      /\ rules = {} /\ bound = {} /\ hold = {}
      /\ outcome = [a \in Asks |-> [how |-> "none", cred |-> a]]
      /\ confirm = [c \in Confirms |->
           [pc |-> IF c \in mix.confirms THEN "new" ELSE "absent", ask |-> CHOOSE a \in Asks : TRUE,
            kind |-> "oauth", agent |-> NoAgent, late |-> FALSE, rev |-> 0, from |-> "created", new |-> FALSE]]
      /\ sweep = [s \in Sweeps |->
           [NoSweep EXCEPT !.pc = IF s \in mix.sweeps THEN "idle" ELSE "absent"]]
      /\ landing = [l \in Landings |->
           [pc |-> IF l \in mix.landings THEN "idle" ELSE "absent", ask |-> CHOOSE a \in Asks : TRUE]]

\* ConnectSessionOutcomeRepository.record: the first record of a session stays.
Recorded(a, how, c) ==
    [outcome EXCEPT ![a] = IF @.how = "none" THEN [how |-> how, cred |-> c] ELSE @]

-----------------------------------------------------------------------------
(* Opening a session *)

IsLive(a)     == row[a].state \in Live
LiveOf(g)     == {a \in Asks : IsLive(a) /\ row[a].agent = g}
IsEdit(a)     == row[a].flow = "edit"
OwnIsOpen(a)  == ask[a].own /\ \E b \in LiveOf(ask[a].agent) : ask[b].own /\ ~IsEdit(b)

\* _count_against_caps
RoomFor(a) ==
    /\ ask[a].agent # NoAgent => Cardinality(LiveOf(ask[a].agent)) < MaxPerAgent
    /\ Cardinality({b \in Asks : IsLive(b)}) < MaxPerOwner

AskGoes(a, pc) == ask' = [ask EXCEPT ![a].pc = pc]

\* _check_rejection_cooldown: the hold is on the agent asking again.
AskCooldown(a) ==
    /\ ask[a].pc = "new"
    /\ AskGoes(a, IF ask[a].own /\ ask[a].agent \in hold THEN "refused" ELSE "asked")
    /\ UNCHANGED <<rowVars, bound, hold, confirm, sweep, landing>>

\* _refuse_open_session, then _check_open_session_caps.
AskOpen(a) ==
    /\ ask[a].pc = "asked"
    /\ AskGoes(a, IF OwnIsOpen(a) \/ ~RoomFor(a) THEN "refused" ELSE "clear")
    /\ UNCHANGED <<rowVars, bound, hold, confirm, sweep, landing>>

\* Mutant: only the early count, before the transaction, holds the caps.
MayOpenUncounted(a) == ~OwnIsOpen(a)

\* The creating transaction's own checks: _enforce_open_session_caps and the unique
\* index on an agent's own open session for the API.
MayOpen(a) == RoomFor(a) /\ ~OwnIsOpen(a)

\* The pending credential, the session and its first revision in one transaction.
OpenSession(a) ==
    /\ ask[a].pc = "clear"
    /\ IF MayOpen(a)
       THEN /\ AskGoes(a, "opened")
            /\ cred' = [cred EXCEPT ![a] = "pending"]
            /\ row' = [row EXCEPT ![a] =
                 [state |-> IF ask[a].flow = "awaiting_app" THEN "awaiting_app" ELSE "created",
                  rev |-> 1, agent |-> ask[a].agent, flow |-> ask[a].flow]]
       ELSE AskGoes(a, "refused") /\ UNCHANGED <<cred, row>>
    /\ UNCHANGED <<rules, outcome, bound, hold, confirm, sweep, landing>>

\* _require_revision_room
RevisionRoom(a) == row[a].rev < MaxRev

\* amend_session: the swap of advance_revision, which fails once the session has left
\* the open states or another amend came first.
Amend(a) ==
    /\ row[a].state \in Open /\ RevisionRoom(a)
    /\ row' = [row EXCEPT ![a].rev = @ + 1]
    /\ UNCHANGED <<ask, cred, rules, outcome, bound, hold, confirm, sweep, landing>>

\* _leave_awaiting_app: an OAuth app for the API has been registered.
LeaveAwaitingApp(a) ==
    /\ row[a].state = "awaiting_app"
    /\ row' = [row EXCEPT ![a].state = "created", ![a].flow = "oauth"]
    /\ UNCHANGED <<ask, cred, rules, outcome, bound, hold, confirm, sweep, landing>>

-----------------------------------------------------------------------------
(* Confirming *)

\* _allowed_confirm_kinds; whether an existing credential has to be widened depends on
\* its scopes and on those the session asks for.
Kinds(a) == {IF row[a].state = "awaiting_app" THEN "own_client" ELSE row[a].flow, "existing", "widen"}

ConfirmGoes(c, pc) == confirm' = [confirm EXCEPT ![c].pc = pc]

\* confirm and confirm_variant up to their first write: the row as read, at the revision
\* the approver reviewed; an agent may be picked only if the session names none.
ConfirmRead(c, a, kind, g) ==
    /\ confirm[c].pc = "new"
    /\ row[a].state \in Open /\ kind \in Kinds(a)
    /\ row[a].agent # NoAgent => g = row[a].agent
    /\ kind \in {"existing", "widen"} => g # NoAgent
    /\ confirm' = [confirm EXCEPT ![c] =
         [pc    |-> IF kind \in {"secret", "existing"} /\ g # NoAgent THEN "bind" ELSE "swap",
          ask   |-> a, kind |-> kind, agent |-> g, late |-> g # row[a].agent,
          rev   |-> row[a].rev, from |-> row[a].state, new |-> FALSE]]
    /\ UNCHANGED <<ask, rowVars, bound, hold, sweep, landing>>

Target(c) == IF confirm[c].kind = "existing" THEN Existing ELSE confirm[c].ask
Pair(c)   == <<confirm[c].agent, Target(c)>>

\* _bind_for_confirm: a secret or an existing credential binds first, and reads the agent
\* again afterwards.
BindFirst(c) ==
    /\ confirm[c].pc = "bind"
    /\ bound' = bound \cup {Pair(c)}
    /\ confirm' = [confirm EXCEPT ![c].pc = "bound", ![c].new = Pair(c) \notin bound]
    /\ UNCHANGED <<ask, rowVars, hold, sweep, landing>>

AgentUsable(c) ==
    /\ confirm[c].pc = "bound"
    /\ ConfirmGoes(c, "swap")
    /\ UNCHANGED <<ask, rowVars, bound, hold, sweep, landing>>

\* The agent was archived meanwhile (AgentLifecycle): a new binding is undone.
AgentUnusable(c) ==
    /\ confirm[c].pc = "bound"
    /\ ConfirmGoes(c, IF confirm[c].new THEN "unbind" ELSE "done")
    /\ UNCHANGED <<ask, rowVars, bound, hold, sweep, landing>>

\* Mutant: the swap does not check the revision.
WinsAnyRevision(c) == row[confirm[c].ask].state = confirm[c].from

\* Mutant: a session that is polling can be confirmed again.
WinsAgain(c) ==
    /\ row[confirm[c].ask].state \in {confirm[c].from, "polling"}
    /\ row[confirm[c].ask].rev = confirm[c].rev

\* transition_state: the session is still where it was read, at the reviewed revision.
Wins(c) ==
    /\ row[confirm[c].ask].state = confirm[c].from
    /\ row[confirm[c].ask].rev = confirm[c].rev

\* The row after a won swap; an agent picked late rides the same update.
Moved(c, state) ==
    [row EXCEPT ![confirm[c].ask].state = state,
                ![confirm[c].ask].agent = IF confirm[c].late THEN confirm[c].agent ELSE @,
                ![confirm[c].ask].flow  = CASE confirm[c].kind = "own_client" -> "oauth"
                                            [] confirm[c].kind = "widen"      -> "edit"
                                            [] OTHER                          -> @]

\* replace_user_rules
Replaced(g, c, a, rev) ==
    {r \in rules : <<r.agent, r.cred>> # <<g, c>>}
      \cup (IF g = NoAgent THEN {} ELSE {[agent |-> g, cred |-> c, ask |-> a, rev |-> rev]})

\* An OAuth confirm swaps to polling before the vendor is called.
SwapToPolling(c) ==
    /\ confirm[c].pc = "swap" /\ confirm[c].kind \in {"oauth", "own_client"}
    /\ IF Wins(c) THEN row' = Moved(c, "polling") /\ ConfirmGoes(c, "begin")
                  ELSE row' = row /\ ConfirmGoes(c, "done")
    /\ UNCHANGED <<ask, cred, rules, outcome, bound, hold, sweep, landing>>

\* _confirm_existing_with_consent: the session moves onto the existing credential, where
\* it holds the approved rules and the binding until the grant lands; its own pending
\* credential goes.
SwapToEdit(c) ==
    LET a == confirm[c].ask
    IN /\ confirm[c].pc = "swap" /\ confirm[c].kind = "widen"
       /\ IF Wins(c)
          THEN /\ row' = Moved(c, "polling")
               /\ cred' = [cred EXCEPT ![a] = "deleted"]
               /\ rules' = {r \in rules : r.cred # a}
               /\ ConfirmGoes(c, "begin")
          ELSE UNCHANGED <<row, cred, rules>> /\ ConfirmGoes(c, "done")
       /\ UNCHANGED <<ask, outcome, bound, hold, sweep, landing>>

\* A widening has written its rules down with the swap.
BeginSucceeds(c) ==
    /\ confirm[c].pc = "begin"
    /\ ConfirmGoes(c, IF confirm[c].kind = "widen" THEN "issued" ELSE "rules")
    /\ UNCHANGED <<ask, rowVars, bound, hold, sweep, landing>>

\* A vendor that cannot be reached leaves the session as it was.
BeginFails(c) ==
    LET a == confirm[c].ask
    IN /\ confirm[c].pc = "begin" /\ confirm[c].kind # "widen"
       /\ row' = IF row[a].state # "polling" THEN row
                 ELSE [row EXCEPT ![a].state = confirm[c].from,
                                  ![a].agent = IF confirm[c].late THEN NoAgent ELSE @,
                                  ![a].flow  = IF confirm[c].kind = "own_client" THEN "awaiting_app" ELSE @]
       /\ ConfirmGoes(c, "done")
       /\ UNCHANGED <<ask, cred, rules, outcome, bound, hold, sweep, landing>>

\* A session whose own credential is gone cannot go back, and ends.
WideningFails(c) ==
    LET a == confirm[c].ask
    IN /\ confirm[c].pc = "begin" /\ confirm[c].kind = "widen"
       /\ IF IsLive(a)
          THEN row' = [row EXCEPT ![a].state = "gone"] /\ outcome' = Recorded(a, "ended", Existing)
          ELSE UNCHANGED <<row, outcome>>
       /\ ConfirmGoes(c, "done")
       /\ UNCHANGED <<ask, cred, rules, bound, hold, sweep, landing>>

\* The approved rules; the foreign key refuses them once the credential is gone.
WriteRules(c) ==
    LET a == confirm[c].ask
        g == confirm[c].agent
    IN /\ confirm[c].pc = "rules"
       /\ IF g = NoAgent \/ cred[a] # "deleted"
          THEN /\ rules' = IF g = NoAgent THEN rules ELSE Replaced(g, a, a, confirm[c].rev)
               /\ ConfirmGoes(c, IF g = NoAgent THEN "issued" ELSE "bindlast")
          ELSE rules' = rules /\ ConfirmGoes(c, "done")
       /\ UNCHANGED <<ask, row, cred, outcome, bound, hold, sweep, landing>>

\* The binding, in the other database; then the approver gets the vendor's page.
BindLast(c) ==
    /\ confirm[c].pc = "bindlast"
    /\ bound' = bound \cup {Pair(c)}
    /\ ConfirmGoes(c, "issued")
    /\ UNCHANGED <<ask, rowVars, hold, sweep, landing>>

\* _confirm_secret and _confirm_existing: session, credential, rules and outcome in one
\* transaction; the pending credential that is not needed takes its session along.
SwapToConnected(c) ==
    LET a == confirm[c].ask
    IN /\ confirm[c].pc = "swap" /\ confirm[c].kind \in {"secret", "existing"}
       /\ IF Wins(c)
          THEN /\ row' = Moved(c, IF confirm[c].kind = "secret" THEN "connected" ELSE "gone")
               /\ cred' = [cred EXCEPT ![a] = IF confirm[c].kind = "secret" THEN "connected" ELSE "deleted"]
               /\ rules' = Replaced(confirm[c].agent, Target(c), a, confirm[c].rev)
               /\ outcome' = Recorded(a, "connected", Target(c))
               /\ ConfirmGoes(c, "done")
          ELSE /\ UNCHANGED rowVars
               /\ ConfirmGoes(c, IF confirm[c].new THEN "recheck" ELSE "done")
       /\ UNCHANGED <<ask, bound, hold, sweep, landing>>

\* The transaction raises: nothing is kept, a new binding is undone.
SwapRaises(c) ==
    /\ c \in Faulty
    /\ confirm[c].pc = "swap" /\ confirm[c].kind \in {"secret", "existing"}
    /\ ConfirmGoes(c, IF confirm[c].new THEN "unbind" ELSE "done")
    /\ UNCHANGED <<ask, rowVars, bound, hold, sweep, landing>>

\* _after_lost_transition: keep the binding if a concurrent confirm connected the credential.
Recheck(c) ==
    /\ confirm[c].pc = "recheck"
    /\ ConfirmGoes(c, IF outcome[confirm[c].ask] = [how |-> "connected", cred |-> Target(c)]
                      THEN "done" ELSE "unbind")
    /\ UNCHANGED <<ask, rowVars, bound, hold, sweep, landing>>

Compensate(c) ==
    /\ confirm[c].pc = "unbind"
    /\ bound' = bound \ {Pair(c)}
    /\ ConfirmGoes(c, "done")
    /\ UNCHANGED <<ask, rowVars, hold, sweep, landing>>

\* The process running a confirm dies between two of its transactions.
ConfirmDies(c) ==
    /\ c \in Faulty
    /\ confirm[c].pc \in {"bind", "bound", "swap", "begin", "rules", "bindlast", "recheck", "unbind"}
    /\ ConfirmGoes(c, "done")
    /\ UNCHANGED <<ask, rowVars, bound, hold, sweep, landing>>

-----------------------------------------------------------------------------
(* The grant arrives: the OAuth callback or the device-flow poll *)

\* The vendor's page has been shown and the exchange has succeeded for a live session.
LandRead(l, a) ==
    /\ landing[l].pc = "idle" /\ row[a].state = "polling"
    /\ \E c \in Confirms : confirm[c].ask = a /\ confirm[c].pc = "issued"
    /\ landing' = [landing EXCEPT ![l] = [pc |-> "exchanged", ask |-> a]]
    /\ UNCHANGED <<ask, rowVars, bound, hold, confirm, sweep>>

\* Mutant: the grant is written whatever became of the session.
StillLiveUnchecked(a) == TRUE

\* The compare-and-swap both _write_finalise and _mark_terminal start with.
StillLive(a) == IsLive(a)

\* _write_finalise: a session that ended meanwhile keeps nothing of the grant.
LandWrite(l) ==
    LET a == landing[l].ask
    IN /\ landing[l].pc = "exchanged" /\ ~IsEdit(a)
       /\ landing' = [landing EXCEPT ![l].pc = "idle"]
       /\ IF StillLive(a)
          THEN /\ row' = [row EXCEPT ![a].state = "connected"]
               /\ cred' = [cred EXCEPT ![a] = "connected"]
               /\ outcome' = Recorded(a, "connected", a)
          ELSE UNCHANGED <<row, cred, outcome>>
       /\ UNCHANGED <<ask, rules, bound, hold, confirm, sweep>>

\* _finalise_edit of a widening: the grant, the held rules and the outcome in one
\* transaction.  If the rules of the binding moved while the grant was out, the held
\* ones are not written and the session is reopened (_write_change).
LandEdit(l, moved) ==
    LET a == landing[l].ask
    IN /\ landing[l].pc = "exchanged" /\ IsEdit(a)
       /\ IF row[a].state = "polling"
          THEN /\ landing' = [landing EXCEPT ![l].pc = "bind"]
               /\ IF moved
                  THEN row' = [row EXCEPT ![a].state = "reopened"] /\ UNCHANGED <<rules, outcome>>
                  ELSE /\ row' = [row EXCEPT ![a].state = "gone"]
                       /\ rules' = Replaced(row[a].agent, Existing, a, row[a].rev)
                       /\ outcome' = Recorded(a, "connected", Existing)
          ELSE landing' = [landing EXCEPT ![l].pc = "idle"] /\ UNCHANGED <<row, rules, outcome>>
       /\ UNCHANGED <<ask, cred, bound, hold, confirm, sweep>>

\* _apply_admin_change: the held binding, in the other database.
LandBind(l) ==
    /\ landing[l].pc = "bind"
    /\ bound' = bound \cup {<<row[landing[l].ask].agent, Existing>>}
    /\ landing' = [landing EXCEPT ![l].pc = "idle"]
    /\ UNCHANGED <<ask, rowVars, hold, confirm, sweep>>

-----------------------------------------------------------------------------
(* Ending a session: cancel, reject, expiry, a failed consent or a changed API *)

\* Mutant: a session that is polling is left to its flow.
EndableBeforeConfirm(a) == row[a].state \in Open

\* The states a cancel, a rejection or the sweep of stale sessions looks for.
Endable(a) == IsLive(a)

\* The caller has seen a live session; _mark_terminal reads its agent and intent.
SweepRead(s, a, how) ==
    /\ sweep[s].pc = "idle" /\ Endable(a)
    /\ sweep' = [sweep EXCEPT ![s] =
         [pc |-> "end", ask |-> a, agent |-> row[a].agent, how |-> how, edit |-> IsEdit(a)]]
    /\ UNCHANGED <<ask, rowVars, bound, hold, confirm, landing>>

\* _mark_terminal: the swap, the outcome and the deletion of the credential, which
\* cascades to session and rules.  A session that was read before it moved onto another
\* credential is swapped but not deleted.
SweepEnd(s) ==
    LET a == sweep[s].ask
        g == sweep[s].agent
    IN /\ sweep[s].pc = "end" /\ ~sweep[s].edit
       /\ IF StillLive(a)
          THEN /\ row' = [row EXCEPT ![a].state = IF IsEdit(a) THEN "over" ELSE "gone"]
               /\ cred' = [cred EXCEPT ![a] = "deleted"]
               /\ rules' = {r \in rules : r.cred # a}
               /\ outcome' = Recorded(a, sweep[s].how, a)
               /\ hold' = IF sweep[s].how = "rejected" /\ g # NoAgent THEN hold \cup {g} ELSE hold
               /\ sweep' = [sweep EXCEPT ![s] = IF g = NoAgent THEN NoSweep ELSE [@ EXCEPT !.pc = "unbind"]]
          ELSE /\ UNCHANGED <<rowVars, hold>>
               /\ sweep' = [sweep EXCEPT ![s] = NoSweep]
       /\ UNCHANGED <<ask, bound, confirm, landing>>

\* _mark_terminal of an edit: only the session goes; a rejection holds back the next
\* edit of the binding, and no ask.
SweepEndEdit(s) ==
    LET a == sweep[s].ask
    IN /\ sweep[s].pc = "end" /\ sweep[s].edit
       /\ IF StillLive(a)
          THEN row' = [row EXCEPT ![a].state = "gone"] /\ outcome' = Recorded(a, sweep[s].how, Existing)
          ELSE UNCHANGED <<row, outcome>>
       /\ sweep' = [sweep EXCEPT ![s] = NoSweep]
       /\ UNCHANGED <<ask, cred, rules, bound, hold, confirm, landing>>

\* The admin half: the binding of the agent that was read.
SweepUnbind(s) ==
    /\ sweep[s].pc = "unbind"
    /\ bound' = bound \ {<<sweep[s].agent, sweep[s].ask>>}
    /\ sweep' = [sweep EXCEPT ![s] = NoSweep]
    /\ UNCHANGED <<ask, rowVars, hold, confirm, landing>>

CooldownEnds(g) ==
    /\ g \in hold /\ hold' = hold \ {g}
    /\ UNCHANGED <<ask, rowVars, bound, confirm, sweep, landing>>

-----------------------------------------------------------------------------
Opening(a)    == AskCooldown(a) \/ AskOpen(a) \/ OpenSession(a) \/ Amend(a) \/ LeaveAwaitingApp(a)
Confirming(c) ==
    \/ \E a \in Asks, g \in Agents \cup {NoAgent} : \E kind \in Kinds(a) : ConfirmRead(c, a, kind, g)
    \/ BindFirst(c) \/ AgentUsable(c) \/ AgentUnusable(c) \/ SwapToPolling(c) \/ SwapToEdit(c)
    \/ BeginSucceeds(c) \/ BeginFails(c) \/ WideningFails(c)
    \/ WriteRules(c) \/ BindLast(c) \/ SwapToConnected(c) \/ SwapRaises(c)
    \/ Recheck(c) \/ Compensate(c) \/ ConfirmDies(c)
Landing(l)    ==
    \/ \E a \in Asks : LandRead(l, a)
    \/ LandWrite(l) \/ (\E moved \in BOOLEAN : LandEdit(l, moved)) \/ LandBind(l)
Expiring(s)   ==
    \/ \E a \in Asks : SweepRead(s, a, "ended")
    \/ SweepEnd(s) \/ SweepEndEdit(s) \/ SweepUnbind(s)

Next ==
    \/ \E a \in Asks : Opening(a)
    \/ \E c \in Confirms : Confirming(c)
    \/ \E l \in Landings : Landing(l)
    \/ \E s \in Sweeps : Expiring(s) \/ \E a \in Asks : SweepRead(s, a, "rejected")
    \/ \E g \in Agents : CooldownEnds(g)

Spec == Init /\ [][Next]_vars

\* The sweep of the background scanner keeps running.
FairSpec == Spec /\ \A s \in Sweeps : WF_vars(Expiring(s))

-----------------------------------------------------------------------------
(* Properties *)

\* A session that was cancelled, rejected or expired keeps nothing: its credential, and
\* with it the grant and the rules, is gone even if the vendor's grant or the approved
\* rules arrive afterwards, and a credential it was widening has none of its rules
\* (_mark_terminal, _write_finalise, _finalise_edit).
EndedKeepsNothing ==
    \A a \in Asks : outcome[a].how \in Ended =>
        /\ row[a].state \in {"gone", "over"} /\ cred[a] = "deleted"
        /\ \A r \in rules : r.cred # a /\ r.ask # a

\* A credential a session connected for an agent carries the rules of the revision
\* the approver reviewed, which is the session's last one, for the agent it names.
ConnectedAsReviewed ==
    \A a \in Asks : row[a].state = "connected" /\ row[a].agent # NoAgent =>
        [agent |-> row[a].agent, cred |-> a, ask |-> a, rev |-> row[a].rev] \in rules

\* Of concurrent confirms of one session at most one talks to the vendor (confirm's
\* swap before begin).
OneConversation ==
    \A c, d \in Confirms :
        /\ c # d /\ confirm[c].ask = confirm[d].ask
        /\ confirm[c].pc \in {"begin", "rules", "bindlast", "issued"}
        => confirm[d].pc \notin {"begin", "rules", "bindlast", "issued"}

\* A session opens only below the caps of its agent and owner, however many asks run at
\* once (_enforce_open_session_caps).
CapsHoldAtOpening ==
    [][\A a \in Asks : row[a].state = "none" /\ row'[a].state \in Live =>
        /\ Cardinality({b \in Asks : row'[b].state \in Live}) <= MaxPerOwner
        /\ ask[a].agent # NoAgent =>
             Cardinality({b \in Asks : row'[b].state \in Live /\ row'[b].agent = ask[a].agent}) <= MaxPerAgent]_vars

\* Every open session ends, also when the confirm that held it died with the session
\* polling (expire_stale_sessions).
SessionsEnd == \A a \in Asks : IsLive(a) ~> ~IsLive(a)

\* An agent's own ask is not opened while a rejection of the same target holds
\* (reject_session).
RejectionHolds ==
    [][\A a \in Asks : row[a].state = "none" /\ row'[a].state \in Live /\ ask[a].own =>
        ask[a].agent \notin hold]_vars

\* "Log the terminal outcome, then delete the credential + session" (_mark_terminal): the
\* row of a session that was cancelled, rejected or expired is gone.
EndedRowsGo == \A a \in Asks : outcome[a].how \in Ended => row[a].state = "gone"

\* No binding outlives the credential of an ended session once everyone is done with it
\* (_mark_terminal).
NoGhostBinding ==
    \A a \in Asks :
        /\ outcome[a].how \in Ended
        /\ \A c \in Confirms : confirm[c].ask = a => confirm[c].pc \in {"absent", "new", "issued", "done"}
        /\ \A s \in Sweeps : sweep[s].ask = a => sweep[s].pc \in {"absent", "idle"}
        => \A g \in Agents : <<g, a>> \notin bound

\* A confirm that lost to one that connected the same credential leaves the binding
\* the winner needs (_after_lost_transition).
WinnerStaysBound ==
    \A a \in Asks : row[a].state = "connected" /\ row[a].agent # NoAgent => <<row[a].agent, a>> \in bound

=============================================================================
