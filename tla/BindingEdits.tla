---------------------------- MODULE BindingEdits -----------------------------
(***************************************************************************)
(* Edit sessions: an agent or a human asks to change the permission rules  *)
(* or the OAuth scopes of an existing binding, a human confirms a revision *)
(* of the ask, and the change lands at once or, when it needs the vendor's *)
(* consent, with the grant (control/services/integrations/                 *)
(* connect_session_service.py).  Meanwhile the rules may be changed        *)
(* directly (control/services/credentials/service.py) or by another edit.  *)
(*                                                                         *)
(* One binding.  A rule list is its content and the identity of its rows:  *)
(* every rewrite makes new rows, and content nobody wrote before is new.   *)
(***************************************************************************)
EXTENDS Naturals

CONSTANTS
    Edits, NoEdit, Confirms, Rebases, Landings,
    MaxRev,      \* _MAX_SESSION_REVISIONS
    MaxWrites,   \* bound: rewrites of the rules
    MaxGrants    \* bound: grants of the vendor

ASSUME NoneAssumption   == NoEdit \notin Edits
ASSUME BoundsAssumption == MaxRev \in Nat \ {0} /\ MaxWrites \in Nat /\ MaxGrants \in Nat

VARIABLES
    rules,     \* the binding's rules: [rows, content]
    granted,   \* the credential's grant
    edit,      \* each session row, and what it holds for the vendor's consent
    outcome,
    confirm, rebase, landing

procVars == <<confirm, rebase, landing>>
vars     == <<rules, granted, edit, outcome, procVars>>

Binding  == [rules |-> rules, granted |-> granted]
Start    == [rules |-> [rows |-> 0, content |-> 0], granted |-> 0]
NoChange == [rev |-> 0, seen |-> Start, edits |-> FALSE]

Row(state)   == [state |-> state, rev |-> 0, base |-> Start, change |-> NoChange, reopened |-> FALSE]
Confirm(pc)  == [pc |-> pc, edit |-> NoEdit, rev |-> 0, base |-> Start, edits |-> FALSE]
IdleRebase   == [pc |-> "idle", edit |-> NoEdit, live |-> Start]
IdleLanding  == [pc |-> "idle", edit |-> NoEdit, base |-> Start, change |-> NoChange]

Init ==
    /\ rules = Start.rules /\ granted = Start.granted
    /\ edit = [e \in Edits |-> Row("none")]
    /\ outcome = [e \in Edits |-> "none"]
    /\ confirm = [c \in Confirms |-> Confirm("new")]
    /\ rebase = [r \in Rebases |-> IdleRebase]
    /\ landing = [l \in Landings |-> IdleLanding]

\* replace_user_rules: a delete and re-insert, of new content or of what was seen.
Rewrite(edits, seen) ==
    /\ rules.rows < MaxWrites
    /\ rules' = [rows |-> rules.rows + 1, content |-> IF edits THEN rules.rows + 1 ELSE seen.rules.content]

\* Mutant: the rules are not read again under the lock.
RulesMovedUnread(base) == FALSE

\* _rules_moved_in, read in the transaction that holds the rules' lock.
RulesMoved(base) == rules.content # base.rules.content

-----------------------------------------------------------------------------
(* Opening, amending and rebasing *)

\* replace_agent_permissions, patch_agent_permissions: an operator changes the rules.
SetRules ==
    /\ Rewrite(TRUE, Binding)
    /\ UNCHANGED <<granted, edit, outcome, procVars>>

\* create_edit_session: the binding as it is becomes the baseline of revision 1.
OpenEdit(e) ==
    /\ edit[e].state = "none"
    /\ edit' = [edit EXCEPT ![e].state = "created", ![e].rev = 1, ![e].base = Binding]
    /\ UNCHANGED <<rules, granted, outcome, procVars>>

\* _require_revision_room, and the check of _rebase_edit under the revision lock.
RevisionRoom(e) == edit[e].rev < MaxRev

\* amend_session: its swap; a stale session is rebased first, by a Rebase of its own.
AmendEdit(e) ==
    /\ edit[e].state = "created" /\ RevisionRoom(e)
    /\ edit' = [edit EXCEPT ![e].rev = @ + 1]
    /\ UNCHANGED <<rules, granted, outcome, procVars>>

\* _refresh_edit: an open session whose baseline is not the binding as it is now.
RebaseRead(r, e) ==
    /\ rebase[r].pc = "idle"
    /\ edit[e].state = "created" /\ edit[e].base # Binding
    /\ rebase' = [rebase EXCEPT ![r] = [pc |-> "write", edit |-> e, live |-> Binding]]
    /\ UNCHANGED <<rules, granted, edit, outcome, confirm, landing>>

\* _rebase_edit: from the revision under the lock, whatever state the session is in by
\* then; a session that has been deleted or a full chain is left alone.
Rebased(e, live) ==
    IF edit[e].state \in {"created", "polling"} /\ RevisionRoom(e)
    THEN [edit EXCEPT ![e].rev = @ + 1, ![e].base = live] ELSE edit

RebaseWrite(r) ==
    /\ rebase[r].pc = "write"
    /\ edit' = Rebased(rebase[r].edit, rebase[r].live)
    /\ rebase' = [rebase EXCEPT ![r] = IdleRebase]
    /\ UNCHANGED <<rules, granted, outcome, confirm, landing>>

-----------------------------------------------------------------------------
(* Confirming *)

ConfirmGoes(c, pc) == confirm' = [confirm EXCEPT ![c].pc = pc]
ConfirmEnds(c)     == confirm' = [confirm EXCEPT ![c] = Confirm("done")]

\* confirm_edit: the current revision, on a baseline that still matches the binding; the
\* approver may change the rules, the scopes, both, or neither (a resume).
ConfirmRead(c, e, edits, scopes) ==
    /\ confirm[c].pc = "new"
    /\ edit[e].state = "created" /\ edit[e].base = Binding
    /\ confirm' = [confirm EXCEPT ![c] =
         [pc |-> IF scopes THEN "hold" ELSE "apply", edit |-> e,
          rev |-> edit[e].rev, base |-> edit[e].base, edits |-> edits]]
    /\ UNCHANGED <<rules, granted, edit, outcome, rebase, landing>>

\* The baseline has moved: the confirm rebases the session and is refused.
ConfirmStale(c, e) ==
    /\ confirm[c].pc = "new"
    /\ edit[e].state = "created" /\ edit[e].base # Binding /\ RevisionRoom(e)
    /\ edit' = Rebased(e, Binding)
    /\ UNCHANGED <<rules, granted, outcome, procVars>>

\* transition_edit
Wins(c) == edit[confirm[c].edit].state = "created" /\ edit[confirm[c].edit].rev = confirm[c].rev

\* _write_change and the end of the session: its rows are rewritten even when only
\* their identity changes.
Close(e) ==
    /\ outcome' = [outcome EXCEPT ![e] = "applied"]
    /\ edit' = [edit EXCEPT ![e] = Row("gone")]

\* confirm_edit without a scope change: swap, rules and outcome in one transaction, or
\* nothing when the swap is lost or the rules have moved since they were read.
Apply(c) ==
    /\ confirm[c].pc = "apply"
    /\ ConfirmEnds(c)
    /\ IF Wins(c) /\ ~RulesMoved(confirm[c].base)
       THEN Rewrite(confirm[c].edits, confirm[c].base) /\ Close(confirm[c].edit)
       ELSE UNCHANGED <<rules, edit, outcome>>
    /\ UNCHANGED <<granted, rebase, landing>>

\* A human's own change: the binding is read, then opened, approved and written in one
\* transaction (_apply_edit_now).
ApplyNowRead(c) ==
    /\ confirm[c].pc = "new"
    /\ confirm' = [confirm EXCEPT ![c].pc = "applynow", ![c].base = Binding, ![c].edits = TRUE]
    /\ UNCHANGED <<rules, granted, edit, outcome, rebase, landing>>

ApplyNow(c) ==
    /\ confirm[c].pc = "applynow"
    /\ ConfirmEnds(c)
    /\ IF RulesMoved(confirm[c].base) THEN UNCHANGED rules ELSE Rewrite(TRUE, Binding)
    /\ UNCHANGED <<granted, edit, outcome, rebase, landing>>

\* _begin_edit_consent: the approved change is held on the session while it is polling.
HoldChange(c) ==
    LET e == confirm[c].edit
    IN /\ confirm[c].pc = "hold"
       /\ IF Wins(c)
          THEN /\ edit' = [edit EXCEPT ![e].state = "polling",
                             ![e].change = [rev |-> confirm[c].rev, edits |-> confirm[c].edits,
                                            seen |-> confirm[c].base]]
               /\ ConfirmGoes(c, "begin")
          ELSE edit' = edit /\ ConfirmEnds(c)
       /\ UNCHANGED <<rules, granted, outcome, rebase, landing>>

BeginSucceeds(c) ==
    /\ confirm[c].pc = "begin"
    /\ ConfirmGoes(c, "issued")
    /\ UNCHANGED <<rules, granted, edit, outcome, rebase, landing>>

\* _begin_consent's undo: back to review, with nothing held.
Unheld(e) == [edit EXCEPT ![e].state = "created", ![e].change = NoChange]

BeginFails(c) ==
    LET e == confirm[c].edit
    IN /\ confirm[c].pc = "begin"
       /\ edit' = IF edit[e].state = "polling" THEN Unheld(e) ELSE edit
       /\ ConfirmEnds(c)
       /\ UNCHANGED <<rules, granted, outcome, rebase, landing>>

-----------------------------------------------------------------------------
(* The grant lands *)

\* complete_from_callback, advance_polling_session: the consent shown by one confirm is
\* given once; the session is read with the change it holds.
LandRead(l, c) ==
    LET e == confirm[c].edit
    IN /\ landing[l].pc = "idle" /\ confirm[c].pc = "issued" /\ edit[e].state = "polling"
       /\ ConfirmEnds(c)
       /\ landing' = [landing EXCEPT ![l] =
            [pc |-> "exchanged", edit |-> e, base |-> edit[e].base, change |-> edit[e].change]]
       /\ UNCHANGED <<rules, granted, edit, outcome, rebase>>

\* The approved rules differ from those of the baseline the landing has read.
Changes(change, base) == change.edits \/ change.seen.rules.content # base.rules.content

\* Mutant: rules that moved are kept and the change is recorded as applied.
ReopensNever(change, base) == FALSE

\* A landing grant keeps rules that moved; if the approver's differ from the baseline's,
\* the session is reopened for them.
Reopens(change, base) == RulesMoved(base) /\ Changes(change, base)

\* Mutant: the grant is stored before the swap decides whether the session still wants it.
StoresGrantFirst(won, kept) == ~kept

\* The grant is stored with the swap, unless the vendor kept a scope the change removes.
StoresGrant(won, kept) == won /\ ~kept

\* _finalise_edit: swap, grant, rules and outcome in one transaction.  A grant that fails
\* its checks ends the session (EndEdit); one that kept a scope lands the rest of the
\* change, the rules or a resume.
LandWrite(l, kept) ==
    LET e      == landing[l].edit
        change == landing[l].change
        base   == landing[l].base
        won    == edit[e].state = "polling"
    IN /\ landing[l].pc = "exchanged"
       /\ granted < MaxGrants
       /\ granted' = IF StoresGrant(won, kept) THEN granted + 1 ELSE granted
       /\ IF won /\ Reopens(change, base)
          THEN /\ edit' = [edit EXCEPT ![e].state = "created", ![e].change = NoChange, ![e].reopened = TRUE]
               /\ landing' = [landing EXCEPT ![l].pc = "rebase"]
               /\ UNCHANGED <<rules, outcome>>
          ELSE /\ landing' = [landing EXCEPT ![l] = IdleLanding]
               /\ IF won THEN /\ Close(e)
                              /\ IF RulesMoved(base) THEN UNCHANGED rules
                                                     ELSE Rewrite(change.edits, change.seen)
                         ELSE UNCHANGED <<rules, edit, outcome>>
       /\ UNCHANGED <<confirm, rebase>>

\* _after_reopen: the reopened ask is resolved against the binding as it is now.
LandRebase(l) ==
    /\ landing[l].pc = "rebase"
    /\ edit' = Rebased(landing[l].edit, Binding)
    /\ landing' = [landing EXCEPT ![l] = IdleLanding]
    /\ UNCHANGED <<rules, granted, outcome, confirm, rebase>>

\* _mark_terminal of an edit: cancel, rejection, expiry, a consent that failed; the
\* credential, its rules and its grant stay as they are.
EndEdit(e) ==
    /\ edit[e].state \in {"created", "polling"}
    /\ edit' = [edit EXCEPT ![e] = Row("gone")]
    /\ outcome' = [outcome EXCEPT ![e] = "ended"]
    /\ UNCHANGED <<rules, granted, procVars>>

-----------------------------------------------------------------------------
Confirming(c) ==
    \/ \E e \in Edits : ConfirmStale(c, e) \/ \E edits, scopes \in BOOLEAN : ConfirmRead(c, e, edits, scopes)
    \/ Apply(c) \/ ApplyNowRead(c) \/ ApplyNow(c)
    \/ HoldChange(c) \/ BeginSucceeds(c) \/ BeginFails(c)

Landing(l) ==
    \/ \E c \in Confirms : LandRead(l, c)
    \/ \E kept \in BOOLEAN : LandWrite(l, kept)
    \/ LandRebase(l)

Next ==
    \/ SetRules
    \/ \E e \in Edits : OpenEdit(e) \/ AmendEdit(e) \/ EndEdit(e)
    \/ \E r \in Rebases : RebaseWrite(r) \/ \E e \in Edits : RebaseRead(r, e)
    \/ \E c \in Confirms : Confirming(c)
    \/ \E l \in Landings : Landing(l)

Spec == Init /\ [][Next]_vars

-----------------------------------------------------------------------------
(* Properties *)

\* A change confirmed without a vendor step replaces the rules its approver saw, never
\* rules another edit or an operator wrote since (_write_change).
ConfirmReplacesReviewed ==
    [][\A c \in Confirms :
        /\ confirm[c].pc \in {"apply", "applynow"} /\ confirm'[c].pc = "done" /\ rules' # rules
        => rules.content = confirm[c].base.rules.content]_vars

\* An approved rule change is never recorded as applied without being in place: when the
\* rules moved while the grant was out, the session goes back to review (_write_change).
AppliedIsWritten ==
    [][\A l \in Landings :
        LET e == landing[l].edit
        IN /\ landing[l].pc = "exchanged" /\ Changes(landing[l].change, landing[l].base)
           /\ outcome[e] = "none" /\ outcome'[e] = "applied"
           => rules'.content # rules.content]_vars

\* A session that was cancelled or expired while its grant was out leaves no grant behind
\* (_finalise_edit): a landing that stores its grant finds its own session polling, and
\* applies the change or reopens the session with the grant in place.
GrantLandsWithSession ==
    [][granted' # granted =>
        \E l \in Landings :
            LET e == landing[l].edit
            IN /\ landing[l].pc = "exchanged" /\ landing'[l].pc # "exchanged"
               /\ edit[e].state = "polling"
               /\ outcome'[e] = "applied" \/ edit'[e].reopened]_vars

\* A landing grant replaces rules only if they are the ones its approver saw; rules that
\* moved since are kept (_write_change, _finalise_edit).
LandingReplacesReviewed ==
    [][\A l \in Landings :
        landing[l].pc = "exchanged" /\ landing'[l].pc # "exchanged" /\ rules' # rules
        => rules.content = landing[l].change.seen.rules.content]_vars

=============================================================================
