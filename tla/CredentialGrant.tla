--------------------------- MODULE CredentialGrant ---------------------------
(***************************************************************************)
(* The OAuth grant of one credential with its own client configuration:    *)
(* the broker's lazy refresh, the write that ends a connect flow, an       *)
(* operator's move of the token endpoint to another origin, and deletion.  *)
(*                                                                         *)
(* A refresh keeps its transaction, and the per-credential lock, open      *)
(* across the vendor's call.  The vendor usually rotates the refresh       *)
(* token: the stored one is dead as soon as the vendor has answered,       *)
(* whether or not the row's update commits.                                *)
(*                                                                         *)
(* One response of a vendor is a number; home says which origin issued it, *)
(* age how old its access token is: 0 fresh, 1 inside the expiry skew,     *)
(* 2 expired.                                                              *)
(***************************************************************************)
EXTENDS Naturals, Sequences

CONSTANTS
    Requests,    \* broker calls that need the credential's access token
    Connects,    \* connect flows whose callback has arrived
    Origins,     \* token endpoint origins
    NoOne,       \* nobody holds the lock
    MaxIssued,   \* bound: responses the vendors give
    MaxMoves,    \* bound: cross-origin edits of the token endpoint
    MaxFaults    \* bound: vendor timeouts and failed commits

ASSUME GrantAssumption ==
    /\ NoOne \notin Requests
    /\ Origins # {}
    /\ MaxIssued \in Nat
    /\ MaxMoves \in Nat
    /\ MaxFaults \in Nat

VARIABLES
    exists,   \* the credential's row is there
    origin,   \* origin of its stored token_url
    row,      \* its oauth_tokens row
    home,     \* origin that issued each response
    age,      \* age of each response's access token
    spent,    \* refresh tokens the vendor has rotated out
    lost,     \* refresh tokens whose successor never reached the row
    lock,     \* holder of the credential's refresh lock
    req,      \* the broker calls
    conn,     \* the connect flows
    moves, faults

vars == <<exists, origin, row, home, age, spent, lock, lost, req, conn, moves, faults>>

\* No refresh token, or no access token.
None == 0

Tokens == 1 .. Len(home)

\* oauth_tokens.credential_id is unique: there is one row or none.
NoRow == [there |-> FALSE, access |-> None, refresh |-> None]
Stored(a, t) == [there |-> TRUE, access |-> a, refresh |-> t]

\* A broker call: the row it resolved, the refresh token it took from the row
\* under the lock, the origin it sent it to, and the vendor's answer.
Resting == [pc |-> "idle", snap |-> NoRow, token |-> None, dest |-> CHOOSE o \in Origins : TRUE,
            access |-> None, refresh |-> None]

\* A connect flow: the endpoint it exchanged its code at and what it was given.
Unconnected == [pc |-> "idle", at |-> CHOOSE o \in Origins : TRUE, access |-> None, refresh |-> None]

Finished(how) == [Unconnected EXCEPT !.pc = how]

\* A credential not yet connected, or connected some time ago.
Init ==
    /\ exists = TRUE
    /\ origin \in Origins
    /\ \/ row = NoRow /\ home = <<>> /\ age = <<>>
       \/ row = Stored(1, 1) /\ home = <<origin>> /\ age = <<0>>
    /\ spent = {}
    /\ lost = {}
    /\ lock = NoOne
    /\ req = [r \in Requests |-> Resting]
    /\ conn = [c \in Connects |-> Unconnected]
    /\ moves = 0
    /\ faults = 0

\* A call that ended: what it was given, or an error.
Ended(a) == [Resting EXCEPT !.pc = IF a = None THEN "failed" ELSE "done", !.access = a]

\* Mutant: the lock is not waited for.
LockFreeAnyway == TRUE

LockFree == lock = NoOne

\* What update_tokens leaves: a response without a refresh token keeps the
\* stored one.
Updated(a, t) == Stored(a, IF t = None THEN row.refresh ELSE t)

----------------------------------------------------------------------------
(* A broker call. *)

\* The resolver reads the credential with its token row.
Resolve(r) ==
    /\ req[r].pc = "idle"
    /\ exists
    /\ req' = [req EXCEPT ![r].pc = "resolved", ![r].snap = row]
    /\ UNCHANGED <<exists, origin, row, home, age, spent, lost, lock, conn, moves, faults>>

Fresh(a) == a # None /\ age[a] = 0

Unexpired(a) == a # None /\ age[a] < 2

\* ensure_fresh returns the resolved token outright.
UseResolved(r) ==
    /\ req[r].pc = "resolved"
    /\ Fresh(req[r].snap.access)
    /\ req' = [req EXCEPT ![r] = Ended(req[r].snap.access)]
    /\ UNCHANGED <<exists, origin, row, home, age, spent, lost, lock, conn, moves, faults>>

\* Under the lock the row decides: its token is used when it is fresh, or
\* newer than the resolved one and not expired.
RowSuffices(r) ==
    /\ row.there
    /\ \/ Fresh(row.access)
       \/ row.access # req[r].snap.access /\ Unexpired(row.access)

MayLock(r) ==
    /\ req[r].pc = "resolved"
    /\ ~Fresh(req[r].snap.access)
    /\ LockFree

UseRow(r) ==
    /\ MayLock(r)
    /\ RowSuffices(r)
    /\ req' = [req EXCEPT ![r] = Ended(row.access)]
    /\ UNCHANGED <<exists, origin, row, home, age, spent, lost, lock, conn, moves, faults>>

\* No row: the grant is gone and the credential must be reconnected.  No
\* refresh token: the provider has nothing to send.
NothingToRefresh(r) ==
    /\ MayLock(r)
    /\ ~RowSuffices(r)
    /\ ~row.there \/ row.refresh = None
    /\ req' = [req EXCEPT ![r] = Ended(None)]
    /\ UNCHANGED <<exists, origin, row, home, age, spent, lost, lock, conn, moves, faults>>

\* Mutant: the token of the resolved snapshot is sent.
TokenToSendResolved(r) == IF req[r].snap.there THEN req[r].snap.refresh ELSE row.refresh

\* The refresh token to send is the one of the row read under the lock.
TokenToSend(r) == row.refresh

BeginRefresh(r) ==
    /\ MayLock(r)
    /\ row.there
    /\ row.refresh # None
    /\ ~RowSuffices(r)
    /\ lock' = r
    /\ req' = [req EXCEPT ![r].pc = "calling", ![r].token = TokenToSend(r)]
    /\ UNCHANGED <<exists, origin, row, home, age, spent, lost, conn, moves, faults>>

\* The wait for the lock is abandoned (SQLite's busy timeout).
LockTimesOut(r) ==
    /\ req[r].pc = "resolved"
    /\ ~Fresh(req[r].snap.access)
    /\ ~LockFree
    /\ req' = [req EXCEPT ![r] = Ended(None)]
    /\ UNCHANGED <<exists, origin, row, home, age, spent, lost, lock, conn, moves, faults>>

\* Mutant: the lock outlives a transaction that fails.
RollbackKeepsLock(r) ==
    /\ lock' = lock
    /\ req' = [req EXCEPT ![r] = Ended(None)]

\* The end of a refresh's transaction without a commit.
Rollback(r) ==
    /\ lock' = NoOne
    /\ req' = [req EXCEPT ![r] = Ended(None)]

\* The provider reads the client configuration in a session of its own and
\* posts the refresh token to the endpoint it finds there.
Send(r) ==
    /\ req[r].pc = "calling"
    /\ exists
    /\ req' = [req EXCEPT ![r].pc = "sent", ![r].dest = origin]
    /\ UNCHANGED <<exists, origin, row, home, age, spent, lost, lock, conn, moves, faults>>

\* The credential was deleted under the refresh.
ConfigGone(r) ==
    /\ req[r].pc = "calling"
    /\ ~exists
    /\ Rollback(r)
    /\ UNCHANGED <<exists, origin, row, home, age, spent, lost, conn, moves, faults>>

\* The vendor at an origin issues one more response; the access token may live
\* shorter than the skew.
Issue(o, newAge) ==
    /\ Len(home) < MaxIssued
    /\ home' = Append(home, o)
    /\ age' = Append(age, newAge)

\* The number of the response being issued.
Newest == Len(home) + 1

\* A vendor honours a live refresh token of its own.
Honoured(r) == req[r].token \notin spent /\ home[req[r].token] = req[r].dest

\* The vendor answers, rotating the refresh token or leaving it.
Answer(r, newAge, rotates) ==
    /\ req[r].pc = "sent"
    /\ Honoured(r)
    /\ Issue(req[r].dest, newAge)
    /\ spent' = IF rotates THEN spent \cup {req[r].token} ELSE spent
    /\ req' = [req EXCEPT ![r].pc = "answered", ![r].access = Newest,
                          ![r].refresh = IF rotates THEN Newest ELSE None]
    /\ UNCHANGED <<exists, origin, row, lost, lock, conn, moves, faults>>

\* invalid_grant: the token is spent, or the user withdrew the grant.
Refuse(r) ==
    /\ req[r].pc = "sent"
    /\ Rollback(r)
    /\ UNCHANGED <<exists, origin, row, home, age, spent, lost, conn, moves, faults>>

\* The call times out; the vendor may have rotated the token all the same.
VendorSilent(r, rotated) ==
    /\ req[r].pc = "sent"
    /\ faults < MaxFaults
    /\ rotated => Honoured(r)
    /\ Rollback(r)
    /\ spent' = IF rotated THEN spent \cup {req[r].token} ELSE spent
    /\ lost' = IF rotated THEN lost \cup {req[r].token} ELSE lost
    /\ faults' = faults + 1
    /\ UNCHANGED <<exists, origin, row, home, age, conn, moves>>

\* The refresh stores what it was given and commits; the row may be gone.
WriteRow(r) == row' = IF row.there THEN Updated(req[r].access, req[r].refresh) ELSE row

Commit(r) ==
    /\ req[r].pc = "answered"
    /\ WriteRow(r)
    /\ lock' = NoOne
    /\ req' = [req EXCEPT ![r] = Ended(req[r].access)]
    /\ UNCHANGED <<exists, origin, home, age, spent, lost, conn, moves, faults>>

\* The commit is lost, or the process dies: the row keeps the old token, whose
\* successor is lost if the vendor rotated it.
CommitFails(r) ==
    /\ req[r].pc = "answered"
    /\ faults < MaxFaults
    /\ Rollback(r)
    /\ lost' = IF req[r].refresh = None THEN lost ELSE lost \cup {req[r].token}
    /\ faults' = faults + 1
    /\ UNCHANGED <<exists, origin, row, home, age, spent, conn, moves>>

\* The connection drops at the commit, which landed all the same.
CommitUnseen(r) ==
    /\ req[r].pc = "answered"
    /\ faults < MaxFaults
    /\ WriteRow(r)
    /\ Rollback(r)
    /\ faults' = faults + 1
    /\ UNCHANGED <<exists, origin, home, age, spent, lost, conn, moves>>

----------------------------------------------------------------------------
(* A connect flow's completion. *)

\* The provider reads the client configuration for the exchange.
BeginExchange(c) ==
    /\ conn[c].pc = "idle"
    /\ exists
    /\ conn' = [conn EXCEPT ![c].pc = "exchanging", ![c].at = origin]
    /\ UNCHANGED <<exists, origin, row, home, age, spent, lost, lock, req, moves, faults>>

\* The code is exchanged, outside any transaction.
Exchange(c, newAge, refreshes) ==
    /\ conn[c].pc = "exchanging"
    /\ Issue(conn[c].at, newAge)
    /\ conn' = [conn EXCEPT ![c].pc = "granted", ![c].access = Newest,
                            ![c].refresh = IF refreshes THEN Newest ELSE None]
    /\ UNCHANGED <<exists, origin, row, spent, lost, lock, req, moves, faults>>

ExchangeFails(c) ==
    /\ conn[c].pc = "exchanging"
    /\ conn' = [conn EXCEPT ![c] = Finished("failed")]
    /\ UNCHANGED <<exists, origin, row, home, age, spent, lost, lock, req, moves, faults>>

\* Mutant: the endpoint is not read again under the lock.
KeepsAnyway(c) == TRUE

\* minted_at_current_origin, read under the lock.
Keeps(c) == conn[c].at = origin

\* The token write: under the lock, and discarded when the endpoint moved
\* while the code was being exchanged or the credential is gone.
Store(c) ==
    /\ conn[c].pc = "granted"
    /\ LockFree
    /\ IF exists /\ Keeps(c)
       THEN /\ row' = IF row.there THEN Updated(conn[c].access, conn[c].refresh)
                      ELSE Stored(conn[c].access, conn[c].refresh)
            /\ conn' = [conn EXCEPT ![c] = Finished("connected")]
       ELSE /\ conn' = [conn EXCEPT ![c] = Finished("failed")]
            /\ UNCHANGED row
    /\ UNCHANGED <<exists, origin, home, age, spent, lost, lock, req, moves, faults>>

----------------------------------------------------------------------------
(* Operators of the credential. *)

\* A token_url edit to another origin, with client_secret: under the lock, and
\* it drops the grant.
MoveEndpoint(o) ==
    /\ exists
    /\ LockFree
    /\ moves < MaxMoves
    /\ o # origin
    /\ origin' = o
    /\ row' = NoRow
    /\ moves' = moves + 1
    /\ UNCHANGED <<exists, home, age, spent, lost, lock, req, conn, faults>>

\* Deleting the credential cascades to its token row and takes no lock.
DeleteCredential ==
    /\ exists
    /\ exists' = FALSE
    /\ row' = NoRow
    /\ UNCHANGED <<origin, home, age, spent, lost, lock, req, conn, moves, faults>>

\* Time passes for one access token.
Grow(a) ==
    /\ age[a] < 2
    /\ age' = [age EXCEPT ![a] = @ + 1]
    /\ UNCHANGED <<exists, origin, row, home, spent, lost, lock, req, conn, moves, faults>>

----------------------------------------------------------------------------

RequestStep(r) ==
    \/ UseResolved(r) \/ UseRow(r) \/ NothingToRefresh(r) \/ BeginRefresh(r)
    \/ Send(r) \/ ConfigGone(r)
    \/ \E newAge \in {0, 1}, rotates \in BOOLEAN : Answer(r, newAge, rotates)
    \/ Refuse(r)
    \/ Commit(r)

Next ==
    \/ \E r \in Requests :
         \/ Resolve(r)
         \/ RequestStep(r)
         \/ LockTimesOut(r)
         \/ \E rotated \in BOOLEAN : VendorSilent(r, rotated)
         \/ CommitFails(r) \/ CommitUnseen(r)
    \/ \E c \in Connects :
         \/ BeginExchange(c)
         \/ \E newAge \in {0, 1}, refreshes \in BOOLEAN : Exchange(c, newAge, refreshes)
         \/ ExchangeFails(c)
         \/ Store(c)
    \/ \E o \in Origins : MoveEndpoint(o)
    \/ DeleteCredential
    \/ \E a \in Tokens : Grow(a)

Spec == Init /\ [][Next]_vars

\* A broker call keeps running until it ends: its task is scheduled, the
\* vendor's call is bounded by the HTTP client's timeout, and a transaction
\* that ends gives the lock to a waiter.
FairSpec == Spec /\ \A r \in Requests : WF_vars(RequestStep(r))

----------------------------------------------------------------------------
(* Properties. *)

Row(tokens) ==
    [there: {TRUE}, access: tokens, refresh: tokens \cup {None}] \cup {NoRow}

TypeOK ==
    /\ exists \in BOOLEAN
    /\ origin \in Origins
    /\ home \in Seq(Origins)
    /\ age \in [Tokens -> 0 .. 2]
    /\ row \in Row(Tokens)
    /\ spent \subseteq Tokens
    /\ lost \subseteq Tokens
    /\ lock \in Requests \cup {NoOne}
    /\ req \in [Requests ->
         [pc: {"idle", "resolved", "calling", "sent", "answered", "done", "failed"},
          snap: Row(Tokens), token: Tokens \cup {None}, dest: Origins,
          access: Tokens \cup {None}, refresh: Tokens \cup {None}]]
    /\ conn \in [Connects ->
         [pc: {"idle", "exchanging", "granted", "connected", "failed"},
          at: Origins, access: Tokens \cup {None}, refresh: Tokens \cup {None}]]
    /\ moves \in 0 .. MaxMoves
    /\ faults \in 0 .. MaxFaults

\* A refresh token is posted only to the origin that issued it: whatever edits,
\* reconnects and refreshes interleave, the grant of the old endpoint is never
\* presented to the new one (credentials/service.py, update; token_endpoint.py).
RefreshStaysHome ==
    \A r \in Requests : req[r].pc = "sent" => home[req[r].token] = req[r].dest

\* A refresh sends a token the vendor has already rotated out only when the
\* answer that replaced it was lost with its commit (refresh.py, _refresh_locked:
\* the row read under the lock is authoritative for the token that is sent).
ReplaysOnlyAfterLoss ==
    \A r \in Requests :
        req[r].pc = "sent" /\ req[r].token \in spent => req[r].token \in lost

\* While the vendor is asked, nobody replaces the grant: the answer is stored
\* over the token it came from, never over a reconnect's newer grant.
AnswerExtendsItsGrant ==
    \A r \in Requests :
        req[r].pc \in {"calling", "sent", "answered"} /\ row.there => row.refresh = req[r].token

\* Every broker call that needs the token ends, with a token or an error: no
\* failed refresh leaves the lock held.
CallsEnd == \A r \in Requests : req[r].pc = "resolved" ~> req[r].pc \in {"done", "failed"}

=============================================================================
