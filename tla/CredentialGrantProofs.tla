------------------------ MODULE CredentialGrantProofs ------------------------
(***************************************************************************)
(* The safety properties of CredentialGrant for any number of broker       *)
(* calls, connect flows, endpoints and vendor responses.                   *)
(*                                                                         *)
(* Holder says what the lock is for: the one call that has the row's token *)
(* out, and that the row still names that token.  AtHome says the stored   *)
(* grant belongs to the current endpoint, Unspent that a token not yet in  *)
(* the row is live and known to nobody else, Replayable that a stored      *)
(* token the vendor has rotated out is one whose successor was lost or is  *)
(* about to be stored.                                                     *)
(***************************************************************************)
EXTENDS CredentialGrant, TLAPS

\* The states of a call that has the lock.
Out == {"calling", "sent", "answered"}

\* The call that has the lock, what it took from the row and what it got.
Holder ==
    \A r \in Requests :
        /\ req[r].pc \in Out => lock = r /\ req[r].token \in Tokens
        /\ req[r].pc \in Out /\ row.there => row.refresh = req[r].token
        /\ req[r].pc \in Out => home[req[r].token] = origin
        /\ req[r].pc \in {"sent", "answered"} => req[r].dest = origin
        /\ req[r].pc = "answered" => req[r].access \in Tokens

\* The stored refresh token was issued by the current endpoint; so was what a
\* refresh is about to store, and what a connect stores if its endpoint stays.
AtHome ==
    /\ row.refresh # None => home[row.refresh] = origin
    /\ \A r \in Requests :
         req[r].pc = "answered" /\ req[r].refresh # None => home[req[r].refresh] = origin
    /\ \A c \in Connects :
         conn[c].pc = "granted" =>
            /\ conn[c].access \in Tokens
            /\ conn[c].refresh # None => home[conn[c].refresh] = conn[c].at

\* A refresh token on its way to the row is live and nobody else has it.
Unspent ==
    /\ \A r \in Requests :
         req[r].pc = "answered" /\ req[r].refresh # None => req[r].refresh \notin spent
    /\ \A c \in Connects :
         conn[c].pc = "granted" /\ conn[c].refresh # None =>
            /\ conn[c].refresh \notin spent
            /\ conn[c].refresh # row.refresh
            /\ \A r \in Requests :
                 /\ req[r].pc \in Out => req[r].token # conn[c].refresh
                 /\ req[r].pc = "answered" => req[r].refresh # conn[c].refresh
            /\ \A d \in Connects :
                 conn[d].pc = "granted" /\ conn[d].refresh = conn[c].refresh => d = c

\* A rotated-out token that is stored or being sent lost its successor, or the
\* call that has its successor is about to store it.
Replayable ==
    /\ row.refresh \in spent \ lost =>
         \E r \in Requests : req[r].pc = "answered" /\ req[r].token = row.refresh
    /\ \A r \in Requests :
         /\ req[r].pc \in {"calling", "sent"} => req[r].token \notin spent \ lost
         /\ req[r].pc = "answered" /\ req[r].refresh = None => req[r].token \notin spent \ lost

\* The inductive invariant.
GrantInv == TypeOK /\ Holder /\ AtHome /\ Unspent /\ Replayable

-----------------------------------------------------------------------------
(* Shapes. *)

Call(tokens) ==
    [pc: {"idle", "resolved", "calling", "sent", "answered", "done", "failed"},
     snap: Row(tokens), token: tokens \cup {None}, dest: Origins,
     access: tokens \cup {None}, refresh: tokens \cup {None}]

Flow(tokens) ==
    [pc: {"idle", "exchanging", "granted", "connected", "failed"},
     at: Origins, access: tokens \cup {None}, refresh: tokens \cup {None}]

\* The records a call or a flow starts and ends with.
LEMMA Shapes ==
    /\ Resting \in Call({}) /\ Resting.pc = "idle"
    /\ Unconnected \in Flow({}) /\ Unconnected.pc = "idle"
<1>. (CHOOSE o \in Origins : TRUE) \in Origins
  BY GrantAssumption
<1>. QED
  BY DEF Resting, Unconnected, Call, Flow, Row, NoRow, None

\* More tokens, more records.
LEMMA Wider ==
    ASSUME NEW S, NEW T, S \subseteq T
    PROVE  Row(S) \subseteq Row(T) /\ Call(S) \subseteq Call(T) /\ Flow(S) \subseteq Flow(T)
<1>1. Row(S) \subseteq Row(T)
  BY DEF Row
<1>2. Call(S) \subseteq Call(T)
  BY <1>1 DEF Call
<1>3. Flow(S) \subseteq Flow(T)
  BY DEF Flow
<1>. QED
  BY <1>1, <1>2, <1>3

\* The fields of a token row.
LEMMA RowFields ==
    ASSUME NEW T, NEW w \in Row(T)
    PROVE  /\ w.refresh \in T \cup {None}
           /\ w.access \in T \cup {None}
           /\ w = NoRow \/ (w.there /\ w.access \in T)
<1>1. CASE w = NoRow
  BY <1>1 DEF NoRow
<1>2. CASE w \in [there: {TRUE}, access: T, refresh: T \cup {None}]
  <2>1. w.there \in {TRUE}
    BY <1>2, Zenon
  <2>2. w.there
    BY <2>1, Zenon
  <2>. QED
    BY <1>2, <2>2
<1>. QED
  BY <1>1, <1>2 DEF Row

\* What a finished call and a finished flow look like.
LEMMA Finishes ==
    /\ \A a \in Tokens \cup {None} :
         Ended(a) \in Call(Tokens) /\ Ended(a).pc \in {"done", "failed"}
    /\ \A how \in {"connected", "failed"} :
         Finished(how) \in Flow(Tokens) /\ Finished(how).pc = how
<1>1. Resting \in Call(Tokens) /\ Unconnected \in Flow(Tokens)
  BY Shapes, Wider
<1>. QED
  BY <1>1 DEF Ended, Finished, Call, Flow

\* TypeOK with the records named.
LEMMA Types ==
    TypeOK <=> /\ exists \in BOOLEAN
               /\ origin \in Origins
               /\ home \in Seq(Origins)
               /\ age \in [Tokens -> 0 .. 2]
               /\ row \in Row(Tokens)
               /\ spent \subseteq Tokens
               /\ lost \subseteq Tokens
               /\ lock \in Requests \cup {NoOne}
               /\ req \in [Requests -> Call(Tokens)]
               /\ conn \in [Connects -> Flow(Tokens)]
               /\ moves \in 0 .. MaxMoves
               /\ faults \in 0 .. MaxFaults
BY DEF TypeOK, Call, Flow

\* A response the vendor issues is a new one; the others keep their origin.
LEMMA Issues ==
    ASSUME TypeOK, NEW o \in Origins, NEW g \in {0, 1}, Issue(o, g)
    PROVE  /\ home' \in Seq(Origins)
           /\ Tokens' = Tokens \cup {Newest}
           /\ Newest \notin Tokens /\ Newest # None
           /\ \A t \in Tokens : home'[t] = home[t]
           /\ home'[Newest] = o
           /\ age' \in [Tokens' -> 0 .. 2]
<1>1. home \in Seq(Origins) /\ home' = Append(home, o) /\ Len(home) \in Nat
  BY DEF TypeOK, Issue
<1>2. /\ home' \in Seq(Origins) /\ Len(home') = Newest
      /\ \A t \in Tokens : home'[t] = home[t]
      /\ home'[Newest] = o
  BY <1>1 DEF Newest, Tokens
<1>3. Tokens' = Tokens \cup {Newest} /\ Newest \notin Tokens /\ Newest # None
  BY <1>1, <1>2 DEF Newest, Tokens, None
<1>4. age \in Seq(0 .. 2) /\ Len(age) = Len(home)
  BY <1>1, SMTT(30) DEF TypeOK, Tokens
<1>5. age' = Append(age, g) /\ g \in 0 .. 2
  BY DEF Issue
<1>6. age' \in Seq(0 .. 2) /\ Len(age') = Newest
  BY <1>4, <1>5 DEF Newest
<1>7. age' \in [Tokens' -> 0 .. 2]
  BY <1>6, <1>2 DEF Tokens
<1>. QED
  BY <1>2, <1>3, <1>7

\* One call at most has the lock.
LEMMA OneHolder ==
    ASSUME Holder, NEW r \in Requests, NEW s \in Requests,
           req[r].pc \in Out, req[s].pc \in Out
    PROVE  r = s
BY DEF Holder

-----------------------------------------------------------------------------
(* A broker call's steps. *)

\* A call without the lock goes on without it.
LEMMA QuietCall ==
    ASSUME GrantInv, NEW r \in Requests, NEW q \in Call(Tokens),
           req[r].pc \notin Out, q.pc \notin Out,
           req' = [req EXCEPT ![r] = q],
           UNCHANGED <<exists, origin, row, home, age, spent, lost, lock, conn, moves, faults>>
    PROVE  GrantInv'
<1>1. req \in [Requests -> Call(Tokens)] /\ Tokens' = Tokens
  BY Types DEF GrantInv, Tokens
<1>2. TypeOK'
  BY <1>1, Types DEF GrantInv, TypeOK, Call, Flow
<1>3. \A s \in Requests : req'[s].pc \in Out => s # r /\ req'[s] = req[s]
  BY <1>1
<1>4. \A s \in Requests : req[s].pc \in Out => req'[s] = req[s]
  BY <1>1
<1>5. Holder'
  BY <1>1, <1>3 DEF GrantInv, Holder, Out
<1>6. AtHome'
  BY <1>1, <1>3 DEF GrantInv, AtHome, Out
<1>7. Unspent'
  BY <1>3 DEF GrantInv, Unspent, Out
<1>8. Replayable'
  BY <1>3, <1>4 DEF GrantInv, Replayable, Out
<1>. QED
  BY <1>2, <1>5, <1>6, <1>7, <1>8 DEF GrantInv

\* A refresh that ends without a commit: its token stays in the row, and is
\* lost if the vendor has replaced it.
LEMMA RolledBack ==
    ASSUME GrantInv, NEW r \in Requests, req[r].pc \in Out, Rollback(r),
           lost' \in {lost, lost \cup {req[r].token}},
           spent' = spent \/ (spent' = spent \cup {req[r].token} /\ req[r].token \in lost'),
           req[r].pc = "answered" /\ req[r].refresh # None => req[r].token \in lost',
           faults' \in 0 .. MaxFaults,
           UNCHANGED <<exists, origin, row, home, age, conn, moves>>
    PROVE  GrantInv'
<1>1. req \in [Requests -> Call(Tokens)] /\ Tokens' = Tokens /\ req[r].token \in Tokens
  BY Types DEF GrantInv, Tokens, Holder
<1>2. /\ Ended(None) \in Call(Tokens) /\ Ended(None).pc \notin Out
      /\ req' = [req EXCEPT ![r] = Ended(None)]
  BY Finishes DEF Out, Rollback
<1>3. TypeOK'
  BY <1>1, <1>2, Types DEF GrantInv, TypeOK, Rollback, Call, Flow
<1>4. \A s \in Requests : req'[s].pc \notin Out
  BY <1>1, <1>2, OneHolder DEF GrantInv
<1>5. Holder'
  BY <1>4 DEF Holder, Out
<1>6. AtHome'
  BY <1>1, <1>4 DEF GrantInv, AtHome, Out
<1>7. Unspent'
  BY <1>4 DEF GrantInv, Unspent, Out
<1>8. row.refresh \notin spent' \ lost'
  <2>1. CASE row.refresh \in spent \ lost
    <3>1. PICK s \in Requests : req[s].pc = "answered" /\ req[s].token = row.refresh
      BY <2>1 DEF GrantInv, Replayable
    <3>2. s = r
      BY <3>1, OneHolder DEF GrantInv, Out
    <3>3. req[r].refresh # None
      BY <2>1, <3>1, <3>2 DEF GrantInv, Replayable
    <3>. QED
      BY <3>1, <3>2, <3>3
  <2>2. CASE row.refresh \notin spent \ lost
    BY <2>2
  <2>. QED
    BY <2>1, <2>2
<1>9. Replayable'
  BY <1>4, <1>8 DEF Replayable, Out
<1>. QED
  BY <1>3, <1>5, <1>6, <1>7, <1>9 DEF GrantInv

\* The refresh takes the row's token under the lock.
LEMMA BeginStep ==
    ASSUME GrantInv, NEW r \in Requests, BeginRefresh(r)
    PROVE  GrantInv'
<1>. DEFINE q == [req[r] EXCEPT !.pc = "calling", !.token = row.refresh]
<1>1. req \in [Requests -> Call(Tokens)] /\ Tokens' = Tokens /\ row \in Row(Tokens)
  BY Types DEF GrantInv, BeginRefresh, Tokens
<1>2. row.refresh \in Tokens
  BY <1>1, RowFields DEF BeginRefresh
<1>3. /\ req' = [req EXCEPT ![r] = q]
      /\ q \in Call(Tokens) /\ q.pc = "calling" /\ q.token = row.refresh
  BY <1>1, <1>2 DEF BeginRefresh, TokenToSend, Call
<1>. HIDE DEF q
<1>4. TypeOK'
  <2>1. req' \in [Requests -> Call(Tokens)] /\ lock' = r
    BY <1>1, <1>3 DEF BeginRefresh
  <2>. QED
    BY <1>1, <2>1 DEF GrantInv, TypeOK, BeginRefresh, Call, Flow
<1>5. \A s \in Requests : req[s].pc \notin Out
  BY GrantAssumption DEF GrantInv, Holder, BeginRefresh, MayLock, LockFree
<1>6. \A s \in Requests : req'[s].pc \in Out => s = r /\ req'[s] = q
  BY <1>1, <1>3, <1>5
<1>7. req'[r] = q
  BY <1>1, <1>3
<1>8. Holder'
  BY <1>1, <1>2, <1>3, <1>6 DEF GrantInv, Holder, AtHome, BeginRefresh, Out, None
<1>9. AtHome'
  BY <1>1, <1>3, <1>6 DEF GrantInv, AtHome, BeginRefresh, Out
<1>10. row.refresh \notin spent \ lost
  BY <1>5 DEF GrantInv, Replayable, Out
<1>11. Replayable'
  BY <1>3, <1>6, <1>10 DEF Replayable, BeginRefresh, Out
<1>12. \A s \in Requests : req'[s].pc # "answered"
  BY <1>3, <1>6 DEF Out
<1>u. UNCHANGED <<row, spent, conn>>
  BY DEF BeginRefresh
<1>13. Unspent'
  BY <1>u, <1>3, <1>6, <1>12 DEF GrantInv, Unspent
<1>. QED
  BY <1>4, <1>8, <1>9, <1>11, <1>13 DEF GrantInv

\* The provider posts the token to the endpoint it reads, which the lock
\* has kept where it was.
LEMMA SendStep ==
    ASSUME GrantInv, NEW r \in Requests, Send(r)
    PROVE  GrantInv'
<1>. DEFINE q == [req[r] EXCEPT !.pc = "sent", !.dest = origin]
<1>1. req \in [Requests -> Call(Tokens)] /\ Tokens' = Tokens /\ origin \in Origins
  BY Types DEF GrantInv, Send, Tokens
<1>2. /\ req' = [req EXCEPT ![r] = q]
      /\ q \in Call(Tokens) /\ q.pc = "sent" /\ q.token = req[r].token /\ q.dest = origin
  BY <1>1 DEF Send, Call
<1>3. req[r].pc = "calling"
  BY DEF Send
<1>. HIDE DEF q
<1>u. UNCHANGED <<exists, origin, row, home, age, spent, lost, lock, conn, moves, faults>>
  BY DEF Send
<1>4. TypeOK'
  <2>1. req' \in [Requests -> Call(Tokens)]
    BY <1>1, <1>2
  <2>. QED
    BY <1>1, <1>u, <2>1 DEF GrantInv, TypeOK, Call, Flow
<1>5. \A s \in Requests : req'[s].pc \in Out => s = r /\ req'[s] = q
  BY <1>1, <1>2, <1>3, OneHolder DEF GrantInv, Out
<1>6. \A s \in Requests : req[s].pc # "answered" /\ req'[s].pc # "answered"
  BY <1>2, <1>3, <1>5, OneHolder DEF GrantInv, Out
<1>7. Holder'
  BY <1>1, <1>2, <1>3, <1>u, <1>5 DEF GrantInv, Holder, Out
<1>8. AtHome'
  BY <1>1, <1>6, <1>u DEF GrantInv, AtHome
<1>9. Unspent'
  BY <1>2, <1>3, <1>5, <1>6, <1>u DEF GrantInv, Unspent, Out
<1>10. Replayable'
  BY <1>2, <1>3, <1>5, <1>6, <1>u DEF GrantInv, Replayable, Out
<1>. QED
  BY <1>4, <1>7, <1>8, <1>9, <1>10 DEF GrantInv

\* The vendor's answer carries a new token, or leaves the old one live.
LEMMA AnswerStep ==
    ASSUME GrantInv, NEW r \in Requests, NEW g \in {0, 1}, NEW rotates \in BOOLEAN,
           Answer(r, g, rotates)
    PROVE  GrantInv'
<1>. DEFINE n == IF rotates THEN Newest ELSE None
            q == [req[r] EXCEPT !.pc = "answered", !.access = Newest, !.refresh = n]
<1>1. /\ req \in [Requests -> Call(Tokens)] /\ req[r].pc = "sent"
      /\ req[r].token \in Tokens /\ req[r].dest = origin /\ origin \in Origins
      /\ row \in Row(Tokens) /\ conn \in [Connects -> Flow(Tokens)]
      /\ spent \subseteq Tokens /\ lost \subseteq Tokens
  BY Types DEF GrantInv, Answer, Holder, Out
<1>2. /\ home' \in Seq(Origins) /\ age' \in [Tokens' -> 0 .. 2]
      /\ Tokens' = Tokens \cup {Newest} /\ Newest \notin Tokens /\ Newest # None
      /\ \A t \in Tokens : home'[t] = home[t]
      /\ home'[Newest] = origin
  <2>1. Issue(origin, g)
    BY <1>1 DEF Answer
  <2>. QED
    BY <1>1, <2>1, Issues DEF GrantInv
<1>3. /\ row \in Row(Tokens') /\ req \in [Requests -> Call(Tokens')]
      /\ conn \in [Connects -> Flow(Tokens')]
  BY <1>1, <1>2, Wider
<1>n. n \in {Newest, None}
  OBVIOUS
<1>4. /\ req' = [req EXCEPT ![r] = q]
      /\ q \in Call(Tokens') /\ q.pc = "answered" /\ q.token = req[r].token
      /\ q.dest = origin /\ q.access = Newest /\ q.refresh = n
  BY <1>1, <1>2, <1>3 DEF Answer, Call
<1>5. spent' = spent \/ (spent' = spent \cup {req[r].token} /\ n # None)
  BY <1>2 DEF Answer
<1>. HIDE DEF q, n
<1>u. UNCHANGED <<exists, origin, row, lost, lock, conn, moves, faults>>
  BY DEF Answer
<1>6. TypeOK'
  <2>1. req' \in [Requests -> Call(Tokens')]
    BY <1>3, <1>4
  <2>. QED
    BY <1>1, <1>2, <1>3, <1>5, <1>u, <2>1 DEF GrantInv, TypeOK, Call, Flow
<1>7. \A s \in Requests : req'[s].pc \in Out => s = r /\ req'[s] = q
  BY <1>1, <1>4, OneHolder DEF GrantInv, Out
<1>8. Holder'
  BY <1>1, <1>2, <1>4, <1>u, <1>7 DEF GrantInv, Holder, Out
<1>r. row.refresh \in Tokens \cup {None} /\ \A c \in Connects : conn[c].refresh \in Tokens \cup {None}
  BY <1>1, RowFields DEF Flow
<1>9. AtHome'
  <2>1. row.refresh # None => home'[row.refresh] = origin
    BY <1>2, <1>r DEF GrantInv, AtHome
  <2>2. \A c \in Connects : conn[c].pc = "granted" =>
           /\ conn[c].access \in Tokens'
           /\ conn[c].refresh # None => home'[conn[c].refresh] = conn[c].at
    BY <1>2, <1>r DEF GrantInv, AtHome
  <2>3. q.refresh # None => home'[q.refresh] = origin
    BY <1>2, <1>4, <1>n
  <2>. QED
    BY <2>1, <2>2, <2>3, <1>u, <1>7 DEF AtHome, Out
<1>10. Unspent'
  <2>1. q.refresh # None => q.refresh \notin spent'
    BY <1>1, <1>2, <1>4, <1>5, <1>n
  <2>2. \A c \in Connects : conn[c].pc = "granted" /\ conn[c].refresh # None =>
           /\ conn[c].refresh \notin spent'
           /\ q.token # conn[c].refresh /\ q.refresh # conn[c].refresh
    BY <1>1, <1>2, <1>4, <1>5, <1>n, <1>r DEF GrantInv, Unspent, Out
  <2>. QED
    BY <2>1, <2>2, <1>u, <1>7 DEF GrantInv, Unspent, Out
<1>11. Replayable'
  <2>1. row.refresh \in spent \ lost => FALSE
    BY <1>1, OneHolder DEF GrantInv, Replayable, Out
  <2>2. req'[r] = q /\ req[r].token \notin spent \ lost
    BY <1>1, <1>4 DEF GrantInv, Replayable
  <2>. QED
    BY <2>1, <2>2, <1>4, <1>5, <1>7, <1>u DEF Replayable, Out
<1>. QED
  BY <1>6, <1>8, <1>9, <1>10, <1>11 DEF GrantInv

\* The refresh stores its answer; the call ends with it or, when it does not
\* hear of the commit, without.
LEMMA StoreStep ==
    ASSUME GrantInv, NEW r \in Requests, NEW a \in {req[r].access, None},
           req[r].pc = "answered", WriteRow(r), lock' = NoOne,
           req' = [req EXCEPT ![r] = Ended(a)], faults' \in 0 .. MaxFaults,
           UNCHANGED <<exists, origin, home, age, spent, lost, conn, moves>>
    PROVE  GrantInv'
<1>1. /\ req \in [Requests -> Call(Tokens)] /\ Tokens' = Tokens /\ row \in Row(Tokens)
      /\ req[r].access \in Tokens /\ req[r].refresh \in Tokens \cup {None}
      /\ req[r].token \in Tokens
  BY Types DEF GrantInv, Tokens, Holder, Out, Call
<1>2. Ended(a) \in Call(Tokens) /\ Ended(a).pc \notin Out
  BY <1>1, Finishes DEF Out
<1>3. /\ row' \in Row(Tokens)
      /\ \/ row'.refresh = None
         \/ req[r].refresh # None /\ row'.refresh = req[r].refresh
         \/ req[r].refresh = None /\ row'.refresh = row.refresh /\ row.refresh = req[r].token
  <2>1. CASE row' = row /\ ~row.there
    <3>1. row = NoRow
      BY <2>1, <1>1, RowFields
    <3>. QED
      BY <2>1, <1>1, <3>1 DEF NoRow
  <2>2. CASE row' = Updated(req[r].access, req[r].refresh) /\ row.there
    <3>1. row.refresh = req[r].token
      BY <2>2 DEF GrantInv, Holder, Out
    <3>. QED
      BY <2>2, <3>1, <1>1, RowFields DEF Updated, Stored, Row
  <2>. QED
    BY <2>1, <2>2 DEF WriteRow
<1>4. TypeOK'
  <2>1. req' \in [Requests -> Call(Tokens)]
    BY <1>1, <1>2
  <2>. QED
    BY <1>1, <1>3, <2>1 DEF GrantInv, TypeOK, Call, Flow
<1>5. \A s \in Requests : req'[s].pc \notin Out
  BY <1>1, <1>2, OneHolder DEF GrantInv, Out
<1>6. Holder'
  BY <1>5 DEF Holder, Out
<1>7. AtHome'
  BY <1>1, <1>3, <1>5 DEF GrantInv, AtHome, Out
<1>8. Unspent'
  BY <1>3, <1>5 DEF GrantInv, Unspent, Out
<1>9. Replayable'
  <2>1. None \notin spent
    BY DEF GrantInv, TypeOK, Tokens, None
  <2>2. row'.refresh \notin spent \ lost
    BY <1>3, <2>1 DEF GrantInv, Unspent, Replayable
  <2>. QED
    BY <2>2, <1>5 DEF Replayable, Out
<1>. QED
  BY <1>4, <1>6, <1>7, <1>8, <1>9 DEF GrantInv

-----------------------------------------------------------------------------
(* A connect flow's steps, and the operators'. *)

\* A flow that has nothing to store yet, or no longer.
LEMMA QuietFlow ==
    ASSUME GrantInv, NEW c \in Connects, NEW q \in Flow(Tokens), q.pc # "granted",
           conn' = [conn EXCEPT ![c] = q],
           UNCHANGED <<exists, origin, row, home, age, spent, lost, lock, req, moves, faults>>
    PROVE  GrantInv'
<1>1. conn \in [Connects -> Flow(Tokens)] /\ Tokens' = Tokens
  BY Types DEF GrantInv, Tokens
<1>2. TypeOK'
  BY <1>1 DEF GrantInv, TypeOK, Flow
<1>3. \A d \in Connects : conn'[d].pc = "granted" => conn'[d] = conn[d]
  BY <1>1
<1>4. Holder' /\ Replayable'
  BY <1>1 DEF GrantInv, Holder, Replayable
<1>5. AtHome'
  BY <1>1, <1>3 DEF GrantInv, AtHome
<1>6. Unspent'
  BY <1>3 DEF GrantInv, Unspent
<1>. QED
  BY <1>2, <1>4, <1>5, <1>6 DEF GrantInv

\* The exchange gives the flow a token nobody else has.
LEMMA ExchangeStep ==
    ASSUME GrantInv, NEW c \in Connects, NEW g \in {0, 1}, NEW refreshes \in BOOLEAN,
           Exchange(c, g, refreshes)
    PROVE  GrantInv'
<1>. DEFINE n == IF refreshes THEN Newest ELSE None
            q == [conn[c] EXCEPT !.pc = "granted", !.access = Newest, !.refresh = n]
<1>1. /\ req \in [Requests -> Call(Tokens)] /\ conn \in [Connects -> Flow(Tokens)]
      /\ row \in Row(Tokens) /\ spent \subseteq Tokens /\ lost \subseteq Tokens
      /\ conn[c].at \in Origins
  BY Types DEF GrantInv, Flow
<1>2. /\ home' \in Seq(Origins) /\ age' \in [Tokens' -> 0 .. 2]
      /\ Tokens' = Tokens \cup {Newest} /\ Newest \notin Tokens /\ Newest # None
      /\ \A t \in Tokens : home'[t] = home[t]
      /\ home'[Newest] = conn[c].at
  <2>1. Issue(conn[c].at, g)
    BY DEF Exchange
  <2>. QED
    BY <1>1, <2>1, Issues DEF GrantInv
<1>3. /\ row \in Row(Tokens') /\ req \in [Requests -> Call(Tokens')]
      /\ conn \in [Connects -> Flow(Tokens')]
  BY <1>1, <1>2, Wider
<1>n. n \in {Newest, None}
  OBVIOUS
<1>4. /\ conn' = [conn EXCEPT ![c] = q]
      /\ q \in Flow(Tokens') /\ q.at = conn[c].at /\ q.access = Newest /\ q.refresh = n
  BY <1>1, <1>2, <1>3 DEF Exchange, Flow
<1>. HIDE DEF q, n
<1>u. UNCHANGED <<exists, origin, row, spent, lost, lock, req, moves, faults>>
  BY DEF Exchange
<1>5. TypeOK'
  <2>1. conn' \in [Connects -> Flow(Tokens')]
    BY <1>3, <1>4
  <2>. QED
    BY <1>1, <1>2, <1>3, <1>u, <2>1 DEF GrantInv, TypeOK, Call, Flow
<1>6. \A d \in Connects : conn'[d] = IF d = c THEN q ELSE conn[d]
  BY <1>1, <1>4
<1>r. /\ row.refresh \in Tokens \cup {None}
      /\ \A d \in Connects : conn[d].refresh \in Tokens \cup {None}
      /\ \A s \in Requests : req[s].refresh \in Tokens \cup {None}
      /\ \A s \in Requests : req[s].token \in Tokens \cup {None}
  BY <1>1, RowFields DEF Flow, Call
<1>7. Holder' /\ Replayable'
  BY <1>2, <1>u DEF GrantInv, Holder, Replayable
<1>8. AtHome'
  <2>1. row.refresh # None => home'[row.refresh] = origin
    BY <1>2, <1>r DEF GrantInv, AtHome
  <2>2. \A s \in Requests :
           req[s].pc = "answered" /\ req[s].refresh # None => home'[req[s].refresh] = origin
    BY <1>2, <1>r DEF GrantInv, AtHome
  <2>3. \A d \in Connects \ {c} : conn[d].pc = "granted" =>
           /\ conn[d].access \in Tokens'
           /\ conn[d].refresh # None => home'[conn[d].refresh] = conn[d].at
    BY <1>2, <1>r DEF GrantInv, AtHome
  <2>4. /\ q.access \in Tokens'
        /\ q.refresh # None => home'[q.refresh] = q.at
    BY <1>2, <1>4, <1>n
  <2>. QED
    BY <2>1, <2>2, <2>3, <2>4, <1>u, <1>6 DEF AtHome
<1>9. Unspent'
  <2>1. q.refresh # None => /\ q.refresh \notin spent
                            /\ q.refresh # row.refresh
                            /\ \A s \in Requests : req[s].token # q.refresh /\ req[s].refresh # q.refresh
                            /\ \A d \in Connects : conn[d].refresh # q.refresh
    BY <1>1, <1>2, <1>4, <1>n, <1>r
  <2>. QED
    BY <2>1, <1>u, <1>6 DEF GrantInv, Unspent
<1>. QED
  BY <1>5, <1>7, <1>8, <1>9 DEF GrantInv

\* The connect's write, which waits for the lock.
LEMMA ConnectStep ==
    ASSUME GrantInv, NEW c \in Connects, conn[c].pc = "granted", LockFree, Keeps(c),
           row' = IF row.there THEN Updated(conn[c].access, conn[c].refresh)
                  ELSE Stored(conn[c].access, conn[c].refresh),
           conn' = [conn EXCEPT ![c] = Finished("connected")],
           UNCHANGED <<exists, origin, home, age, spent, lost, lock, req, moves, faults>>
    PROVE  GrantInv'
<1>1. /\ conn \in [Connects -> Flow(Tokens)] /\ Tokens' = Tokens /\ row \in Row(Tokens)
      /\ conn[c].access \in Tokens /\ conn[c].refresh \in Tokens \cup {None}
  BY Types DEF GrantInv, Tokens, AtHome, Flow
<1>2. Finished("connected") \in Flow(Tokens) /\ Finished("connected").pc # "granted"
  BY Finishes
<1>3. /\ row' \in Row(Tokens)
      /\ row'.refresh \in {conn[c].refresh, row.refresh}
  BY <1>1, RowFields DEF Updated, Stored, Row
<1>4. TypeOK'
  <2>1. conn' \in [Connects -> Flow(Tokens)]
    BY <1>1, <1>2
  <2>. QED
    BY <1>1, <1>3, <2>1 DEF GrantInv, TypeOK, Call, Flow
<1>5. \A d \in Connects : conn'[d].pc = "granted" => d # c /\ conn'[d] = conn[d]
  BY <1>1, <1>2
<1>6. \A s \in Requests : req[s].pc \notin Out
  BY GrantAssumption DEF GrantInv, Holder, LockFree
<1>7. Holder'
  BY <1>6 DEF Holder, Out
<1>8. AtHome'
  <2>1. conn[c].refresh # None => home[conn[c].refresh] = origin
    BY DEF GrantInv, AtHome, Keeps
  <2>. QED
    BY <1>1, <1>3, <1>5, <1>6, <2>1 DEF GrantInv, AtHome, Out
<1>9. Unspent'
  BY <1>3, <1>5, <1>6 DEF GrantInv, Unspent, Out
<1>10. Replayable'
  <2>1. None \notin spent
    BY DEF GrantInv, TypeOK, Tokens, None
  <2>2. conn[c].refresh \notin spent /\ row.refresh \notin spent \ lost
    BY <2>1, <1>6 DEF GrantInv, Unspent, Replayable, Out
  <2>. QED
    BY <2>2, <1>3, <1>6 DEF Replayable, Out
<1>. QED
  BY <1>4, <1>7, <1>8, <1>9, <1>10 DEF GrantInv

\* A cross-origin edit, under the lock, or a deletion: the stored grant goes.
LEMMA DropStep ==
    ASSUME GrantInv, row' = NoRow, exists' \in BOOLEAN, origin' \in Origins,
           origin' = origin \/ LockFree, moves' \in 0 .. MaxMoves,
           UNCHANGED <<home, age, spent, lost, lock, req, conn, faults>>
    PROVE  GrantInv'
<1>1. NoRow \in Row(Tokens) /\ Tokens' = Tokens /\ NoRow.refresh = None /\ ~NoRow.there
  BY DEF Row, NoRow, Tokens
<1>2. TypeOK'
  BY <1>1 DEF GrantInv, TypeOK
<1>3. origin' = origin \/ \A s \in Requests : req[s].pc \notin Out
  BY GrantAssumption DEF GrantInv, Holder, LockFree
<1>4. Holder'
  BY <1>1, <1>3 DEF GrantInv, Holder, Out
<1>5. AtHome'
  BY <1>1, <1>3 DEF GrantInv, AtHome, Out
<1>6. Unspent'
  BY <1>1 DEF GrantInv, Unspent
<1>7. Replayable'
  <2>1. None \notin spent
    BY DEF GrantInv, TypeOK, Tokens, None
  <2>. QED
    BY <1>1, <2>1 DEF GrantInv, Replayable
<1>. QED
  BY <1>2, <1>4, <1>5, <1>6, <1>7 DEF GrantInv

-----------------------------------------------------------------------------
(* The invariant and what follows from it. *)

\* The credential starts unconnected or connected, with no call in flight.
LEMMA GrantInit ==
    ASSUME Init
    PROVE  GrantInv
<1>1. /\ req \in [Requests -> Call({})] /\ conn \in [Connects -> Flow({})]
      /\ \A r \in Requests : req[r].pc = "idle"
      /\ \A c \in Connects : conn[c].pc = "idle"
  BY Shapes DEF Init
<1>2. home \in Seq(Origins) /\ age \in [Tokens -> 0 .. 2] /\ row \in Row(Tokens)
  <2>1. CASE row = NoRow /\ home = <<>> /\ age = <<>>
    <3>1. Tokens = {}
      BY <2>1 DEF Tokens
    <3>. QED
      BY <2>1, <3>1 DEF Row
  <2>2. CASE row = Stored(1, 1) /\ home = <<origin>> /\ age = <<0>>
    <3>1. Tokens = {1} /\ origin \in Origins
      BY <2>2 DEF Tokens, Init
    <3>. QED
      BY <2>2, <3>1 DEF Row, Stored
  <2>. QED
    BY <2>1, <2>2 DEF Init
<1>3. TypeOK
  <2>1. req \in [Requests -> Call(Tokens)] /\ conn \in [Connects -> Flow(Tokens)]
    BY <1>1, Wider
  <2>2. spent \subseteq Tokens /\ lost \subseteq Tokens
    BY DEF Init
  <2>3. moves \in 0 .. MaxMoves /\ faults \in 0 .. MaxFaults
    BY GrantAssumption DEF Init
  <2>. QED
    BY <1>2, <2>1, <2>2, <2>3, Types DEF Init
<1>4. Holder /\ Unspent
  BY <1>1 DEF Holder, Unspent, Out
<1>5. AtHome
  BY <1>1 DEF Init, AtHome, NoRow, Stored, None
<1>6. Replayable
  BY <1>1 DEF Init, Replayable
<1>. QED
  BY <1>3, <1>4, <1>5, <1>6 DEF GrantInv

\* The invariant is inductive.
LEMMA GrantStep ==
    ASSUME GrantInv, [Next]_vars
    PROVE  GrantInv'
<1>t. /\ req \in [Requests -> Call(Tokens)] /\ conn \in [Connects -> Flow(Tokens)]
      /\ row \in Row(Tokens) /\ faults \in 0 .. MaxFaults /\ moves \in 0 .. MaxMoves
      /\ MaxFaults \in Nat /\ MaxMoves \in Nat
  BY Types, GrantAssumption DEF GrantInv
<1>1. ASSUME NEW r \in Requests, Resolve(r) PROVE GrantInv'
  <2>. DEFINE q == [req[r] EXCEPT !.pc = "resolved", !.snap = row]
  <2>1. q \in Call(Tokens) /\ q.pc \notin Out /\ req[r].pc \notin Out
    BY <1>1, <1>t DEF Resolve, Call, Out
  <2>2. req' = [req EXCEPT ![r] = q]
    BY <1>1, <1>t DEF Resolve
  <2>. QED
    BY <1>1, <2>1, <2>2, QuietCall DEF Resolve
<1>2. ASSUME NEW r \in Requests,
             UseResolved(r) \/ UseRow(r) \/ NothingToRefresh(r) \/ LockTimesOut(r)
      PROVE  GrantInv'
  <2>1. req[r].pc = "resolved" /\ req[r].pc \notin Out
    BY <1>2 DEF UseResolved, UseRow, NothingToRefresh, LockTimesOut, MayLock, Out
  <2>2. PICK a \in Tokens \cup {None} : req' = [req EXCEPT ![r] = Ended(a)]
    <3>1. req[r].snap.access \in Tokens \cup {None} /\ row.access \in Tokens \cup {None}
      BY <1>t, RowFields DEF Call
    <3>. QED
      BY <1>2, <3>1 DEF UseResolved, UseRow, NothingToRefresh, LockTimesOut
  <2>3. Ended(a) \in Call(Tokens) /\ Ended(a).pc \notin Out
    BY Finishes DEF Out
  <2>4. UNCHANGED <<exists, origin, row, home, age, spent, lost, lock, conn, moves, faults>>
    BY <1>2 DEF UseResolved, UseRow, NothingToRefresh, LockTimesOut
  <2>. QED
    BY <2>1, <2>2, <2>3, <2>4, QuietCall
<1>3. ASSUME NEW r \in Requests, ConfigGone(r) \/ Refuse(r) PROVE GrantInv'
  BY <1>3, <1>t, RolledBack DEF ConfigGone, Refuse, Out
<1>4. ASSUME NEW r \in Requests, NEW rotated \in BOOLEAN, VendorSilent(r, rotated)
      PROVE  GrantInv'
  <2>1. faults' \in 0 .. MaxFaults
    BY <1>4, <1>t DEF VendorSilent
  <2>. QED
    BY <1>4, <2>1, RolledBack DEF VendorSilent, Out
<1>5. ASSUME NEW r \in Requests, CommitFails(r) PROVE GrantInv'
  <2>1. faults' \in 0 .. MaxFaults
    BY <1>5, <1>t DEF CommitFails
  <2>. QED
    BY <1>5, <2>1, RolledBack DEF CommitFails, Out
<1>6. ASSUME NEW r \in Requests, Commit(r) PROVE GrantInv'
  BY <1>6, <1>t, StoreStep DEF Commit
<1>7. ASSUME NEW r \in Requests, CommitUnseen(r) PROVE GrantInv'
  <2>1. faults' \in 0 .. MaxFaults
    BY <1>7, <1>t DEF CommitUnseen
  <2>. QED
    BY <1>7, <2>1, StoreStep DEF CommitUnseen, Rollback
<1>8. ASSUME NEW c \in Connects, BeginExchange(c) PROVE GrantInv'
  <2>. DEFINE q == [conn[c] EXCEPT !.pc = "exchanging", !.at = origin]
  <2>1. origin \in Origins
    BY DEF GrantInv, TypeOK
  <2>2. q \in Flow(Tokens) /\ q.pc # "granted" /\ conn' = [conn EXCEPT ![c] = q]
    BY <1>8, <1>t, <2>1 DEF BeginExchange, Flow
  <2>. QED
    BY <1>8, <2>2, QuietFlow DEF BeginExchange
<1>9. ASSUME NEW c \in Connects, ExchangeFails(c) PROVE GrantInv'
  BY <1>9, Finishes, QuietFlow DEF ExchangeFails
<1>10. ASSUME NEW c \in Connects, Store(c) PROVE GrantInv'
  <2>1. CASE exists /\ Keeps(c)
    BY <1>10, <2>1, ConnectStep DEF Store
  <2>2. CASE ~(exists /\ Keeps(c))
    BY <1>10, <2>2, Finishes, QuietFlow DEF Store
  <2>. QED
    BY <2>1, <2>2
<1>11. ASSUME NEW o \in Origins, MoveEndpoint(o) PROVE GrantInv'
  <2>1. moves' \in 0 .. MaxMoves
    BY <1>11, <1>t DEF MoveEndpoint
  <2>2. exists' \in BOOLEAN
    BY <1>11 DEF MoveEndpoint, GrantInv, TypeOK
  <2>. QED
    BY <1>11, <2>1, <2>2, DropStep DEF MoveEndpoint
<1>12. CASE DeleteCredential
  <2>1. origin \in Origins
    BY DEF GrantInv, TypeOK
  <2>. QED
    BY <1>12, <1>t, <2>1, DropStep DEF DeleteCredential
<1>13. ASSUME NEW a \in Tokens, Grow(a) PROVE GrantInv'
  <2>1. Tokens' = Tokens /\ age' \in [Tokens -> 0 .. 2]
    BY <1>13 DEF Grow, Tokens, GrantInv, TypeOK
  <2>2. TypeOK'
    BY <1>13, <2>1 DEF Grow, GrantInv, TypeOK
  <2>. QED
    BY <1>13, <2>1, <2>2 DEF Grow, GrantInv, Holder, AtHome, Unspent, Replayable
<1>14. CASE UNCHANGED vars
  BY <1>14 DEF vars, GrantInv, TypeOK, Holder, AtHome, Unspent, Replayable, Tokens
<1>. QED
  BY <1>1, <1>2, <1>3, <1>4, <1>5, <1>6, <1>7, <1>8, <1>9, <1>10, <1>11, <1>12, <1>13, <1>14,
     BeginStep, SendStep, AnswerStep, ExchangeStep
     DEF Next, RequestStep

\* The invariant holds throughout.
THEOREM GrantInvariant == Spec => []GrantInv
<1>1. Init => GrantInv
  BY GrantInit
<1>2. GrantInv /\ [Next]_vars => GrantInv'
  BY GrantStep
<1>. QED
  BY <1>1, <1>2, PTL DEF Spec

\* The types, for any number of calls, flows, endpoints and responses.
THEOREM TypeCorrect == Spec => []TypeOK
<1>1. GrantInv => TypeOK
  BY DEF GrantInv
<1>. QED
  BY <1>1, GrantInvariant, PTL

\* No refresh token leaves the origin that issued it: the stored grant is the
\* current endpoint's and the lock keeps the endpoint where it is until the
\* call that took the token has ended (refresh.py; service.py, update).
THEOREM RefreshesStayHome == Spec => []RefreshStaysHome
<1>1. GrantInv => RefreshStaysHome
  BY DEF GrantInv, Holder, RefreshStaysHome, Out
<1>. QED
  BY <1>1, GrantInvariant, PTL

\* A spent refresh token is presented again only after its successor was lost
\* between the vendor's answer and the row (refresh.py, _refresh_locked).
THEOREM ReplaysNeedLoss == Spec => []ReplaysOnlyAfterLoss
<1>1. GrantInv => ReplaysOnlyAfterLoss
  BY DEF GrantInv, Replayable, ReplaysOnlyAfterLoss
<1>. QED
  BY <1>1, GrantInvariant, PTL

\* Whatever the vendor answers is stored over the token it answers for.
THEOREM AnswersExtend == Spec => []AnswerExtendsItsGrant
<1>1. GrantInv => AnswerExtendsItsGrant
  BY DEF GrantInv, Holder, AnswerExtendsItsGrant, Out
<1>. QED
  BY <1>1, GrantInvariant, PTL

=============================================================================
