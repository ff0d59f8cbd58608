--------------------------- MODULE InlineExecution ---------------------------
(***************************************************************************)
(* The inline path of the broker: a request with an Idempotency-Key is     *)
(* buffered, claimed, called upstream under the retry and circuit-breaker  *)
(* runners, recorded and promoted to a stored response; a request without  *)
(* one is streamed, and its record is written by a background task after   *)
(* the response (broker/web/routers/execute.py, broker/web/streaming.py,   *)
(* broker/services/idempotency.py, broker/adapters/runners/*.py).          *)
(*                                                                         *)
(* One broker process, so claims and breaker state are in one              *)
(* StateBackend, and one upstream host.  The clock counts the unit the     *)
(* TTLs are in; a request may take any time at any of its awaits.          *)
(***************************************************************************)
EXTENDS StateBackend

CONSTANTS
    Keyed,         \* requests that carry an Idempotency-Key
    Streams,       \* requests that do not, and are streamed
    Mixes,         \* sets of requests that arrive together
    Keys, Prints,
    NoKey, NoFp,   \* of a request without Idempotency-Key
    SafePrints,    \* fingerprints of requests with an idempotent HTTP method
    OtherKeys,     \* keys of requests that are not followed
    KeyOwner,      \* Keys and OtherKeys -> the caller a key belongs to
    MaxTime,       \* bound: the clock stops here
    PendingTTL, DoneTTL,
    ClaimSize, TombstoneSize, RecordSize,
    BodySizes,     \* sizes a response body takes in the store, 0 for none
    MaxResponseBytes,
    MaxAttempts,   \* of the retry runner
    Window, Cooldown, MinCalls,
    RatioNum, RatioDen,   \* failure_ratio
    PersistLimit   \* concurrent streaming persists

Requests == Keyed \cup Streams

ASSUME RequestsAssumption   == Keyed \cap Streams = {} /\ SafePrints \subseteq Prints
ASSUME ClaimCoversTombstone == TombstoneSize <= ClaimSize
ASSUME NoneAssumption       == NoKey \notin Keys /\ NoFp \notin Prints
ASSUME AttemptsAssumption   == MaxAttempts \in Nat \ {0}
ASSUME LimitsAssumption     ==
    /\ {PendingTTL, DoneTTL, Window, Cooldown, PersistLimit} \subseteq Nat
    /\ {ClaimSize, TombstoneSize, RecordSize} \cup BodySizes \subseteq Nat
    /\ {"idem", "idem-body", "cb"} \subseteq DOMAIN Budget

VARIABLES
    now,
    kv,      \* the process's StateBackend
    req,     \* each request: where its handler is
    sent,    \* history: times a request went on the wire
    guard,   \* history: until when a request's key must not run again
    task,    \* the background task of a streamed request
    event,   \* upstream.circuit_open of the refusal that holds the report claim
    permits, \* free slots of the streaming persist gate
    closed   \* the background-task registry has been drained

reqVars    == <<req, sent, guard>>
streamVars == <<task, event, permits, closed>>
vars       == <<now, kv, reqVars, streamVars>>

Init ==
    /\ now = 0 /\ kv = <<>>
    /\ \E mix \in Mixes :
         req = [r \in Requests |->
                  [pc |-> IF r \in mix THEN "new" ELSE "absent",
                   key |-> NoKey, fp |-> NoFp, tries |-> 0, ok |-> FALSE]]
    /\ sent = [r \in Requests |-> 0] /\ guard = [r \in Requests |-> 0]
    /\ task = [r \in Streams |-> "none"] /\ event = [r \in Requests |-> "none"]
    /\ permits = PersistLimit /\ closed = FALSE

Buffered(r) == r \in Keyed
Goto(r, pc) == req' = [req EXCEPT ![r].pc = pc]
Over(r, how) == req' = [req EXCEPT ![r].pc = how, ![r].tries = 0, ![r].ok = FALSE]

-----------------------------------------------------------------------------
(* Idempotency-Key claims *)

Slot(k)        == <<"idem", KeyOwner[k], k>>
BodySlot(k, f) == <<"idem-body", KeyOwner[k], <<k, f>>>>
Claim(f, r)    == [phase |-> "pending", fp |-> f, ref |-> FALSE, by |-> r]
Done(f, ref)   == [phase |-> "done", fp |-> f, ref |-> ref]

\* begin, for a key that has a live record: 409 for another fingerprint or a call
\* still in progress, else the stored response.
Verdict(k, f) ==
    LET record == kv[Slot(k)].val
    IN IF record.fp # f \/ record.phase # "done" THEN "refused" ELSE "replayed"

\* begin: the claim decides whether the request runs; a claim the store refuses
\* stops it (503).
Begin(r, k, f) ==
    LET c == SetIfAbsent(kv, Slot(k), Claim(f, r), ClaimSize, PendingTTL, now)
    IN /\ req[r].pc = "new"
       /\ kv' = c.kv
       /\ req' = [req EXCEPT ![r].key = k, ![r].fp = f,
                             ![r].pc = IF c.won THEN "admit"
                                       ELSE IF c.ok THEN Verdict(k, f) ELSE "refused"]
       /\ guard' = IF c.won THEN [guard EXCEPT ![r] = now + PendingTTL] ELSE guard
       /\ UNCHANGED <<now, sent, streamVars>>

\* complete, first half: the body under its own key, kept past the record.
StoreBody(k, f, size) ==
    IF size = 0 \/ size > MaxResponseBytes THEN [ok |-> FALSE, kv |-> kv]
    ELSE Store(kv, BodySlot(k, f), "body", size, now + DoneTTL + PendingTTL, now)

\* _release_body: an empty value on a short TTL, refused only if nothing is there.
ReleaseBody(kvx, k, f) ==
    Store(kvx, BodySlot(k, f), "released", 1, now + 1, now).kv

\* Mutant: the record refers to a body the store has refused.
PromoteDanglingRef(k, f, size) ==
    \E body \in {StoreBody(k, f, size)} :
    \E record \in {Store(body.kv, Slot(k), Done(f, size # 0), RecordSize, now + DoneTTL, now)} :
        kv' = IF record.ok THEN record.kv
              ELSE Store(record.kv, Slot(k), Done(f, FALSE), TombstoneSize, now + DoneTTL, now).kv

\* Mutant: a refused record leaves the pending claim as it is.
PromoteNoTombstone(k, f, size) ==
    \E body \in {StoreBody(k, f, size)} :
        kv' = Store(body.kv, Slot(k), Done(f, body.ok), RecordSize, now + DoneTTL, now).kv

\* complete: the record, or when it finds no room a tombstone in the claim's place.
\* An overwritten slot is not checked to be this request's claim.
Promote(k, f, size) ==
    \E body \in {StoreBody(k, f, size)} :
    \E record \in {Store(body.kv, Slot(k), Done(f, body.ok), RecordSize, now + DoneTTL, now)} :
        IF record.ok THEN kv' = record.kv
        ELSE \E freed \in {IF body.ok THEN ReleaseBody(record.kv, k, f) ELSE record.kv} :
             kv' = Store(freed, Slot(k), Done(f, FALSE), TombstoneSize, now + DoneTTL, now).kv

\* The claim of r is still the live entry of its key.
HoldsClaim(r) ==
    LET s == Slot(req[r].key)
    IN Live(kv, s, now) /\ kv[s].val = Claim(req[r].fp, r)

\* complete: the response is promoted with whatever body it has.
Complete(r) ==
    /\ \E size \in BodySizes : Promote(req[r].key, req[r].fp, size)
    /\ guard' = IF HoldsClaim(r) THEN [guard EXCEPT ![r] = now + DoneTTL] ELSE guard
    /\ Over(r, "answered")

\* Claims of other requests of the callers, filling the namespace.
OtherClaim(k) ==
    LET c == SetIfAbsent(kv, Slot(k), Claim(NoFp, "other"), ClaimSize, PendingTTL, now)
    IN /\ c.won
       /\ kv' = c.kv
       /\ UNCHANGED <<now, reqVars, streamVars>>

-----------------------------------------------------------------------------
(* Circuit breaker of the host *)

TotalKey  == <<"cb", "total", "host">>
FailKey   == <<"cb", "fail", "host">>
OpenKey   == <<"cb", "open", "host">>
ReportKey == <<"cb", "report", "host">>

\* _record: both counters live in the store, each with its own deadline; a
\* refused write skips the rest.
Record(ok) ==
    \E total \in {Incr(kv, TotalKey, 1, Window, now)} :
        IF ok \/ ~total.ok THEN kv' = total.kv
        ELSE \E fails \in {Incr(total.kv, FailKey, 1, Window, now)} :
             LET trips == /\ total.count >= MinCalls
                          /\ fails.count * RatioDen >= RatioNum * total.count
             IN kv' = IF fails.ok /\ trips
                      THEN SetIfAbsent(fails.kv, OpenKey, "open", 1, Cooldown, now).kv
                      ELSE fails.kv

\* The registry runs the task unless it is closed; the row of a stream that ends
\* is written by that task.
Deliver(r) ==
    /\ task' = [task EXCEPT ![r] = IF closed THEN "counted" ELSE "spawned"]
    /\ UNCHANGED <<permits, closed>>

\* A call ends without a response: a buffered one is recorded FAILED in the
\* request, a stream hands its outcome over.
EndsInError(r) ==
    IF Buffered(r)
    THEN req' = [req EXCEPT ![r].pc = "persist", ![r].ok = FALSE] /\ UNCHANGED <<task, permits, closed>>
    ELSE Over(r, "answered") /\ Deliver(r)

-----------------------------------------------------------------------------
(* The call *)

\* A request without a key takes the streaming path.
StartStream(r) ==
    /\ req[r].pc = "new"
    /\ Goto(r, "admit")
    /\ UNCHANGED <<now, kv, sent, guard, streamVars>>

\* Credential injection raises: the request ends with its claim in place.
InjectFails(r) ==
    /\ req[r].pc = "admit" /\ req[r].tries = 0
    /\ Over(r, "failed")
    /\ UNCHANGED <<now, kv, sent, guard, streamVars>>

\* CircuitBreakerRunner: an open latch refuses the attempt, and one refusal a
\* cooldown gets to report it.
Attempt(r) ==
    /\ req[r].pc = "admit"
    /\ IF Live(kv, OpenKey, now)
       THEN LET c == SetIfAbsent(kv, ReportKey, "open", 1, Cooldown, now)
            IN /\ kv' = c.kv
               /\ event' = IF c.won THEN [event EXCEPT ![r] = "due"] ELSE event
               /\ EndsInError(r)
       ELSE /\ req' = [req EXCEPT ![r].pc = "calling", ![r].tries = @ + 1]
            /\ kv' = Touch(kv, OpenKey, now)
            /\ UNCHANGED streamVars
    /\ UNCHANGED <<now, sent, guard>>

\* Bytes of the request are on the wire: from here on the call may have had effect.
Transmit(r) ==
    /\ req[r].pc = "calling"
    /\ Goto(r, "sent")
    /\ sent' = [sent EXCEPT ![r] = @ + 1]
    /\ UNCHANGED <<now, kv, guard, streamVars>>

\* Mutant: a keyed request is retried after it was sent, whatever its method.
MayRetryKeyed(r, presend) ==
    /\ Buffered(r)
    /\ req[r].tries < MaxAttempts

\* RetryRunner: streams are never retried, and an unsafe method not once it was sent.
MayRetry(r, presend) ==
    /\ Buffered(r)
    /\ presend \/ req[r].fp \in SafePrints
    /\ req[r].tries < MaxAttempts

\* Another attempt after the backoff, or the failure when the deadline leaves no
\* room for one.
RetryOrFail(r, presend) ==
    \/ MayRetry(r, presend) /\ Goto(r, "admit") /\ UNCHANGED <<task, permits, closed>>
    \/ EndsInError(r)

\* A connect failure counts against the host, a full local pool does not.
PreSendError(r) ==
    /\ req[r].pc = "calling"
    /\ Record(FALSE) \/ kv' = kv
    /\ RetryOrFail(r, TRUE)
    /\ UNCHANGED <<now, sent, guard, event>>

PostSendError(r) ==
    /\ req[r].pc = "sent"
    /\ Record(FALSE)
    /\ RetryOrFail(r, FALSE)
    /\ UNCHANGED <<now, sent, guard, event>>

\* The response headers: below 500 is a success to the breaker, a transient
\* status may be retried.
Respond(r, status) ==
    /\ req[r].pc = "sent"
    /\ Record(status # "server_error")
    /\ \/ /\ status \in {"throttled", "server_error"} /\ MayRetry(r, FALSE)
          /\ Goto(r, "admit")
       \/ req' = [req EXCEPT ![r].pc = IF Buffered(r) THEN "persist" ELSE "body", ![r].ok = TRUE]
    /\ UNCHANGED <<now, sent, guard, streamVars>>

\* DeadlineRunner cancels the attempt or the backoff; a shutdown cancels a stream
\* that has no headers yet.
Deadline(r) ==
    /\ req[r].pc \in {"calling", "sent"} \/ (req[r].pc = "admit" /\ req[r].tries > 0)
    /\ EndsInError(r)
    /\ UNCHANGED <<now, kv, sent, guard, event>>

\* run_execution's transaction after the call: the row and, for the refusal that
\* reports, the circuit event.  Nothing suspends between its commit and complete.
\* If it fails the request fails, whatever the upstream answered.
Persist(r) ==
    /\ req[r].pc = "persist"
    /\ \/ /\ event' = IF event[r] = "due" THEN [event EXCEPT ![r] = "tried"] ELSE event
          /\ IF req[r].ok THEN Complete(r) ELSE Over(r, "failed") /\ UNCHANGED <<kv, guard>>
       \/ /\ Over(r, "failed")
          /\ UNCHANGED <<kv, guard, event>>
    /\ UNCHANGED <<now, sent, task, permits, closed>>

-----------------------------------------------------------------------------
(* Streaming outcome *)

\* The body ends: complete, cut off, or the client has gone.
StreamEnds(r) ==
    /\ req[r].pc = "body"
    /\ Over(r, "answered")
    /\ Deliver(r)
    /\ UNCHANGED <<now, kv, sent, guard, event>>

Step(r, from, to) == task[r] = from /\ task' = [task EXCEPT ![r] = to]

\* Mutant: the event is written with the record.
TaskStartEventLast(r) ==
    /\ Step(r, "spawned", "waiting")
    /\ UNCHANGED <<now, kv, reqVars, event, permits, closed>>

\* The task's first step; a reporting refusal writes its event before anything else.
TaskStart(r) ==
    /\ Step(r, "spawned", IF event[r] = "due" THEN "reporting" ELSE "waiting")
    /\ UNCHANGED <<now, kv, reqVars, event, permits, closed>>

\* _emit_streaming_circuit_event: its own transaction, whose failure is logged.
EmitEvent(r) ==
    /\ Step(r, "reporting", "waiting")
    /\ event' = [event EXCEPT ![r] = "tried"]
    /\ UNCHANGED <<now, kv, reqVars, permits, closed>>

\* _acquire_persist_slot.
Acquire(r) ==
    /\ permits > 0
    /\ Step(r, "waiting", "writing")
    /\ permits' = permits - 1
    /\ UNCHANGED <<now, kv, reqVars, event, closed>>

AcquireTimeout(r) ==
    /\ Step(r, "waiting", "counted")
    /\ UNCHANGED <<now, kv, reqVars, event, permits, closed>>

\* Mutant: a failed write keeps its slot.
WriteLeaks(r) ==
    /\ \/ Step(r, "writing", "recorded") /\ permits' = permits + 1
       \/ Step(r, "writing", "counted") /\ UNCHANGED permits
    /\ UNCHANGED <<now, kv, reqVars, event, closed>>

\* persist_streaming_execution commits or fails; the slot is released either way.
Write(r) ==
    /\ Step(r, "writing", "recorded") \/ Step(r, "writing", "counted")
    /\ permits' = permits + 1
    /\ UNCHANGED <<now, kv, reqVars, event, closed>>

\* The task's own timeout cancels it where it waits; its event may have landed.
TaskTimeout(r) ==
    /\ task[r] \in {"reporting", "waiting", "writing"}
    /\ task' = [task EXCEPT ![r] = "counted"]
    /\ permits' = IF task[r] = "writing" THEN permits + 1 ELSE permits
    /\ event' = IF task[r] = "reporting" THEN [event EXCEPT ![r] = "tried"] ELSE event
    /\ UNCHANGED <<now, kv, reqVars, closed>>

\* drain: what still runs at its deadline is cancelled and counted by its
\* supervisor, except a task that never ran a step.  Only streams have tasks.
Drain ==
    LET writing == {r \in Streams : task[r] = "writing"}
        running == {"reporting", "waiting", "writing"}
    IN /\ ~closed /\ \E r \in Streams : req[r].pc # "absent"
       /\ closed' = TRUE
       /\ task' = [r \in Streams |-> CASE task[r] = "spawned"   -> "dropped"
                                       [] task[r] \in running   -> "counted"
                                       [] OTHER                 -> task[r]]
       /\ event' = [r \in Requests |->
                       IF r \in Streams /\ task[r] = "reporting" THEN "tried" ELSE event[r]]
       /\ permits' = permits + Cardinality(writing)
       /\ UNCHANGED <<now, kv, reqVars>>

-----------------------------------------------------------------------------

Tick  == now < MaxTime /\ now' = now + 1 /\ UNCHANGED <<kv, reqVars, streamVars>>

\* _maybe_sweep, at the start of some write.
Sweep == /\ Expired(kv, now) # {}
         /\ kv' = Drop(kv, Expired(kv, now))
         /\ UNCHANGED <<now, reqVars, streamVars>>

Statuses == {"ok", "throttled", "server_error"}

Next ==
    \/ Tick \/ Sweep \/ Drain
    \/ \E k \in OtherKeys : OtherClaim(k)
    \/ \E r \in Keyed, k \in Keys, f \in Prints : Begin(r, k, f)
    \/ \E r \in Streams : StartStream(r)
    \/ \E r \in Requests :
        \/ InjectFails(r) \/ Attempt(r) \/ Transmit(r)
        \/ PreSendError(r) \/ PostSendError(r) \/ Deadline(r)
        \/ \E s \in Statuses : Respond(r, s)
    \/ \E r \in Keyed : Persist(r)
    \/ \E r \in Streams :
        \/ StreamEnds(r) \/ TaskStart(r) \/ EmitEvent(r)
        \/ Acquire(r) \/ AcquireTimeout(r) \/ Write(r) \/ TaskTimeout(r)

Spec == Init /\ [][Next]_vars

-----------------------------------------------------------------------------
(* Properties *)

\* No budget, expiry or late completion lets a key run a second time while an
\* earlier run of it is protected: for the pending TTL from its claim, and for the
\* done TTL once it was completed with its claim still there.
KeyRunsOnceWhileGuarded ==
    [][\A r, q \in Requests :
          (/\ req[r].pc = "new" /\ req'[r].pc = "admit" /\ req'[r].key # NoKey
           /\ q # r /\ req[q].key = req'[r].key /\ sent[q] > 0)
          => now >= guard[q]]_vars

\* However the retry runner, the breaker and the deadline interleave, a request
\* whose method is not idempotent, and a stream, goes on the wire at most once.
UnsafeCallSentOnce ==
    \A r \in Requests : req[r].fp \notin SafePrints => sent[r] <= 1

\* A stored response that refers to a body has it: whatever the budgets refused,
\* released or reclaimed, and whichever request wrote the slot last.
ReplayFindsBody ==
    \A k \in Keys :
        LET s == Slot(k)
        IN Live(kv, s, now) /\ kv[s].val.ref
           => LET b == BodySlot(k, kv[s].val.fp)
              IN Live(kv, b, now) /\ kv[b].val = "body"

\* Timeouts, failed writes and the drain return every slot of the persist gate.
PermitsConserved ==
    permits + Cardinality({r \in Streams : task[r] = "writing"}) = PersistLimit

\* The only notice of an open circuit in a cooldown is not lost to the record's
\* troubles: once its task has run a step, a stream's refusal that holds the report
\* claim has had its event attempted, whatever became of the record.
ReportSurvivesBacklog ==
    \A r \in Streams : task[r] \in {"waiting", "writing", "recorded", "counted"} /\ ~closed
                        => event[r] # "due"

\* The failure ratio is over one window: the failures counted are among the calls
\* counted.
RatioOverOneWindow ==
    Live(kv, FailKey, now) => Live(kv, TotalKey, now) /\ kv[FailKey].val <= kv[TotalKey].val

=============================================================================
