--------------------------- MODULE WebhookDelivery ---------------------------
(***************************************************************************)
(* Callbacks of agent-service: the outbox table webhook_deliveries and the *)
(* dispatchers, one per process, that empty it.                            *)
(*                                                                         *)
(* A dispatcher leases a batch of due rows and works through it in order:  *)
(* it checks the API key, sends, and records the outcome. The lease is not *)
(* renewed and the statements that record an outcome do not ask who holds  *)
(* it: a dispatcher whose lease lapsed (a batch of 20 may take 200 s, the  *)
(* lease 30 s) goes on beside the one that claimed the row after it. The   *)
(* first error ends the batch and leaves the rest of it to the leases.     *)
(*                                                                         *)
(* Rows are inserted by RunQueue!FinishRun. Times are abstracted to what   *)
(* the statements test: whether next_attempt_at and locked_until passed.   *)
(***************************************************************************)
EXTENDS Naturals, Sequences, FiniteSets, Functions

CONSTANTS
    Deliveries,    \* rows of webhook_deliveries
    Keys,          \* rows of api_keys
    KeyOf,         \* the key that asked for each callback and signs it
    Dispatchers,   \* one per process
    Replies,       \* what receivers answer, a subset of AllReplies
    MaxAttempts,   \* MaxWebhookAttempts
    BatchSize,     \* rows claimed at once
    MaxClaims,     \* bound on the claims of one delivery between two resets
    MaxResets,     \* bound on explicit retries
    MaxFaults      \* bound on failed calls and stopped processes

\* "accepted" is 2xx, "gone" 410, "refused" any other status from 100 to 599 or none
\* at all, "odd" a status that the column last_status_code does not admit.
AllReplies == {"accepted", "gone", "refused", "odd"}

\* The answers that properties speak of.
Telling == {"accepted", "gone"}

ASSUME WebhookDeliveryAssumption ==
    /\ IsFiniteSet(Deliveries)
    /\ KeyOf \in [Deliveries -> Keys]
    /\ Replies \subseteq AllReplies
    /\ MaxAttempts \in Nat \ {0}
    /\ BatchSize \in Nat \ {0}
    /\ MaxClaims \in Nat
    /\ MaxResets \in Nat
    /\ MaxFaults \in Nat

VARIABLES
    (* table webhook_deliveries *)
    status,      \* "absent" before the run ends
    attempts,    \* how often the row was claimed since the last reset
    due,         \* next_attempt_at has passed
    lock,        \* locked_until: "free" (null), "held" or "lapsed"
    (* table api_keys *)
    revoked,     \* the keys with a revoked_at
    (* dispatchers *)
    batch,       \* the claimed rows still to be handled, as they were claimed
    stage,       \* what is done next with the first of them
    reply,       \* what the receiver answered
    (* history and bounds *)
    answers,     \* what the receiver answered at some time: accepted or gone
    unreadable,  \* a dispatcher could not load the key or accept the address
    resets,      \* explicit retries so far
    faults

row        == <<status, attempts, due, lock>>
dispatcher == <<batch, stage, reply>>
history    == <<answers, unreadable, resets>>
vars == <<row, revoked, dispatcher, history, faults>>

Statuses == {"absent", "pending", "delivered", "failed"}
Stages   == {"idle", "check", "reject", "send", "record"}
Items    == [id : Deliveries, attempts : Nat]

Item(d) == Head(batch[d])

KeyRevoked(m) == KeyOf[m] \in revoked

Fault == faults < MaxFaults /\ faults' = faults + 1

Init ==
    /\ status = [m \in Deliveries |-> "absent"]
    /\ attempts = [m \in Deliveries |-> 0]
    /\ due = [m \in Deliveries |-> FALSE]
    /\ lock = [m \in Deliveries |-> "free"]
    /\ revoked = {}
    /\ batch = [d \in Dispatchers |-> << >>]
    /\ stage = [d \in Dispatchers |-> "idle"]
    /\ reply = [d \in Dispatchers |-> "refused"]
    /\ answers = [m \in Deliveries |-> {}]
    /\ unreadable = [m \in Deliveries |-> FALSE]
    /\ resets = 0
    /\ faults = 0

-----------------------------------------------------------------------------
(* The statements of queries/async.sql.                                    *)

\* Mutant: the update does not ask for a pending row.
SettleAny(m, final) ==
    /\ status' = [status EXCEPT ![m] = final]
    /\ due' = [due EXCEPT ![m] = FALSE]
    /\ lock' = [lock EXCEPT ![m] = "free"]
    /\ UNCHANGED attempts

\* MarkWebhookDelivered and MarkWebhookFailed end the automatic attempts.
Settle(m, final) ==
    /\ status[m] = "pending"
    /\ status' = [status EXCEPT ![m] = final]
    /\ due' = [due EXCEPT ![m] = FALSE]
    /\ lock' = [lock EXCEPT ![m] = "free"]
    /\ UNCHANGED attempts

\* MarkWebhookRetry moves next_attempt_at and drops the lock, whoever holds it.
Postpone(m) ==
    /\ status[m] = "pending"
    /\ due' = [due EXCEPT ![m] = FALSE]
    /\ lock' = [lock EXCEPT ![m] = "free"]
    /\ UNCHANGED <<status, attempts>>

\* Mutant: a lapsed lock is never taken over.
ClaimableUnlocked ==
    {m \in Deliveries : /\ status[m] = "pending" /\ due[m]
                        /\ lock[m] = "free"
                        /\ attempts[m] < MaxClaims}

Claimable ==
    {m \in Deliveries : /\ status[m] = "pending" /\ due[m]
                        /\ lock[m] \in {"free", "lapsed"}
                        /\ attempts[m] < MaxClaims}

-----------------------------------------------------------------------------
(* Runs, administrators and time.                                          *)

\* finish inserts the row with the final status of the run: pending, due at once.
InsertWebhookDelivery(m) ==
    /\ status[m] = "absent"
    /\ status' = [status EXCEPT ![m] = "pending"]
    /\ due' = [due EXCEPT ![m] = TRUE]
    /\ UNCHANGED <<attempts, lock, revoked, dispatcher, history, faults>>

\* RetryWebhookDelivery: pending again, attempts from zero, due at once. The status
\* and the key are read before, and the status is tested again by the update.
RetryWebhookDelivery(m) ==
    /\ status[m] = "failed"
    /\ ~KeyRevoked(m)
    /\ resets < MaxResets
    /\ status' = [status EXCEPT ![m] = "pending"]
    /\ attempts' = [attempts EXCEPT ![m] = 0]
    /\ due' = [due EXCEPT ![m] = TRUE]
    /\ lock' = [lock EXCEPT ![m] = "free"]
    /\ resets' = resets + 1
    /\ UNCHANGED <<revoked, dispatcher, answers, unreadable, faults>>

RevokeKey(k) ==
    /\ k \notin revoked
    /\ revoked' = revoked \cup {k}
    /\ UNCHANGED <<row, dispatcher, history, faults>>

\* next_attempt_at passes.
BecomesDue(m) ==
    /\ status[m] = "pending"
    /\ ~due[m]
    /\ due' = [due EXCEPT ![m] = TRUE]
    /\ UNCHANGED <<status, attempts, lock, revoked, dispatcher, history, faults>>

\* locked_until passes, whether or not the dispatcher is still at work.
LockLapses(m) ==
    /\ lock[m] = "held"
    /\ lock' = [lock EXCEPT ![m] = "lapsed"]
    /\ UNCHANGED <<status, attempts, due, revoked, dispatcher, history, faults>>

-----------------------------------------------------------------------------
(* A dispatcher.                                                           *)

\* Mutant: the loop does not notice that the batch is empty.
NextItemPastEnd(d) ==
    /\ batch' = [batch EXCEPT ![d] = Tail(@)]
    /\ stage' = [stage EXCEPT ![d] = "check"]
    /\ reply' = [reply EXCEPT ![d] = "refused"]

\* The first row is done: the loop of DispatchDue goes on with the next.
NextItem(d) ==
    /\ batch' = [batch EXCEPT ![d] = Tail(@)]
    /\ stage' = [stage EXCEPT ![d] = IF Len(batch[d]) > 1 THEN "check" ELSE "idle"]
    /\ reply' = [reply EXCEPT ![d] = "refused"]

\* DispatchDue returns an error; the rest of the batch keeps its lock.
DropBatch(d) ==
    /\ batch' = [batch EXCEPT ![d] = << >>]
    /\ stage' = [stage EXCEPT ![d] = "idle"]
    /\ reply' = [reply EXCEPT ![d] = "refused"]

\* ClaimDueWebhookDeliveries: lock, count the attempt, return the updated rows.
ClaimDue(d) ==
    /\ stage[d] = "idle"
    /\ Claimable # {}
    /\ LET size == IF Cardinality(Claimable) < BatchSize
                     THEN Cardinality(Claimable) ELSE BatchSize
       IN \E order \in {f \in [1..size -> Claimable] : IsInjective(f)} :
             LET claimed == {order[i] : i \in 1..size} IN
             /\ attempts' = [m \in Deliveries |->
                               IF m \in claimed THEN attempts[m] + 1 ELSE attempts[m]]
             /\ lock' = [m \in Deliveries |->
                           IF m \in claimed THEN "held" ELSE lock[m]]
             /\ batch' = [batch EXCEPT ![d] =
                            [i \in 1..size |->
                               [id |-> order[i], attempts |-> attempts[order[i]] + 1]]]
    /\ stage' = [stage EXCEPT ![d] = "check"]
    /\ UNCHANGED <<status, due, revoked, reply, history, faults>>

\* dispatch: a revoked key, a key that cannot be loaded or read, and an address
\* that is not valid (any more) all make the delivery fail.
CheckKey(d) ==
    /\ stage[d] = "check"
    /\ \/ /\ ~KeyRevoked(Item(d).id)
          /\ stage' = [stage EXCEPT ![d] = "send"]
          /\ UNCHANGED <<unreadable, faults>>
       \/ /\ KeyRevoked(Item(d).id)
          /\ stage' = [stage EXCEPT ![d] = "reject"]
          /\ UNCHANGED <<unreadable, faults>>
       \/ /\ Fault
          /\ stage' = [stage EXCEPT ![d] = "reject"]
          /\ unreadable' = [unreadable EXCEPT ![Item(d).id] = TRUE]
    /\ UNCHANGED <<row, revoked, batch, reply, answers, resets>>

\* MarkWebhookFailed without having sent anything.
RejectItem(d) ==
    /\ stage[d] = "reject"
    /\ \/ Settle(Item(d).id, "failed") /\ NextItem(d)
       \/ status[Item(d).id] # "pending" /\ DropBatch(d) /\ UNCHANGED row
    /\ UNCHANGED <<revoked, history, faults>>

\* The signed request is sent and answered, or not answered within 10 s.
SendItem(d) ==
    /\ stage[d] = "send"
    /\ \E r \in Replies :
          /\ reply' = [reply EXCEPT ![d] = r]
          /\ answers' = [answers EXCEPT ![Item(d).id] = @ \cup ({r} \cap Telling)]
    /\ stage' = [stage EXCEPT ![d] = "record"]
    /\ UNCHANGED <<row, revoked, batch, unreadable, resets, faults>>

\* Mutant: one attempt too few.
LastAttemptEarly(item) == item.attempts + 1 >= MaxAttempts

\* Automatic attempts are over, going by the count the row had when it was claimed.
LastAttempt(item) == item.attempts >= MaxAttempts

\* The outcome is recorded. The update finds no row when another dispatcher has
\* settled it, and the column refuses a status outside 100..599.
RecordOutcome(d) ==
    /\ stage[d] = "record"
    /\ \/ reply[d] = "accepted" /\ Settle(Item(d).id, "delivered") /\ NextItem(d)
       \/ /\ reply[d] = "gone" \/ (reply[d] = "refused" /\ LastAttempt(Item(d)))
          /\ Settle(Item(d).id, "failed")
          /\ NextItem(d)
       \/ /\ reply[d] = "refused" /\ ~LastAttempt(Item(d))
          /\ Postpone(Item(d).id)
          /\ NextItem(d)
       \/ /\ reply[d] = "odd" \/ status[Item(d).id] # "pending"
          /\ DropBatch(d)
          /\ UNCHANGED row
    /\ UNCHANGED <<revoked, history, faults>>

\* A call fails, the context is cancelled by a shutdown, or the process dies and is
\* started again.
Abort(d) ==
    /\ stage[d] # "idle"
    /\ DropBatch(d)
    /\ Fault
    /\ UNCHANGED <<row, revoked, history>>

-----------------------------------------------------------------------------

Dispatch(d) ==
    ClaimDue(d) \/ CheckKey(d) \/ RejectItem(d) \/ SendItem(d) \/ RecordOutcome(d)

Next ==
    \/ \E m \in Deliveries :
          \/ InsertWebhookDelivery(m) \/ RetryWebhookDelivery(m)
          \/ BecomesDue(m) \/ LockLapses(m)
    \/ \E k \in Keys : RevokeKey(k)
    \/ \E d \in Dispatchers : Dispatch(d) \/ Abort(d)

Spec == Init /\ [][Next]_vars

\* Dispatchers poll and every send has a timeout; time passes.
Fairness ==
    /\ \A d \in Dispatchers : WF_vars(Dispatch(d))
    /\ \A m \in Deliveries : WF_vars(BecomesDue(m)) /\ WF_vars(LockLapses(m))

FairSpec == Spec /\ Fairness

-----------------------------------------------------------------------------
(* Properties.                                                             *)

\* Every variable holds a value of its kind; a dispatcher is idle exactly when it has
\* no row in hand.
TypeOK ==
    /\ status \in [Deliveries -> Statuses]
    /\ attempts \in [Deliveries -> Nat]
    /\ due \in [Deliveries -> BOOLEAN]
    /\ lock \in [Deliveries -> {"free", "held", "lapsed"}]
    /\ revoked \subseteq Keys
    /\ batch \in [Dispatchers -> Seq(Items)]
    /\ stage \in [Dispatchers -> Stages]
    /\ \A d \in Dispatchers : stage[d] = "idle" <=> batch[d] = << >>
    /\ reply \in [Dispatchers -> AllReplies]
    /\ answers \in [Deliveries -> SUBSET Telling]
    /\ unreadable \in [Deliveries -> BOOLEAN]
    /\ resets \in 0..MaxResets
    /\ faults \in 0..MaxFaults

\* "WebhookDelivered records a successful 2xx response": it is recorded only for a
\* delivery some receiver accepted.
DeliveredIsAccepted ==
    \A m \in Deliveries : status[m] = "delivered" => "accepted" \in answers[m]

\* No slow dispatcher, retry or revocation ever takes a recorded delivery back.
DeliveredIsFinal ==
    [][\A m \in Deliveries : status[m] = "delivered" => status'[m] = "delivered"]_vars

\* A callback is given up only after the attempts the policy grants, unless the
\* receiver answered 410 or the key or address could not be used. (After an explicit
\* retry a dispatcher that is still at an older attempt may give up at once.)
GivenUpForAReason ==
    \A m \in Deliveries :
        status[m] = "failed" /\ resets = 0 =>
           \/ attempts[m] >= MaxAttempts
           \/ "gone" \in answers[m]
           \/ KeyRevoked(m)
           \/ unreadable[m]

\* No pending callback stays pending: it is delivered or given up, although batches
\* are dropped half way and leases lapse under running dispatchers.
CallbacksSettle ==
    \A m \in Deliveries : status[m] = "pending" ~> status[m] \in {"delivered", "failed"}

-----------------------------------------------------------------------------
(* Statements of the documentation that the code does not keep.            *)

\* api/openapi.yaml:1739 and webhook_retry_policy.go:5: at most MaxWebhookAttempts
\* automatic attempts.
AttemptsCapped == \A m \in Deliveries : attempts[m] <= MaxAttempts
=============================================================================
