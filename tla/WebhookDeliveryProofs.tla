------------------------ MODULE WebhookDeliveryProofs ------------------------
(***************************************************************************)
(* Proofs about WebhookDelivery for any number of callbacks, keys and      *)
(* dispatchers, any batch size and any number of attempts, explicit        *)
(* retries and faults.                                                     *)
(***************************************************************************)
EXTENDS WebhookDelivery, SequenceTheorems, FiniteSetTheorems, TLAPS

-----------------------------------------------------------------------------
(* The inductive invariant.                                                *)

\* A row in hand was claimed at an attempt that the table has counted.
CountedOK(d) ==
    resets = 0 => \A i \in 1 .. Len(batch[d]) :
                     batch[d][i].attempts <= attempts[batch[d][i].id]

\* What a dispatcher is about to record has a reason.
InHandOK(d) ==
    /\ stage[d] = "reject" => KeyRevoked(Item(d).id) \/ unreadable[Item(d).id]
    /\ stage[d] = "record" /\ reply[d] \in Telling => reply[d] \in answers[Item(d).id]
    /\ CountedOK(d)

IInv ==
    /\ TypeOK
    /\ DeliveredIsAccepted
    /\ GivenUpForAReason
    /\ \A d \in Dispatchers : InHandOK(d)

\* The part of TypeOK that speaks of the table, and the part about dispatchers.
RowOK ==
    /\ status \in [Deliveries -> Statuses]
    /\ attempts \in [Deliveries -> Nat]
    /\ due \in [Deliveries -> BOOLEAN]
    /\ lock \in [Deliveries -> {"free", "held", "lapsed"}]

DispatcherOK ==
    /\ batch \in [Dispatchers -> Seq(Items)]
    /\ stage \in [Dispatchers -> Stages]
    /\ \A d \in Dispatchers : stage[d] = "idle" <=> batch[d] = << >>
    /\ reply \in [Dispatchers -> AllReplies]

HistoryOK ==
    /\ revoked \subseteq Keys
    /\ answers \in [Deliveries -> SUBSET Telling]
    /\ unreadable \in [Deliveries -> BOOLEAN]
    /\ resets \in 0..MaxResets
    /\ faults \in 0..MaxFaults

LEMMA TypeParts == TypeOK <=> RowOK /\ DispatcherOK /\ HistoryOK
  BY DEF TypeOK, RowOK, DispatcherOK, HistoryOK

-----------------------------------------------------------------------------
LEMMA InitOK == Init => IInv
  <1> SUFFICES ASSUME Init
               PROVE  IInv
    OBVIOUS
  <1>1. RowOK /\ HistoryOK
    BY WebhookDeliveryAssumption
    DEF Init, RowOK, HistoryOK, Statuses, WebhookDeliveryAssumption
  <1>2. DispatcherOK
    BY DEF Init, DispatcherOK, Stages, AllReplies
  <1>3. DeliveredIsAccepted /\ GivenUpForAReason
    BY DEF Init, DeliveredIsAccepted, GivenUpForAReason
  <1>4. ASSUME NEW d \in Dispatchers
        PROVE  InHandOK(d)
    BY DEF Init, InHandOK, CountedOK
  <1>5. QED
    BY <1>1, <1>2, <1>3, <1>4, TypeParts DEF IInv

\* The row in hand.
LEMMA ItemOK ==
    ASSUME TypeOK, NEW d \in Dispatchers, stage[d] # "idle"
    PROVE  /\ batch[d] \in Seq(Items) /\ batch[d] # << >>
           /\ Len(batch[d]) \in Nat /\ Len(batch[d]) >= 1
           /\ Item(d) = batch[d][1]
           /\ Item(d) \in Items /\ Item(d).id \in Deliveries /\ Item(d).attempts \in Nat
  <1>1. batch[d] \in Seq(Items) /\ batch[d] # << >>
    BY DEF TypeOK
  <1>2. Len(batch[d]) \in Nat /\ Len(batch[d]) >= 1
    BY <1>1, EmptySeq, LenProperties
  <1>3. Item(d) = batch[d][1] /\ Item(d) \in Items
    BY <1>1, HeadTailProperties DEF Item
  <1>4. QED
    BY <1>1, <1>2, <1>3 DEF Items

\* To go on with the next row, or to drop the batch, needs nothing.
LEMMA BatchStep ==
    ASSUME IInv, NEW d \in Dispatchers, stage[d] # "idle",
           NextItem(d) \/ DropBatch(d),
           UNCHANGED <<attempts, revoked, answers, unreadable, resets>>
    PROVE  DispatcherOK' /\ \A e \in Dispatchers : InHandOK(e)'
  <1> DEFINE rest == batch'[d]
  <1>1. /\ batch' = [batch EXCEPT ![d] = rest]
        /\ \/ /\ rest = Tail(batch[d])
              /\ stage' = [stage EXCEPT ![d] = IF Len(batch[d]) > 1 THEN "check" ELSE "idle"]
           \/ rest = << >> /\ stage' = [stage EXCEPT ![d] = "idle"]
        /\ reply' = [reply EXCEPT ![d] = "refused"]
    BY DEF NextItem, DropBatch, IInv, TypeOK
  <1>2. /\ batch[d] \in Seq(Items) /\ batch[d] # << >>
        /\ Len(batch[d]) \in Nat /\ Len(batch[d]) >= 1
    BY ItemOK DEF IInv
  <1>3. /\ Tail(batch[d]) \in Seq(Items)
        /\ Len(Tail(batch[d])) = Len(batch[d]) - 1
        /\ \A i \in 1 .. Len(Tail(batch[d])) : Tail(batch[d])[i] = batch[d][i + 1]
    BY <1>2, HeadTailProperties
  <1>4. Len(batch[d]) > 1 <=> Tail(batch[d]) # << >>
    <2>1. Len(<< >>) = 0
      OBVIOUS
    <2>2. Tail(batch[d]) # << >> => Len(Tail(batch[d])) # 0
      BY <1>3, EmptySeq
    <2>3. QED
      BY <1>2, <1>3, <2>1, <2>2
  <1>5. DispatcherOK'
    <2>1. rest \in Seq(Items)
      BY <1>1, <1>3, EmptySeq
    <2>2. /\ batch' \in [Dispatchers -> Seq(Items)]
          /\ stage' \in [Dispatchers -> Stages]
          /\ reply' \in [Dispatchers -> AllReplies]
      <3>1. batch' \in [Dispatchers -> Seq(Items)]
        BY <1>1, <2>1 DEF IInv, TypeOK
      <3>2. stage' \in [Dispatchers -> Stages]
        BY <1>1 DEF IInv, TypeOK, Stages
      <3>3. reply' \in [Dispatchers -> AllReplies]
        BY <1>1 DEF IInv, TypeOK, AllReplies
      <3>4. QED
        BY <3>1, <3>2, <3>3
    <2>3. ASSUME NEW e \in Dispatchers
          PROVE  stage'[e] = "idle" <=> batch'[e] = << >>
      BY <1>1, <1>4 DEF IInv, TypeOK
    <2>4. QED
      BY <2>2, <2>3 DEF DispatcherOK
  <1>6. ASSUME NEW e \in Dispatchers \ {d}
        PROVE  InHandOK(e)'
    BY <1>1 DEF IInv, TypeOK, InHandOK, CountedOK, Item, KeyRevoked
  <1>7. InHandOK(d)'
    <2>1. stage'[d] \in {"check", "idle"}
      BY <1>1 DEF IInv, TypeOK
    <2>2. CountedOK(d)'
      <3> SUFFICES ASSUME resets = 0, NEW i \in 1 .. Len(rest)
                   PROVE  rest[i].attempts <= attempts[rest[i].id]
        BY DEF CountedOK
      <3>1. rest = Tail(batch[d])
        BY <1>1, EmptySeq
      <3>2. i + 1 \in 1 .. Len(batch[d]) /\ rest[i] = batch[d][i + 1]
        BY <1>2, <1>3, <3>1
      <3>3. QED
        BY <3>2 DEF IInv, InHandOK, CountedOK
    <2>3. QED
      BY <2>1, <2>2 DEF InHandOK
  <1>8. QED
    BY <1>5, <1>6, <1>7

-----------------------------------------------------------------------------
(* Runs, administrators and time.                                          *)

\* Steps that leave the dispatchers and the history alone.
LEMMA TableStepOK ==
    ASSUME IInv, NEW m \in Deliveries,
           InsertWebhookDelivery(m) \/ BecomesDue(m) \/ LockLapses(m)
    PROVE  IInv'
  <1>1. UNCHANGED <<attempts, revoked, dispatcher, history, faults>>
    BY DEF InsertWebhookDelivery, BecomesDue, LockLapses
  <1>2. /\ due' \in [Deliveries -> BOOLEAN]
        /\ lock' \in [Deliveries -> {"free", "held", "lapsed"}]
    BY DEF InsertWebhookDelivery, BecomesDue, LockLapses, IInv, TypeOK
  <1>3. status' = status \/ status' = [status EXCEPT ![m] = "pending"]
    BY DEF InsertWebhookDelivery, BecomesDue, LockLapses
  <1>4. TypeOK'
    BY <1>1, <1>2, <1>3 DEF IInv, TypeOK, Statuses, dispatcher, history
  <1>5. DeliveredIsAccepted' /\ GivenUpForAReason'
    BY <1>1, <1>3 DEF IInv, TypeOK, DeliveredIsAccepted, GivenUpForAReason, KeyRevoked, history
  <1>6. \A d \in Dispatchers : InHandOK(d)'
    BY <1>1 DEF IInv, InHandOK, CountedOK, Item, KeyRevoked, dispatcher, history
  <1>7. QED
    BY <1>4, <1>5, <1>6 DEF IInv

\* An explicit retry starts the count over, and is itself counted.
LEMMA RetryOK ==
    ASSUME IInv, NEW m \in Deliveries, RetryWebhookDelivery(m)
    PROVE  IInv'
  <1>1. /\ status' = [status EXCEPT ![m] = "pending"]
        /\ attempts' = [attempts EXCEPT ![m] = 0]
        /\ due' = [due EXCEPT ![m] = TRUE]
        /\ lock' = [lock EXCEPT ![m] = "free"]
        /\ resets < MaxResets /\ resets' = resets + 1
        /\ UNCHANGED <<revoked, batch, stage, reply, answers, unreadable, faults>>
    BY DEF RetryWebhookDelivery, dispatcher
  <1>2. resets' \in 0..MaxResets /\ resets' # 0
    BY <1>1, WebhookDeliveryAssumption DEF IInv, TypeOK, WebhookDeliveryAssumption
  <1>3. TypeOK'
    BY <1>1, <1>2 DEF IInv, TypeOK, Statuses
  <1>4. DeliveredIsAccepted' /\ GivenUpForAReason'
    BY <1>1, <1>2 DEF IInv, TypeOK, DeliveredIsAccepted, GivenUpForAReason
  <1>5. \A d \in Dispatchers : InHandOK(d)'
    BY <1>1, <1>2 DEF IInv, InHandOK, CountedOK, Item, KeyRevoked
  <1>6. QED
    BY <1>3, <1>4, <1>5 DEF IInv

LEMMA RevokeOK ==
    ASSUME IInv, NEW k \in Keys, RevokeKey(k)
    PROVE  IInv'
  <1>1. revoked' = revoked \cup {k} /\ UNCHANGED <<row, dispatcher, history, faults>>
    BY DEF RevokeKey
  <1>2. TypeOK'
    BY <1>1 DEF IInv, TypeOK, row, dispatcher, history
  <1>3. DeliveredIsAccepted' /\ GivenUpForAReason'
    BY <1>1 DEF IInv, DeliveredIsAccepted, GivenUpForAReason, KeyRevoked, row, history
  <1>4. \A d \in Dispatchers : InHandOK(d)'
    BY <1>1 DEF IInv, InHandOK, CountedOK, Item, KeyRevoked, row, dispatcher, history
  <1>5. QED
    BY <1>2, <1>3, <1>4 DEF IInv

-----------------------------------------------------------------------------
(* A dispatcher.                                                           *)

\* The claimed rows carry the attempt that the claim has counted.
LEMMA ClaimOK ==
    ASSUME IInv, NEW d \in Dispatchers, ClaimDue(d)
    PROVE  IInv'
  <1> DEFINE size == IF Cardinality(Claimable) < BatchSize
                       THEN Cardinality(Claimable) ELSE BatchSize
  <1>1. PICK order \in [1..size -> Claimable] :
           LET claimed == {order[i] : i \in 1..size}
           IN  /\ attempts' = [m \in Deliveries |->
                                 IF m \in claimed THEN attempts[m] + 1 ELSE attempts[m]]
               /\ lock' = [m \in Deliveries |->
                             IF m \in claimed THEN "held" ELSE lock[m]]
               /\ batch' = [batch EXCEPT ![d] =
                              [i \in 1..size |->
                                 [id |-> order[i], attempts |-> attempts[order[i]] + 1]]]
    BY DEF ClaimDue
  <1> DEFINE claimed == {order[i] : i \in 1..size}
             list == [i \in 1..size |-> [id |-> order[i], attempts |-> attempts[order[i]] + 1]]
  <1>2. /\ stage[d] = "idle" /\ Claimable # {}
        /\ stage' = [stage EXCEPT ![d] = "check"]
        /\ UNCHANGED <<status, due, revoked, reply, history, faults>>
    BY DEF ClaimDue
  <1>3. Claimable \subseteq Deliveries
    BY DEF Claimable
  <1>4. size \in Nat /\ size >= 1
    <2>1. IsFiniteSet(Claimable)
      BY <1>3, FS_Subset, WebhookDeliveryAssumption DEF WebhookDeliveryAssumption
    <2>2. Cardinality(Claimable) \in Nat /\ Cardinality(Claimable) # 0
      BY <1>2, <2>1, FS_CardinalityType, FS_EmptySet
    <2>3. QED
      BY <2>2, WebhookDeliveryAssumption DEF WebhookDeliveryAssumption
  <1> HIDE DEF size
  <1>5. \A i \in 1..size : order[i] \in Deliveries
    BY <1>3
  <1>6. /\ \A m \in Deliveries : /\ attempts'[m] \in Nat
                                 /\ attempts'[m] >= attempts[m]
                                 /\ m \in claimed => attempts'[m] = attempts[m] + 1
        /\ attempts' \in [Deliveries -> Nat]
        /\ lock' \in [Deliveries -> {"free", "held", "lapsed"}]
    BY <1>1 DEF IInv, TypeOK
  <1>7. list \in Seq(Items) /\ list # << >> /\ Len(list) = size
    <2>1. \A i \in 1..size : list[i] \in Items
      BY <1>5 DEF Items, IInv, TypeOK
    <2>2. list \in [1..size -> Items]
      BY <2>1
    <2>3. list \in Seq(Items)
      BY <1>4, <2>2, SeqDef
    <2>4. Len(list) = size
      <3>1. DOMAIN list = 1..size /\ DOMAIN list = 1..Len(list) /\ Len(list) \in Nat
        BY <2>3, LenProperties
      <3>2. QED
        BY <1>4, <3>1
    <2>5. QED
      BY <1>4, <2>3, <2>4
  <1>8. /\ batch' = [batch EXCEPT ![d] = list]
        /\ batch' \in [Dispatchers -> Seq(Items)]
        /\ batch'[d] = list
    BY <1>1, <1>7 DEF IInv, TypeOK
  <1> HIDE DEF list
  <1>9. TypeOK'
    <2>1. RowOK' /\ HistoryOK'
      BY <1>2, <1>6 DEF IInv, TypeOK, RowOK, HistoryOK, history
    <2>2. stage' \in [Dispatchers -> Stages] /\ reply' \in [Dispatchers -> AllReplies]
      BY <1>2 DEF IInv, TypeOK, Stages
    <2>3. \A e \in Dispatchers : stage'[e] = "idle" <=> batch'[e] = << >>
      BY <1>2, <1>7, <1>8 DEF IInv, TypeOK
    <2>4. QED
      BY <1>8, <2>1, <2>2, <2>3, TypeParts DEF RowOK, HistoryOK, DispatcherOK, TypeOK
  <1>10. DeliveredIsAccepted' /\ GivenUpForAReason'
    <2>1. DeliveredIsAccepted'
      BY <1>2 DEF IInv, DeliveredIsAccepted, history
    <2>2. ASSUME NEW m \in Deliveries, status[m] = "failed", resets = 0
          PROVE  \/ attempts'[m] >= MaxAttempts
                 \/ "gone" \in answers[m] \/ KeyRevoked(m) \/ unreadable[m]
      <3>1. attempts[m] \in Nat /\ attempts'[m] \in Nat /\ attempts'[m] >= attempts[m]
            /\ MaxAttempts \in Nat
        BY <1>6, WebhookDeliveryAssumption DEF IInv, TypeOK, WebhookDeliveryAssumption
      <3>2. QED
        BY <2>2, <3>1 DEF IInv, GivenUpForAReason
    <2>3. QED
      BY <1>2, <2>1, <2>2 DEF GivenUpForAReason, KeyRevoked, history
  <1>11. ASSUME NEW e \in Dispatchers \ {d}
         PROVE  InHandOK(e)'
    <2>1. batch'[e] = batch[e] /\ stage'[e] = stage[e] /\ reply'[e] = reply[e]
      BY <1>2, <1>8 DEF IInv, TypeOK
    <2>2. CountedOK(e)'
      <3> SUFFICES ASSUME resets = 0, NEW i \in 1 .. Len(batch[e])
                   PROVE  batch[e][i].attempts <= attempts'[batch[e][i].id]
        BY <1>2, <2>1 DEF CountedOK, history
      <3>1. batch[e][i] \in Items
        BY ElementOfSeq DEF IInv, TypeOK
      <3>2. batch[e][i].attempts <= attempts[batch[e][i].id]
        BY DEF IInv, InHandOK, CountedOK
      <3>3. batch[e][i].id \in Deliveries /\ batch[e][i].attempts \in Nat
        BY <3>1 DEF Items
      <3>4. attempts[batch[e][i].id] \in Nat
        BY <3>3 DEF IInv, TypeOK
      <3>5. QED
        BY <1>6, <3>2, <3>3, <3>4
    <2>3. QED
      BY <1>2, <2>1, <2>2 DEF IInv, InHandOK, Item, KeyRevoked, history
  <1>12. InHandOK(d)'
    <2>1. stage'[d] = "check"
      BY <1>2 DEF IInv, TypeOK
    <2>2. ASSUME NEW i \in 1 .. Len(list)
          PROVE  list[i].attempts <= attempts'[list[i].id]
      <3>1. /\ list[i].id = order[i] /\ list[i].attempts = attempts[order[i]] + 1
            /\ order[i] \in claimed /\ order[i] \in Deliveries
        BY <1>5, <1>7 DEF list
      <3>2. attempts[order[i]] \in Nat /\ attempts'[order[i]] = attempts[order[i]] + 1
        BY <1>6, <3>1 DEF IInv, TypeOK
      <3>3. QED
        BY <3>1, <3>2
    <2>3. QED
      BY <1>8, <2>1, <2>2 DEF InHandOK, CountedOK
  <1>13. QED
    BY <1>9, <1>10, <1>11, <1>12 DEF IInv

LEMMA CheckOK ==
    ASSUME IInv, NEW d \in Dispatchers, CheckKey(d)
    PROVE  IInv'
  <1>1. Item(d).id \in Deliveries /\ batch[d] # << >>
    BY ItemOK DEF CheckKey, IInv
  <1>2. /\ stage[d] = "check"
        /\ UNCHANGED <<row, revoked, batch, reply, answers, resets>>
        /\ \/ stage' = [stage EXCEPT ![d] = "send"] /\ unreadable' = unreadable
           \/ /\ stage' = [stage EXCEPT ![d] = "reject"]
              /\ \/ KeyRevoked(Item(d).id) /\ unreadable' = unreadable
                 \/ unreadable' = [unreadable EXCEPT ![Item(d).id] = TRUE]
    BY DEF CheckKey
  <1>3. faults' \in 0..MaxFaults
    BY WebhookDeliveryAssumption
    DEF CheckKey, Fault, IInv, TypeOK, WebhookDeliveryAssumption
  <1>4. /\ unreadable' \in [Deliveries -> BOOLEAN]
        /\ \A m \in Deliveries : unreadable[m] => unreadable'[m]
        /\ stage'[d] = "reject" => KeyRevoked(Item(d).id) \/ unreadable'[Item(d).id]
    BY <1>1, <1>2 DEF IInv, TypeOK
  <1>5. /\ stage' \in [Dispatchers -> Stages]
        /\ stage'[d] \in {"send", "reject"}
        /\ \A e \in Dispatchers \ {d} : stage'[e] = stage[e]
    BY <1>2 DEF IInv, TypeOK, Stages
  <1>6. TypeOK'
    <2>1. \A e \in Dispatchers : stage'[e] = "idle" <=> batch'[e] = << >>
      BY <1>1, <1>2, <1>5 DEF IInv, TypeOK
    <2>2. QED
      BY <1>2, <1>3, <1>4, <1>5, <2>1 DEF IInv, TypeOK, row
  <1>7. DeliveredIsAccepted' /\ GivenUpForAReason'
    BY <1>2, <1>4 DEF IInv, DeliveredIsAccepted, GivenUpForAReason, KeyRevoked, row
  <1>8. ASSUME NEW e \in Dispatchers
        PROVE  InHandOK(e)'
    <2>1. CountedOK(e)'
      BY <1>2 DEF IInv, InHandOK, CountedOK, row
    <2>2. CASE e = d
      BY <1>2, <1>4, <1>5, <2>1, <2>2 DEF InHandOK, Item, KeyRevoked
    <2>3. CASE e # d
      <3>1. stage[e] # "idle" => Item(e).id \in Deliveries
        BY ItemOK DEF IInv
      <3>2. QED
        BY <1>2, <1>4, <1>5, <2>1, <2>3, <3>1 DEF IInv, InHandOK, Item, KeyRevoked
    <2>4. QED
      BY <2>2, <2>3
  <1>9. QED
    BY <1>6, <1>7, <1>8 DEF IInv

LEMMA SendOK ==
    ASSUME IInv, NEW d \in Dispatchers, SendItem(d)
    PROVE  IInv'
  <1>1. Item(d).id \in Deliveries /\ batch[d] # << >>
    BY ItemOK DEF SendItem, IInv
  <1>2. PICK r \in Replies :
           /\ reply' = [reply EXCEPT ![d] = r]
           /\ answers' = [answers EXCEPT ![Item(d).id] =
                             answers[Item(d).id] \cup ({r} \cap Telling)]
    BY DEF SendItem
  <1>3. /\ stage' = [stage EXCEPT ![d] = "record"]
        /\ UNCHANGED <<row, revoked, batch, unreadable, resets, faults>>
    BY DEF SendItem
  <1>4. r \in AllReplies
    BY WebhookDeliveryAssumption DEF WebhookDeliveryAssumption
  <1>5. /\ answers' \in [Deliveries -> SUBSET Telling]
        /\ \A m \in Deliveries : answers[m] \subseteq answers'[m]
        /\ r \in Telling => r \in answers'[Item(d).id]
    BY <1>1, <1>2 DEF IInv, TypeOK
  <1>6. /\ reply' \in [Dispatchers -> AllReplies]
        /\ reply'[d] = r
        /\ \A e \in Dispatchers \ {d} : reply'[e] = reply[e]
    BY <1>2, <1>4 DEF IInv, TypeOK
  <1>7. /\ stage' \in [Dispatchers -> Stages]
        /\ stage'[d] = "record"
        /\ \A e \in Dispatchers \ {d} : stage'[e] = stage[e]
    BY <1>3 DEF IInv, TypeOK, Stages
  <1>8. TypeOK'
    <2>1. \A e \in Dispatchers : stage'[e] = "idle" <=> batch'[e] = << >>
      BY <1>1, <1>3, <1>7 DEF IInv, TypeOK
    <2>2. QED
      BY <1>3, <1>5, <1>6, <1>7, <2>1 DEF IInv, TypeOK, row
  <1>9. DeliveredIsAccepted' /\ GivenUpForAReason'
    BY <1>3, <1>5 DEF IInv, DeliveredIsAccepted, GivenUpForAReason, KeyRevoked, row
  <1>10. ASSUME NEW e \in Dispatchers
         PROVE  InHandOK(e)'
    <2>1. CountedOK(e)'
      BY <1>3 DEF IInv, InHandOK, CountedOK, row
    <2>2. CASE e = d
      BY <1>3, <1>5, <1>6, <1>7, <2>1, <2>2 DEF InHandOK, Item
    <2>3. CASE e # d
      <3>1. stage[e] # "idle" => Item(e).id \in Deliveries
        BY ItemOK DEF IInv
      <3>2. QED
        BY <1>3, <1>5, <1>6, <1>7, <2>1, <2>3, <3>1 DEF IInv, InHandOK, Item, KeyRevoked
    <2>4. QED
      BY <2>2, <2>3
  <1>11. QED
    BY <1>8, <1>9, <1>10 DEF IInv

\* An outcome is written, for a reason, over a row that is still pending; or nothing is.
LEMMA OutcomeOK ==
    ASSUME IInv, NEW d \in Dispatchers, stage[d] # "idle",
           NextItem(d) \/ DropBatch(d),
           UNCHANGED <<revoked, history>>, faults' \in 0..MaxFaults,
           LET m == Item(d).id
           IN  \/ UNCHANGED row
               \/ Postpone(m)
               \/ Settle(m, "delivered") /\ "accepted" \in answers[m]
               \/ /\ Settle(m, "failed")
                  /\ resets = 0 => \/ attempts[m] >= MaxAttempts
                                   \/ "gone" \in answers[m]
                                   \/ KeyRevoked(m)
                                   \/ unreadable[m]
    PROVE  IInv'
  <1> DEFINE m == Item(d).id
  <1>1. m \in Deliveries
    BY ItemOK DEF IInv
  <1>2. UNCHANGED <<attempts, revoked, answers, unreadable, resets>>
    BY DEF row, history, Postpone, Settle
  <1>3. DispatcherOK' /\ \A e \in Dispatchers : InHandOK(e)'
    BY <1>2, BatchStep
  <1>4. RowOK'
    BY <1>1 DEF IInv, TypeOK, RowOK, Statuses, Postpone, Settle, row
  <1>5. HistoryOK'
    BY <1>2 DEF IInv, TypeOK, HistoryOK
  <1>6. \/ status' = status
        \/ status' = [status EXCEPT ![m] = "delivered"] /\ "accepted" \in answers[m]
        \/ /\ status' = [status EXCEPT ![m] = "failed"]
           /\ resets = 0 => \/ attempts[m] >= MaxAttempts
                            \/ "gone" \in answers[m]
                            \/ KeyRevoked(m)
                            \/ unreadable[m]
    BY DEF Postpone, Settle, row
  <1>7. DeliveredIsAccepted'
    BY <1>1, <1>2, <1>6 DEF IInv, TypeOK, DeliveredIsAccepted
  <1>8. GivenUpForAReason'
    BY <1>1, <1>2, <1>6 DEF IInv, TypeOK, GivenUpForAReason, KeyRevoked
  <1>9. QED
    BY <1>3, <1>4, <1>5, <1>7, <1>8, TypeParts DEF IInv, TypeOK, RowOK, HistoryOK, DispatcherOK

\* A dispatcher's own count is not ahead of the table's.
LEMMA LastAttemptCounted ==
    ASSUME IInv, NEW d \in Dispatchers, stage[d] # "idle", LastAttempt(Item(d)), resets = 0
    PROVE  attempts[Item(d).id] >= MaxAttempts
  <1>1. /\ Item(d) = batch[d][1] /\ Len(batch[d]) \in Nat /\ Len(batch[d]) >= 1
        /\ Item(d).attempts \in Nat /\ Item(d).id \in Deliveries
    BY ItemOK DEF IInv
  <1>2. Item(d).attempts <= attempts[Item(d).id]
    BY <1>1 DEF IInv, InHandOK, CountedOK
  <1>3. MaxAttempts \in Nat /\ attempts[Item(d).id] \in Nat
    BY <1>1, WebhookDeliveryAssumption DEF IInv, TypeOK, WebhookDeliveryAssumption
  <1>4. QED
    BY <1>1, <1>2, <1>3 DEF LastAttempt

LEMMA RecordOK ==
    ASSUME IInv, NEW d \in Dispatchers, RejectItem(d) \/ RecordOutcome(d) \/ Abort(d)
    PROVE  IInv'
  <1>1. /\ stage[d] # "idle"
        /\ NextItem(d) \/ DropBatch(d)
        /\ UNCHANGED <<revoked, history>>
    BY DEF RejectItem, RecordOutcome, Abort
  <1>2. faults' \in 0..MaxFaults
    BY WebhookDeliveryAssumption
    DEF RejectItem, RecordOutcome, Abort, Fault, IInv, TypeOK, WebhookDeliveryAssumption
  <1> DEFINE m == Item(d).id
  <1>3. CASE RejectItem(d)
    <2>1. KeyRevoked(m) \/ unreadable[m]
      BY <1>3 DEF RejectItem, IInv, InHandOK
    <2>2. UNCHANGED row \/ Settle(m, "failed")
      BY <1>3 DEF RejectItem
    <2>3. QED
      BY <1>1, <1>2, <2>1, <2>2, OutcomeOK
  <1>4. CASE RecordOutcome(d)
    <2>1. reply[d] \in Telling => reply[d] \in answers[m]
      BY <1>4 DEF RecordOutcome, IInv, InHandOK
    <2>2. \/ UNCHANGED row
          \/ Postpone(m)
          \/ Settle(m, "delivered") /\ reply[d] = "accepted"
          \/ Settle(m, "failed") /\ (reply[d] = "gone" \/ LastAttempt(Item(d)))
      BY <1>4 DEF RecordOutcome
    <2>3. \/ UNCHANGED row
          \/ Postpone(m)
          \/ Settle(m, "delivered") /\ "accepted" \in answers[m]
          \/ /\ Settle(m, "failed")
             /\ resets = 0 => \/ attempts[m] >= MaxAttempts
                              \/ "gone" \in answers[m]
                              \/ KeyRevoked(m)
                              \/ unreadable[m]
      BY <1>1, <2>1, <2>2, LastAttemptCounted DEF Telling
    <2>4. QED
      BY <1>1, <1>2, <2>3, OutcomeOK
  <1>5. CASE Abort(d)
    <2>1. UNCHANGED row
      BY <1>5 DEF Abort
    <2>2. QED
      BY <1>1, <1>2, <2>1, OutcomeOK
  <1>6. QED
    BY <1>3, <1>4, <1>5

LEMMA NextOK ==
    ASSUME IInv, [Next]_vars
    PROVE  IInv'
  <1>1. CASE UNCHANGED vars
    BY <1>1 DEF IInv, TypeOK, DeliveredIsAccepted, GivenUpForAReason, InHandOK, CountedOK, Item,
                KeyRevoked, vars, row, dispatcher, history
  <1>2. CASE \E m \in Deliveries :
                \/ InsertWebhookDelivery(m) \/ RetryWebhookDelivery(m)
                \/ BecomesDue(m) \/ LockLapses(m)
    BY <1>2, TableStepOK, RetryOK
  <1>3. CASE \E k \in Keys : RevokeKey(k)
    BY <1>3, RevokeOK
  <1>4. CASE \E d \in Dispatchers : ClaimDue(d) \/ CheckKey(d) \/ SendItem(d)
    BY <1>4, ClaimOK, CheckOK, SendOK
  <1>5. CASE \E d \in Dispatchers : RejectItem(d) \/ RecordOutcome(d) \/ Abort(d)
    BY <1>5, RecordOK
  <1>6. QED
    BY <1>1, <1>2, <1>3, <1>4, <1>5 DEF Next, Dispatch

THEOREM Invariant == Spec => []IInv
  <1>1. IInv /\ [Next]_vars => IInv'
    BY NextOK
  <1>2. QED
    BY InitOK, <1>1, PTL DEF Spec

-----------------------------------------------------------------------------
(* What follows from it.                                                   *)

\* Types.
THEOREM TypeCorrect == Spec => []TypeOK
  <1>1. IInv => TypeOK
    BY DEF IInv
  <1>2. QED
    BY Invariant, <1>1, PTL

\* A callback is recorded as delivered only if a receiver accepted it.
THEOREM Accepted == Spec => []DeliveredIsAccepted
  <1>1. IInv => DeliveredIsAccepted
    BY DEF IInv
  <1>2. QED
    BY Invariant, <1>1, PTL

\* Without an explicit retry a callback is given up after all its attempts, or for a
\* reason that no further attempt would change.
THEOREM GivenUp == Spec => []GivenUpForAReason
  <1>1. IInv => GivenUpForAReason
    BY DEF IInv
  <1>2. QED
    BY Invariant, <1>1, PTL

\* Steps of a late dispatcher find no pending row to write to.
LEMMA StaysDelivered ==
    ASSUME IInv, Next, NEW m \in Deliveries, status[m] = "delivered"
    PROVE  status'[m] = "delivered"
  <1>1. ASSUME NEW x \in Deliveries,
               \/ InsertWebhookDelivery(x) \/ RetryWebhookDelivery(x)
               \/ BecomesDue(x) \/ LockLapses(x)
        PROVE  status'[m] = "delivered"
    BY <1>1 DEF InsertWebhookDelivery, RetryWebhookDelivery, BecomesDue, LockLapses, IInv, TypeOK
  <1>2. ASSUME NEW k \in Keys, RevokeKey(k)
        PROVE  status'[m] = "delivered"
    BY <1>2 DEF RevokeKey, row
  <1>3. ASSUME NEW d \in Dispatchers, Dispatch(d) \/ Abort(d)
        PROVE  status'[m] = "delivered"
    <2>1. \/ status' = status
          \/ \E x \in Deliveries, final \in Statuses : Settle(x, final)
      <3>1. stage[d] # "idle" => Item(d).id \in Deliveries
        BY ItemOK DEF IInv
      <3>2. QED
        BY <1>3, <3>1
        DEF Dispatch, ClaimDue, CheckKey, RejectItem, SendItem, RecordOutcome, Abort, Postpone,
            row, Statuses
    <2>2. QED
      BY <2>1 DEF Settle, IInv, TypeOK
  <1>4. QED
    BY <1>1, <1>2, <1>3 DEF Next

\* Nothing takes a delivered callback back.
THEOREM DeliveredStays == Spec => DeliveredIsFinal
  <1>1. IInv /\ [Next]_vars
          => [\A m \in Deliveries : status[m] = "delivered" => status'[m] = "delivered"]_vars
    BY StaysDelivered
  <1>2. QED
    BY Invariant, <1>1, PTL DEF Spec, DeliveredIsFinal
=============================================================================
