--------------------------- MODULE RunStartProofs ---------------------------
(***************************************************************************)
(* Proofs about RunStart for any number of requests, keys, names and       *)
(* sessions, whatever the requests ask for, and any number of faults.      *)
(***************************************************************************)
EXTENDS RunStart, TLAPS

-----------------------------------------------------------------------------
(* The inductive invariant: what a transaction has found out under its     *)
(* locks is still so.                                                      *)

\* An open transaction has written nothing that others see, and a refused one neither.
OpenOK(q) ==
    /\ pc[q] # "done" => run[q] = "none" /\ answer[q] = "none"
    /\ answer[q] \notin {"none", "accepted", "error"} => run[q] = "none"
    /\ session[q] # "absent" => run[q] # "none"

\* Its idempotency key is its own, and answers for no run.
KeyOK(q) ==
    pc[q] \notin {"reserve", "done"} /\ KeyOf(q) # None =>
        /\ keyHeld[KeyOf(q)] = q
        /\ record[KeyOf(q)] = None \/ expired[KeyOf(q)]

\* Its session is one that it creates, under a name that nobody else can take, or one
\* whose row it has locked.
PickedOK(q) ==
    pc[q] \in {"check", "commit"} =>
        /\ picked[q] \in Sessions
        /\ picked[q] = q /\ NameOf(q) # None =>
              nameHeld[NameOf(q)] = q /\ LiveNamed(NameOf(q)) = {}
        /\ picked[q] # q => rowHeld[picked[q]] = q /\ session[picked[q]] = "live"

\* Once it has found no active run there, there is none.
IdleOK(q) == pc[q] = "commit" => ~HasActiveRuns(picked[q])

\* A session is locked for its deletion while it is there.
DeleterOK == \A s \in Sessions : rowHeld[s] = Deleter => session[s] = "live"

RequestOK(q) == OpenOK(q) /\ KeyOK(q) /\ PickedOK(q) /\ IdleOK(q)

IInv ==
    /\ TypeOK
    /\ \A q \in Requests : RequestOK(q)
    /\ DeleterOK
    /\ OneActiveRunPerSession
    /\ DeletedSessionsAreIdle
    /\ ReservationsNameRuns
    /\ OneSessionPerName

-----------------------------------------------------------------------------
LEMMA NoneIsNothing == None \notin Requests /\ None \notin Sessions
  BY RunStartAssumption DEF RunStartAssumption, Sessions

LEMMA RequestsAreSessions == Requests \subseteq Sessions
  BY DEF Sessions

\* What a request asks for.
LEMMA AskedOK ==
    ASSUME TypeOK, NEW q \in Requests
    PROVE  /\ KeyOf(q) \in Keys \cup {None}
           /\ NameOf(q) \in Names \cup {None}
           /\ Continues(q) \in Sessions \cup {None}
  BY RunStartAssumption
  DEF RunStartAssumption, TypeOK, KeyOf, NameOf, Continues

LEMMA InitOK == Init => IInv
  <1> SUFFICES ASSUME Init
               PROVE  IInv
    OBVIOUS
  <1>1. TypeOK
    BY RunStartAssumption DEF Init, TypeOK, Stages, Answers, RunStartAssumption
  <1>2. ASSUME NEW q \in Requests
        PROVE  RequestOK(q)
    <2>1. session[q] = "absent"
      BY RunStartAssumption DEF Init, Sessions, RunStartAssumption
    <2>2. QED
      BY <2>1 DEF Init, RequestOK, OpenOK, KeyOK, PickedOK, IdleOK
  <1>3. OneActiveRunPerSession /\ DeletedSessionsAreIdle /\ ReservationsNameRuns
    BY DEF Init, OneActiveRunPerSession, DeletedSessionsAreIdle, ReservationsNameRuns,
           HasActiveRuns
  <1>4. OneSessionPerName
    BY DEF Init, OneSessionPerName, NamedAt, Sessions
  <1>5. DeleterOK
    BY RunStartAssumption DEF Init, DeleterOK, RunStartAssumption
  <1>6. QED
    BY <1>1, <1>2, <1>3, <1>4, <1>5 DEF IInv

-----------------------------------------------------------------------------
(* Steps that write no row.                                                *)

\* The properties of the tables.
LEMMA TablesUntouched ==
    ASSUME IInv, UNCHANGED <<rows, asked>>
    PROVE  /\ OneActiveRunPerSession' /\ DeletedSessionsAreIdle'
           /\ ReservationsNameRuns' /\ OneSessionPerName'
  BY DEF IInv, OneActiveRunPerSession, DeletedSessionsAreIdle, HasActiveRuns,
         ReservationsNameRuns, OneSessionPerName, NamedAt, KeyOf, NameOf, rows

\* A request that keeps its locks and its place.
LEMMA BystanderOK ==
    ASSUME IInv, UNCHANGED <<rows, asked>>, NEW p \in Requests,
           pc'[p] = pc[p], picked'[p] = picked[p], answer'[p] = answer[p],
           \A k \in Keys : keyHeld[k] = p => keyHeld'[k] = p,
           \A n \in Names : nameHeld[n] = p => nameHeld'[n] = p,
           \A s \in Sessions : rowHeld[s] = p => rowHeld'[s] = p
    PROVE  RequestOK(p)'
  <1>1. KeyOf(p) \in Keys \cup {None} /\ NameOf(p) \in Names \cup {None}
    BY AskedOK DEF IInv
  <1>2. /\ KeyOf(p)' = KeyOf(p) /\ NameOf(p)' = NameOf(p)
        /\ \A s : HasActiveRuns(s)' = HasActiveRuns(s)
        /\ \A n : LiveNamed(n)' = LiveNamed(n)
        /\ UNCHANGED <<session, run, record, expired>>
    BY DEF KeyOf, NameOf, HasActiveRuns, LiveNamed, NamedAt, rows
  <1>3. OpenOK(p)'
    BY <1>2 DEF IInv, RequestOK, OpenOK
  <1>4. KeyOK(p)'
    BY <1>1, <1>2 DEF IInv, RequestOK, KeyOK
  <1>5. PickedOK(p)'
    BY <1>1, <1>2 DEF IInv, RequestOK, PickedOK
  <1>6. IdleOK(p)'
    BY DEF IInv, RequestOK, IdleOK, HasActiveRuns, rows
  <1>7. QED
    BY <1>3, <1>4, <1>5, <1>6 DEF RequestOK

\* A refusal: the locks that are let go were those of the request.
LEMMA RollBackOK ==
    ASSUME IInv, NEW q \in Requests, pc[q] # "done",
           NEW a \in Answers \ {"accepted"}, RollBack(q, a), faults' \in 0..MaxFaults
    PROVE  IInv'
  <1>1. /\ pc' = [pc EXCEPT ![q] = "done"] /\ answer' = [answer EXCEPT ![q] = a]
        /\ UNCHANGED <<rows, asked, picked>>
    BY DEF RollBack, Answer
  <1>2. /\ \A k \in Keys : keyHeld'[k] = IF keyHeld[k] = q THEN None ELSE keyHeld[k]
        /\ \A n \in Names : nameHeld'[n] = IF nameHeld[n] = q THEN None ELSE nameHeld[n]
        /\ \A s \in Sessions : rowHeld'[s] = IF rowHeld[s] = q THEN None ELSE rowHeld[s]
        /\ keyHeld' \in [Keys -> Requests \cup {None}]
        /\ nameHeld' \in [Names -> Requests \cup {None}]
        /\ rowHeld' \in [Sessions -> Requests \cup {Deleter, None}]
    BY DEF RollBack, LetGo, IInv, TypeOK
  <1>3. TypeOK'
    BY <1>1, <1>2 DEF IInv, TypeOK, rows, Stages
  <1>4. ASSUME NEW p \in Requests \ {q}
        PROVE  RequestOK(p)'
    BY <1>1, <1>2, BystanderOK DEF IInv, TypeOK
  <1>5. RequestOK(q)'
    <2>1. pc'[q] = "done" /\ answer'[q] = a
      BY <1>1 DEF IInv, TypeOK
    <2>2. OpenOK(q)'
      BY <1>1, <2>1 DEF IInv, RequestOK, OpenOK, rows
    <2>3. QED
      BY <2>1, <2>2 DEF RequestOK, KeyOK, PickedOK, IdleOK
  <1>6. DeleterOK'
    BY <1>1, <1>2, RunStartAssumption DEF IInv, DeleterOK, RunStartAssumption, rows
  <1>7. QED
    BY <1>1, <1>3, <1>4, <1>5, <1>6, TablesUntouched DEF IInv

\* An open request takes a lock, or none, and goes on, with what its next step needs.
LEMMA AdvanceOK ==
    ASSUME IInv, NEW q \in Requests, pc[q] # "done",
           UNCHANGED <<rows, asked, answer, faults>>,
           pc' \in [Requests -> Stages], picked' \in [Requests -> Sessions \cup {None}],
           keyHeld' \in [Keys -> Requests \cup {None}],
           nameHeld' \in [Names -> Requests \cup {None}],
           rowHeld' \in [Sessions -> Requests \cup {Deleter, None}],
           pc'[q] # "done",
           \A p \in Requests \ {q} : pc'[p] = pc[p] /\ picked'[p] = picked[p],
           \A k \in Keys : keyHeld[k] \in Requests => keyHeld'[k] = keyHeld[k],
           \A n \in Names : nameHeld[n] \in Requests => nameHeld'[n] = nameHeld[n],
           \A s \in Sessions : rowHeld[s] \in Requests => rowHeld'[s] = rowHeld[s],
           \A s \in Sessions : rowHeld'[s] = Deleter => rowHeld[s] = Deleter,
           KeyOK(q)', PickedOK(q)', IdleOK(q)'
    PROVE  IInv'
  <1>1. TypeOK'
    BY DEF IInv, TypeOK, rows
  <1>2. ASSUME NEW p \in Requests \ {q}
        PROVE  RequestOK(p)'
    BY BystanderOK
  <1>3. OpenOK(q)'
    BY DEF IInv, RequestOK, OpenOK, rows
  <1>4. DeleterOK'
    BY DEF IInv, DeleterOK, rows
  <1>5. QED
    BY <1>1, <1>2, <1>3, <1>4, TablesUntouched DEF IInv, RequestOK

-----------------------------------------------------------------------------
(* The statements of start, up to the commit.                              *)

LEMMA GotoFacts ==
    ASSUME TypeOK, NEW q \in Requests, NEW stage \in Stages, Goto(q, stage)
    PROVE  /\ pc' \in [Requests -> Stages] /\ pc'[q] = stage
           /\ picked' = picked /\ picked' \in [Requests -> Sessions \cup {None}]
           /\ UNCHANGED <<asked, answer>>
           /\ \A p \in Requests \ {q} : pc'[p] = pc[p]
  BY DEF Goto, TypeOK

LEMMA PickFacts ==
    ASSUME TypeOK, NEW q \in Requests, NEW s \in Sessions, Pick(q, s)
    PROVE  /\ pc' \in [Requests -> Stages] /\ pc'[q] = "check"
           /\ picked' \in [Requests -> Sessions \cup {None}] /\ picked'[q] = s
           /\ UNCHANGED <<asked, answer>>
           /\ \A p \in Requests \ {q} : pc'[p] = pc[p] /\ picked'[p] = picked[p]
  BY DEF Pick, TypeOK, Stages

LEMMA ReserveOK ==
    ASSUME IInv, NEW q \in Requests, Reserve(q)
    PROVE  IInv'
  <1> DEFINE k == KeyOf(q)
  <1>1. pc[q] = "reserve" /\ UNCHANGED faults
    BY DEF Reserve
  <1>2. k \in Keys \cup {None}
    BY AskedOK DEF IInv
  <1>3. CASE \E a \in {"replayed", "key_reused"} : RollBack(q, a)
    BY <1>1, <1>3, RollBackOK DEF IInv, TypeOK, Answers
  <1>4. CASE /\ Goto(q, "find") /\ UNCHANGED <<rows, nameHeld, rowHeld>>
             /\ \/ k = None /\ UNCHANGED keyHeld
                \/ /\ k # None /\ keyHeld[k] = None
                   /\ record[k] = None \/ expired[k]
                   /\ keyHeld' = [keyHeld EXCEPT ![k] = q]
    <2>1. /\ pc' \in [Requests -> Stages] /\ pc'[q] = "find"
          /\ picked' = picked /\ picked' \in [Requests -> Sessions \cup {None}]
          /\ UNCHANGED <<asked, answer>>
          /\ \A p \in Requests \ {q} : pc'[p] = pc[p]
      BY <1>4, GotoFacts DEF IInv, Stages
    <2>2. /\ keyHeld' \in [Keys -> Requests \cup {None}]
          /\ \A x \in Keys : keyHeld[x] \in Requests => keyHeld'[x] = keyHeld[x]
      BY <1>2, <1>4, NoneIsNothing DEF IInv, TypeOK
    <2>3. KeyOK(q)'
      BY <1>2, <1>4, <2>1 DEF KeyOK, KeyOf, rows, IInv, TypeOK
    <2>4. PickedOK(q)' /\ IdleOK(q)'
      BY <2>1 DEF PickedOK, IdleOK
    <2>5. QED
      BY <1>1, <1>4, <2>1, <2>2, <2>3, <2>4, AdvanceOK DEF IInv, TypeOK
  <1>5. QED
    BY <1>1, <1>3, <1>4 DEF Reserve, locks

\* The key of a request that goes on stays its own.
LEMMA KeyStays ==
    ASSUME IInv, NEW q \in Requests, pc[q] \notin {"reserve", "done"},
           UNCHANGED <<rows, asked, keyHeld>>
    PROVE  KeyOK(q)'
  BY DEF IInv, RequestOK, KeyOK, KeyOf, rows

LEMMA LockSessionOK ==
    ASSUME IInv, NEW q \in Requests, pc[q] \in {"find", "reread"},
           NEW s \in Sessions, session[s] = "live", LockSession(q, s), UNCHANGED faults
    PROVE  IInv'
  <1>1. CASE RollBack(q, "not_found")
    BY <1>1, RollBackOK DEF IInv, TypeOK, Answers
  <1>2. CASE /\ rowHeld[s] = None
             /\ Pick(q, s)
             /\ rowHeld' = [rowHeld EXCEPT ![s] = q]
             /\ UNCHANGED <<rows, keyHeld, nameHeld>>
    <2>1. /\ pc' \in [Requests -> Stages] /\ pc'[q] = "check"
          /\ picked' \in [Requests -> Sessions \cup {None}] /\ picked'[q] = s
          /\ UNCHANGED <<asked, answer>>
          /\ \A p \in Requests \ {q} : pc'[p] = pc[p] /\ picked'[p] = picked[p]
      BY <1>2, PickFacts DEF IInv
    <2>2. /\ rowHeld' \in [Sessions -> Requests \cup {Deleter, None}]
          /\ rowHeld'[s] = q
          /\ \A x \in Sessions : rowHeld[x] \in Requests => rowHeld'[x] = rowHeld[x]
          /\ \A x \in Sessions : rowHeld'[x] = Deleter => rowHeld[x] = Deleter
      BY <1>2, NoneIsNothing, RunStartAssumption DEF IInv, TypeOK, RunStartAssumption
    <2>3. s # q
      BY DEF IInv, RequestOK, OpenOK
    <2>4. PickedOK(q)' /\ IdleOK(q)'
      BY <1>2, <2>1, <2>2, <2>3 DEF PickedOK, IdleOK, rows
    <2>5. KeyOK(q)'
      BY <1>2, <2>1, KeyStays
    <2>6. QED
      BY <1>2, <2>1, <2>2, <2>4, <2>5, AdvanceOK DEF IInv, TypeOK
  <1>3. QED
    BY <1>1, <1>2 DEF LockSession

\* A statement that finds nothing and takes no lock.
LEMMA GoOnOK ==
    ASSUME IInv, NEW q \in Requests, pc[q] \in {"find", "create"},
           NEW stage \in {"create", "reread"},
           Goto(q, stage), UNCHANGED <<rows, locks, faults>>
    PROVE  IInv'
  <1>1. /\ pc' \in [Requests -> Stages] /\ pc'[q] = stage
        /\ picked' = picked /\ picked' \in [Requests -> Sessions \cup {None}]
        /\ UNCHANGED <<asked, answer>>
        /\ \A p \in Requests \ {q} : pc'[p] = pc[p]
    BY GotoFacts DEF IInv, Stages
  <1>2. KeyOK(q)'
    BY <1>1, KeyStays DEF locks
  <1>3. PickedOK(q)' /\ IdleOK(q)'
    BY <1>1 DEF PickedOK, IdleOK
  <1>4. QED
    BY <1>1, <1>2, <1>3, AdvanceOK DEF IInv, TypeOK, locks

LEMMA FindOK ==
    ASSUME IInv, NEW q \in Requests,
           FindById(q) \/ FindByName(q) \/ FindNothing(q) \/ RereadSession(q)
    PROVE  IInv'
  <1>1. pc[q] \in {"find", "reread"} /\ UNCHANGED faults
    BY DEF FindById, FindByName, FindNothing, RereadSession
  <1>2. \/ \E s \in Sessions : session[s] = "live" /\ LockSession(q, s)
        \/ RollBack(q, "not_found")
        \/ pc[q] = "find" /\ Goto(q, "create") /\ UNCHANGED <<rows, locks>>
    <2>1. Continues(q) # None => Continues(q) \in Sessions
      BY AskedOK DEF IInv
    <2>2. \A s \in LiveNamed(NameOf(q)) : s \in Sessions /\ session[s] = "live"
      BY DEF LiveNamed
    <2>3. CASE FindById(q)
      BY <2>1, <2>3 DEF FindById
    <2>4. CASE FindByName(q) \/ RereadSession(q)
      BY <2>2, <2>4 DEF FindByName, RereadSession
    <2>5. CASE FindNothing(q)
      BY <2>5 DEF FindNothing
    <2>6. QED
      BY <2>3, <2>4, <2>5
  <1>3. CASE \E s \in Sessions : session[s] = "live" /\ LockSession(q, s)
    BY <1>1, <1>3, LockSessionOK
  <1>4. CASE RollBack(q, "not_found")
    BY <1>1, <1>4, RollBackOK DEF IInv, TypeOK, Answers
  <1>5. CASE pc[q] = "find" /\ Goto(q, "create") /\ UNCHANGED <<rows, locks>>
    BY <1>1, <1>5, GoOnOK
  <1>6. QED
    BY <1>2, <1>3, <1>4, <1>5

LEMMA CreateOK ==
    ASSUME IInv, NEW q \in Requests, CreateSession(q)
    PROVE  IInv'
  <1> DEFINE n == NameOf(q)
  <1>1. pc[q] = "create" /\ UNCHANGED faults
    BY DEF CreateSession
  <1>2. n \in Names \cup {None}
    BY AskedOK DEF IInv
  <1>3. CASE Goto(q, "reread") /\ UNCHANGED <<rows, locks>>
    BY <1>1, <1>3, GoOnOK
  <1>4. CASE /\ Pick(q, q) /\ UNCHANGED <<rows, keyHeld, rowHeld>>
             /\ \/ n = None /\ UNCHANGED nameHeld
                \/ /\ n # None /\ nameHeld[n] = None /\ LiveNamed(n) = {}
                   /\ nameHeld' = [nameHeld EXCEPT ![n] = q]
    <2>1. /\ pc' \in [Requests -> Stages] /\ pc'[q] = "check"
          /\ picked' \in [Requests -> Sessions \cup {None}] /\ picked'[q] = q
          /\ UNCHANGED <<asked, answer>>
          /\ \A p \in Requests \ {q} : pc'[p] = pc[p] /\ picked'[p] = picked[p]
      BY <1>4, PickFacts, RequestsAreSessions DEF IInv
    <2>2. /\ nameHeld' \in [Names -> Requests \cup {None}]
          /\ \A x \in Names : nameHeld[x] \in Requests => nameHeld'[x] = nameHeld[x]
          /\ n # None => nameHeld'[n] = q
      BY <1>2, <1>4, NoneIsNothing DEF IInv, TypeOK
    <2>3. LiveNamed(n)' = LiveNamed(n) /\ NameOf(q)' = n
      BY <1>4, <2>1 DEF LiveNamed, NamedAt, NameOf, rows
    <2>4. PickedOK(q)'
      BY <1>4, <2>1, <2>2, <2>3, RequestsAreSessions DEF PickedOK
    <2>5. IdleOK(q)'
      BY <2>1 DEF IdleOK
    <2>6. KeyOK(q)'
      BY <1>1, <1>4, <2>1, KeyStays
    <2>7. QED
      BY <1>1, <1>4, <2>1, <2>2, <2>4, <2>5, <2>6, AdvanceOK DEF IInv, TypeOK
  <1>5. QED
    BY <1>1, <1>3, <1>4 DEF CreateSession, locks

LEMMA CheckActiveOK ==
    ASSUME IInv, NEW q \in Requests, CheckActive(q)
    PROVE  IInv'
  <1>1. pc[q] = "check" /\ UNCHANGED faults
    BY DEF CheckActive
  <1>2. CASE RollBack(q, "busy")
    BY <1>1, <1>2, RollBackOK DEF IInv, TypeOK, Answers
  <1>3. CASE ~HasActiveRuns(picked[q]) /\ Goto(q, "commit") /\ UNCHANGED <<rows, locks>>
    <2>1. /\ pc' \in [Requests -> Stages] /\ pc'[q] = "commit"
          /\ picked' = picked /\ picked' \in [Requests -> Sessions \cup {None}]
          /\ UNCHANGED <<asked, answer>>
          /\ \A p \in Requests \ {q} : pc'[p] = pc[p]
      BY <1>3, GotoFacts DEF IInv, Stages
    <2>2. KeyOK(q)'
      BY <1>1, <1>3, <2>1, KeyStays DEF locks
    <2>3. PickedOK(q)'
      BY <1>1, <1>3, <2>1
      DEF IInv, RequestOK, PickedOK, LiveNamed, NamedAt, NameOf, rows, locks
    <2>4. IdleOK(q)'
      BY <1>3, <2>1 DEF IdleOK, HasActiveRuns, rows
    <2>5. QED
      BY <1>1, <1>3, <2>1, <2>2, <2>3, <2>4, AdvanceOK DEF IInv, TypeOK, locks
  <1>4. QED
    BY <1>2, <1>3 DEF CheckActive

LEMMA FailOK ==
    ASSUME IInv, NEW q \in Requests, FailTransaction(q)
    PROVE  IInv'
  <1>1. pc[q] # "done" /\ RollBack(q, "error")
    BY DEF FailTransaction
  <1>2. faults' \in 0..MaxFaults
    BY RunStartAssumption DEF FailTransaction, IInv, TypeOK, RunStartAssumption
  <1>3. QED
    BY <1>1, <1>2, RollBackOK DEF Answers

-----------------------------------------------------------------------------
(* The commit.                                                             *)

\* What the transaction may rely on.
LEMMA CommitFacts ==
    ASSUME IInv, NEW q \in Requests, pc[q] = "commit"
    PROVE  /\ picked[q] \in Sessions /\ ~HasActiveRuns(picked[q])
           /\ run[q] = "none" /\ session[q] = "absent"
           /\ picked[q] # q => session[picked[q]] = "live" /\ rowHeld[picked[q]] = q
           /\ picked[q] = q /\ NameOf(q) # None =>
                 nameHeld[NameOf(q)] = q /\ LiveNamed(NameOf(q)) = {}
           /\ KeyOf(q) # None =>
                 keyHeld[KeyOf(q)] = q /\ (record[KeyOf(q)] = None \/ expired[KeyOf(q)])
  BY DEF IInv, RequestOK, OpenOK, KeyOK, PickedOK, IdleOK

\* What the rows are afterwards.
LEMMA CommittedRows ==
    ASSUME IInv, NEW q \in Requests, Commit(q)
    PROVE  /\ run' \in [Requests -> {"none", "active", "ended"}]
           /\ run'[q] = "active" /\ \A p \in Requests \ {q} : run'[p] = run[p]
           /\ place' \in [Requests -> Sessions \cup {None}]
           /\ place'[q] = picked[q] /\ \A p \in Requests \ {q} : place'[p] = place[p]
           /\ session' \in [Sessions -> {"absent", "live", "deleted"}]
           /\ session'[picked[q]] = "live"
           /\ \A s \in Sessions \ {picked[q]} : session'[s] = session[s]
           /\ record' \in [Keys -> Requests \cup {None}]
           /\ expired' \in [Keys -> BOOLEAN]
           /\ \A k \in Keys : IF KeyOf(q) = k THEN record'[k] = q
                              ELSE record'[k] = record[k] /\ expired'[k] = expired[k]
  <1>1. /\ picked[q] \in Sessions
        /\ picked[q] # q => session[picked[q]] = "live"
    BY CommitFacts DEF Commit
  <1>2. /\ run' = [run EXCEPT ![q] = "active"]
        /\ place' = [place EXCEPT ![q] = picked[q]]
        /\ session' = IF picked[q] = q THEN [session EXCEPT ![q] = "live"] ELSE session
        /\ record' = [k \in Keys |-> IF KeyOf(q) = k THEN q ELSE record[k]]
        /\ expired' = [k \in Keys |-> IF KeyOf(q) = k THEN FALSE ELSE expired[k]]
    BY DEF Commit
  <1>3. /\ session' \in [Sessions -> {"absent", "live", "deleted"}]
        /\ session'[picked[q]] = "live"
        /\ \A s \in Sessions \ {picked[q]} : session'[s] = session[s]
    BY <1>1, <1>2 DEF IInv, TypeOK
  <1>4. QED
    BY <1>1, <1>2, <1>3 DEF IInv, TypeOK

LEMMA CommitOK ==
    ASSUME IInv, NEW q \in Requests, Commit(q),
           NEW a \in {"accepted", "error"}, Answer(q, a), faults' \in 0..MaxFaults
    PROVE  IInv'
  <1> DEFINE c == picked[q]
  <1>1. /\ pc[q] = "commit"
        /\ pc' = [pc EXCEPT ![q] = "done"] /\ answer' = [answer EXCEPT ![q] = a]
        /\ UNCHANGED <<asked, picked>>
    BY DEF Commit, Answer
  <1>2. /\ c \in Sessions /\ ~HasActiveRuns(c)
        /\ run[q] = "none" /\ session[q] = "absent"
        /\ c # q => session[c] = "live" /\ rowHeld[c] = q
        /\ c = q /\ NameOf(q) # None =>
              nameHeld[NameOf(q)] = q /\ LiveNamed(NameOf(q)) = {}
        /\ KeyOf(q) # None => keyHeld[KeyOf(q)] = q
    BY <1>1, CommitFacts
  <1>3. /\ run'[q] = "active" /\ \A p \in Requests \ {q} : run'[p] = run[p]
        /\ place'[q] = c /\ \A p \in Requests \ {q} : place'[p] = place[p]
        /\ session'[c] = "live" /\ \A s \in Sessions \ {c} : session'[s] = session[s]
        /\ \A k \in Keys : IF KeyOf(q) = k THEN record'[k] = q
                           ELSE record'[k] = record[k] /\ expired'[k] = expired[k]
    BY CommittedRows
  <1>4. /\ \A k \in Keys : keyHeld'[k] = IF keyHeld[k] = q THEN None ELSE keyHeld[k]
        /\ \A n \in Names : nameHeld'[n] = IF nameHeld[n] = q THEN None ELSE nameHeld[n]
        /\ \A s \in Sessions : rowHeld'[s] = IF rowHeld[s] = q THEN None ELSE rowHeld[s]
        /\ keyHeld' \in [Keys -> Requests \cup {None}]
        /\ nameHeld' \in [Names -> Requests \cup {None}]
        /\ rowHeld' \in [Sessions -> Requests \cup {Deleter, None}]
    BY DEF Commit, LetGo, IInv, TypeOK
  <1>5. \A p \in Requests : KeyOf(p)' = KeyOf(p) /\ NameOf(p)' = NameOf(p)
    BY <1>1 DEF KeyOf, NameOf
  <1>6. \A s \in Sessions : NamedAt(s)' = NamedAt(s)
    BY <1>5 DEF NamedAt, Sessions
  <1>7. NamedAt(q) = NameOf(q)
    BY RunStartAssumption DEF NamedAt, RunStartAssumption
  <1>8. TypeOK'
    <2>1. pc' \in [Requests -> Stages] /\ answer' \in [Requests -> Answers]
      BY <1>1 DEF IInv, TypeOK, Stages, Answers
    <2>2. QED
      BY <1>1, <1>4, <2>1, CommittedRows DEF IInv, TypeOK
  <1>9. RequestOK(q)'
    <2>1. pc'[q] = "done" /\ answer'[q] = a
      BY <1>1 DEF IInv, TypeOK
    <2>2. QED
      BY <1>3, <2>1 DEF RequestOK, OpenOK, KeyOK, PickedOK, IdleOK
  <1>10. ASSUME NEW p \in Requests \ {q}
         PROVE  RequestOK(p)'
    <2>1. pc'[p] = pc[p] /\ picked'[p] = picked[p] /\ answer'[p] = answer[p]
      BY <1>1 DEF IInv, TypeOK
    <2>2. KeyOf(p) \in Keys \cup {None} /\ NameOf(p) \in Names \cup {None}
      BY AskedOK DEF IInv
    <2>3. pc[p] # "done" => session[p] = "absent"
      BY DEF IInv, RequestOK, OpenOK
    <2>4. OpenOK(p)'
      <3>1. c # p \/ session[p] = "live"
        BY <1>2
      <3>2. QED
        BY <1>3, <2>1, <3>1, RequestsAreSessions DEF IInv, RequestOK, OpenOK
    <2>5. KeyOK(p)'
      BY <1>2, <1>3, <1>4, <1>5, <2>1, <2>2 DEF IInv, RequestOK, KeyOK
    <2>6. PickedOK(p)'
      <3> SUFFICES ASSUME pc[p] \in {"check", "commit"}
                   PROVE  PickedOK(p)'
        BY <2>1 DEF PickedOK
      <3>1. picked[p] \in Sessions
        BY DEF IInv, RequestOK, PickedOK
      <3>2. ASSUME picked[p] # p
            PROVE  rowHeld'[picked[p]] = p /\ session'[picked[p]] = "live"
        <4>1. rowHeld[picked[p]] = p /\ session[picked[p]] = "live"
          BY <3>2 DEF IInv, RequestOK, PickedOK
        <4>2. QED
          BY <1>3, <1>4, <3>1, <4>1
      <3>3. ASSUME picked[p] = p, NameOf(p) # None
            PROVE  nameHeld'[NameOf(p)] = p /\ LiveNamed(NameOf(p))' = {}
        <4>1. nameHeld[NameOf(p)] = p /\ LiveNamed(NameOf(p)) = {}
          BY <3>3 DEF IInv, RequestOK, PickedOK
        <4>2. nameHeld'[NameOf(p)] = p
          BY <1>4, <2>2, <3>3, <4>1
        <4>3. c = q => NamedAt(q) # NameOf(p)
          BY <1>2, <1>7, <3>3, <4>1
        <4>4. \A s \in Sessions : session'[s] = "live" /\ NamedAt(s) = NameOf(p)
                 => session[s] = "live"
          BY <1>2, <1>3, <4>3
        <4>5. \A s \in Sessions : ~ (session'[s] = "live" /\ NamedAt(s) = NameOf(p))
          BY <4>1, <4>4 DEF LiveNamed
        <4>6. LiveNamed(NameOf(p))' = {}
          BY <1>5, <1>6, <4>5 DEF LiveNamed
        <4>7. QED
          BY <4>2, <4>6
      <3>4. QED
        BY <1>5, <2>1, <3>1, <3>2, <3>3 DEF PickedOK
    <2>7. IdleOK(p)'
      <3> SUFFICES ASSUME pc[p] = "commit"
                   PROVE  ~ \E r \in Requests : run'[r] = "active" /\ place'[r] = picked[p]
        BY <2>1 DEF IdleOK, HasActiveRuns
      <3>1. /\ ~HasActiveRuns(picked[p])
            /\ picked[p] # p => rowHeld[picked[p]] = p /\ session[picked[p]] = "live"
        BY CommitFacts
      <3>2. picked[p] # c
        BY <1>2, <2>3, <3>1
      <3>3. QED
        BY <1>3, <3>1, <3>2 DEF HasActiveRuns
    <2>8. QED
      BY <2>4, <2>5, <2>6, <2>7 DEF RequestOK
  <1>11. OneActiveRunPerSession'
    BY <1>2, <1>3 DEF IInv, OneActiveRunPerSession, HasActiveRuns
  <1>12. DeletedSessionsAreIdle'
    BY <1>2, <1>3 DEF IInv, DeletedSessionsAreIdle, HasActiveRuns
  <1>13. ReservationsNameRuns'
    <2>1. ASSUME NEW k \in Keys, record'[k] # None
          PROVE  run'[record'[k]] # "none" /\ KeyOf(record'[k]) = k /\ record'[k] \in Requests
      BY <1>3, <2>1 DEF IInv, TypeOK, ReservationsNameRuns
    <2>2. QED
      BY <1>1, <2>1 DEF ReservationsNameRuns, KeyOf
  <1>14. OneSessionPerName'
    <2>1. ASSUME NEW s \in Sessions, NEW t \in Sessions, s # t,
                 session'[s] = "live", session'[t] = "live", NamedAt(s) # None,
                 NamedAt(s) = NamedAt(t)
          PROVE  FALSE
      <3>1. CASE c # q
        BY <1>2, <1>3, <2>1, <3>1 DEF IInv, OneSessionPerName
      <3>2. CASE c = q
        <4>1. \A x \in Sessions : session[x] = "live" /\ NamedAt(x) # None
                 => NamedAt(x) # NamedAt(q)
          BY <1>2, <1>7, <3>2 DEF LiveNamed
        <4>2. QED
          BY <1>3, <2>1, <3>2, <4>1 DEF IInv, OneSessionPerName
      <3>3. QED
        BY <3>1, <3>2
    <2>2. QED
      BY <1>6, <2>1 DEF OneSessionPerName
  <1>15. DeleterOK'
    BY <1>2, <1>3, <1>4, RunStartAssumption DEF IInv, DeleterOK, RunStartAssumption
  <1>16. QED
    BY <1>8, <1>9, <1>10, <1>11, <1>12, <1>13, <1>14, <1>15 DEF IInv

-----------------------------------------------------------------------------
(* Beside the requests.                                                    *)

LEMMA EndRunOK ==
    ASSUME IInv, NEW q \in Requests, EndRun(q)
    PROVE  IInv'
  <1>1. /\ run[q] = "active" /\ run' = [run EXCEPT ![q] = "ended"]
        /\ UNCHANGED <<session, place, record, expired, keyHeld, nameHeld, rowHeld, asked, pc,
                       picked, answer, faults>>
    BY DEF EndRun, locks, calls
  <1>2. TypeOK'
    BY <1>1 DEF IInv, TypeOK
  <1>3. /\ \A p \in Requests : /\ run'[p] = "active" => run[p] = "active"
                              /\ run'[p] = "none" <=> run[p] = "none"
        /\ \A p \in Requests : KeyOf(p)' = KeyOf(p) /\ NameOf(p)' = NameOf(p)
    BY <1>1 DEF IInv, TypeOK, KeyOf, NameOf
  <1>4. ASSUME NEW p \in Requests
        PROVE  RequestOK(p)'
    <2>1. OpenOK(p)'
      BY <1>1, <1>3 DEF IInv, RequestOK, OpenOK
    <2>2. KeyOK(p)' /\ PickedOK(p)'
      BY <1>1, <1>3 DEF IInv, RequestOK, KeyOK, PickedOK, LiveNamed, NamedAt, NameOf, KeyOf
    <2>3. IdleOK(p)'
      BY <1>1, <1>3 DEF IInv, RequestOK, IdleOK, HasActiveRuns
    <2>4. QED
      BY <2>1, <2>2, <2>3 DEF RequestOK
  <1>5. OneActiveRunPerSession' /\ DeletedSessionsAreIdle'
    BY <1>1, <1>3 DEF IInv, OneActiveRunPerSession, DeletedSessionsAreIdle, HasActiveRuns
  <1>6. ReservationsNameRuns'
    BY <1>1, <1>3 DEF IInv, TypeOK, ReservationsNameRuns, KeyOf
  <1>7. OneSessionPerName' /\ DeleterOK'
    BY <1>1, <1>3 DEF IInv, OneSessionPerName, DeleterOK, NamedAt, NameOf
  <1>8. QED
    BY <1>2, <1>4, <1>5, <1>6, <1>7 DEF IInv

LEMMA LockForDeleteOK ==
    ASSUME IInv, NEW s \in Sessions, LockForDelete(s)
    PROVE  IInv'
  <1>1. /\ session[s] = "live"
        /\ rowHeld[s] = None /\ rowHeld' = [rowHeld EXCEPT ![s] = Deleter]
        /\ UNCHANGED <<rows, keyHeld, nameHeld, asked, pc, picked, answer, faults>>
    BY DEF LockForDelete, calls
  <1>2. TypeOK'
    BY <1>1 DEF IInv, TypeOK, rows
  <1>3. ASSUME NEW p \in Requests
        PROVE  RequestOK(p)'
    <2>1. \A x \in Sessions : rowHeld[x] = p => rowHeld'[x] = p
      BY <1>1, NoneIsNothing DEF IInv, TypeOK
    <2>2. QED
      BY <1>1, <2>1, BystanderOK
  <1>4. DeleterOK'
    BY <1>1 DEF IInv, TypeOK, DeleterOK, rows
  <1>5. QED
    BY <1>1, <1>2, <1>3, <1>4, TablesUntouched DEF IInv

\* The requests keep the sessions they have locked: this one was the deleter's.
LEMMA DeleteSessionOK ==
    ASSUME IInv, NEW s \in Sessions, DeleteSession(s)
    PROVE  IInv'
  <1>1. /\ rowHeld[s] = Deleter /\ rowHeld' = [rowHeld EXCEPT ![s] = None]
        /\ session' = IF HasActiveRuns(s) THEN session
                      ELSE [session EXCEPT ![s] = "deleted"]
        /\ UNCHANGED <<run, place, record, expired, keyHeld, nameHeld, asked, pc, picked,
                       answer, faults>>
    BY DEF DeleteSession, calls
  <1>2. Deleter \notin Requests \cup {None}
    BY RunStartAssumption DEF RunStartAssumption
  <1>3. session[s] = "live"
    BY <1>1 DEF IInv, DeleterOK
  <1>4. TypeOK'
    BY <1>1 DEF IInv, TypeOK
  <1>5. /\ \A x \in Sessions \ {s} : session'[x] = session[x] /\ rowHeld'[x] = rowHeld[x]
        /\ rowHeld'[s] = None
        /\ session'[s] = "live" \/ (session'[s] = "deleted" /\ ~HasActiveRuns(s))
    BY <1>1, <1>3 DEF IInv, TypeOK
  <1>6. ASSUME NEW p \in Requests
        PROVE  RequestOK(p)'
    <2>1. session'[p] # "absent" => session[p] # "absent"
      BY <1>3, <1>5, RequestsAreSessions
    <2>2. OpenOK(p)'
      BY <1>1, <2>1 DEF IInv, RequestOK, OpenOK
    <2>3. KeyOK(p)' /\ IdleOK(p)'
      BY <1>1 DEF IInv, RequestOK, KeyOK, IdleOK, KeyOf, HasActiveRuns
    <2>4. PickedOK(p)'
      <3>1. rowHeld[picked[p]] = p => picked[p] # s
        BY <1>1, <1>2
      <3>2. LiveNamed(NameOf(p)) = {} => LiveNamed(NameOf(p))' = {}
        BY <1>1, <1>3, <1>5 DEF LiveNamed, NamedAt, NameOf
      <3>3. NameOf(p)' = NameOf(p)
        BY <1>1 DEF NameOf
      <3>4. QED
        BY <1>1, <1>5, <3>1, <3>2, <3>3 DEF IInv, RequestOK, PickedOK
    <2>5. QED
      BY <2>2, <2>3, <2>4 DEF RequestOK
  <1>7. OneActiveRunPerSession' /\ DeletedSessionsAreIdle' /\ ReservationsNameRuns'
    BY <1>1, <1>5
    DEF IInv, OneActiveRunPerSession, DeletedSessionsAreIdle, ReservationsNameRuns,
        HasActiveRuns, KeyOf
  <1>8. OneSessionPerName'
    BY <1>1, <1>3, <1>5 DEF IInv, OneSessionPerName, NamedAt, NameOf
  <1>9. DeleterOK'
    BY <1>2, <1>5 DEF IInv, DeleterOK
  <1>10. QED
    BY <1>4, <1>6, <1>7, <1>8, <1>9 DEF IInv

\* A reservation that has run out is worth nothing; one that is being taken is left alone.
LEMMA ExpiryOK ==
    ASSUME IInv, NEW k \in Keys, Expire(k) \/ CleanUp(k)
    PROVE  IInv'
  <1>1. UNCHANGED <<session, run, place, keyHeld, nameHeld, rowHeld, asked, pc, picked, answer,
                    faults>>
    BY DEF Expire, CleanUp, locks, calls
  <1>2. \/ record' = record /\ expired' = [expired EXCEPT ![k] = TRUE]
        \/ /\ keyHeld[k] = None
           /\ record' = [record EXCEPT ![k] = None] /\ expired' = [expired EXCEPT ![k] = FALSE]
    BY DEF Expire, CleanUp
  <1>3. TypeOK'
    BY <1>1, <1>2 DEF IInv, TypeOK
  <1>4. ASSUME NEW p \in Requests
        PROVE  RequestOK(p)'
    <2>1. OpenOK(p)' /\ IdleOK(p)'
      BY <1>1 DEF IInv, RequestOK, OpenOK, IdleOK, HasActiveRuns
    <2>2. PickedOK(p)'
      BY <1>1 DEF IInv, RequestOK, PickedOK, LiveNamed, NamedAt, NameOf
    <2>3. KeyOK(p)'
      <3>1. KeyOf(p) \in Keys \cup {None} /\ KeyOf(p)' = KeyOf(p)
        BY <1>1, AskedOK DEF IInv, KeyOf
      <3>2. QED
        BY <1>1, <1>2, <3>1, NoneIsNothing DEF IInv, RequestOK, KeyOK, TypeOK
    <2>4. QED
      BY <2>1, <2>2, <2>3 DEF RequestOK
  <1>5. /\ OneActiveRunPerSession' /\ DeletedSessionsAreIdle' /\ OneSessionPerName'
        /\ DeleterOK'
    BY <1>1
    DEF IInv, OneActiveRunPerSession, DeletedSessionsAreIdle, OneSessionPerName, DeleterOK,
        HasActiveRuns, NamedAt, NameOf
  <1>6. ReservationsNameRuns'
    BY <1>1, <1>2 DEF IInv, TypeOK, ReservationsNameRuns, KeyOf
  <1>7. QED
    BY <1>3, <1>4, <1>5, <1>6 DEF IInv

LEMMA AnyCommitOK ==
    ASSUME IInv, NEW q \in Requests, Accept(q) \/ CommitReplyLost(q)
    PROVE  IInv'
  <1>1. faults' \in 0..MaxFaults
    BY RunStartAssumption DEF Accept, CommitReplyLost, IInv, TypeOK, RunStartAssumption
  <1>2. Commit(q) /\ (Answer(q, "accepted") \/ Answer(q, "error"))
    BY DEF Accept, CommitReplyLost
  <1>3. QED
    BY <1>1, <1>2, CommitOK

LEMMA NextOK ==
    ASSUME IInv, [Next]_vars
    PROVE  IInv'
  <1>1. CASE UNCHANGED vars
    <2>1. \A p \in Requests : RequestOK(p)'
      BY <1>1, BystanderOK DEF vars, rows, locks, calls
    <2>2. TypeOK' /\ DeleterOK'
      BY <1>1 DEF IInv, TypeOK, DeleterOK, vars, rows, locks, calls
    <2>3. QED
      BY <1>1, <2>1, <2>2, TablesUntouched DEF IInv, vars, rows, calls
  <1>2. ASSUME NEW q \in Requests, Start(q)
        PROVE  IInv'
    BY <1>2, ReserveOK, FindOK, CreateOK, CheckActiveOK, AnyCommitOK DEF Start
  <1>3. ASSUME NEW q \in Requests, CommitReplyLost(q) \/ FailTransaction(q) \/ EndRun(q)
        PROVE  IInv'
    BY <1>3, AnyCommitOK, FailOK, EndRunOK
  <1>4. ASSUME NEW s \in Sessions, LockForDelete(s) \/ DeleteSession(s)
        PROVE  IInv'
    BY <1>4, LockForDeleteOK, DeleteSessionOK
  <1>5. ASSUME NEW k \in Keys, Expire(k) \/ CleanUp(k)
        PROVE  IInv'
    BY <1>5, ExpiryOK
  <1>6. QED
    BY <1>1, <1>2, <1>3, <1>4, <1>5 DEF Next

THEOREM Invariant == Spec => []IInv
  <1>1. IInv /\ [Next]_vars => IInv'
    BY NextOK
  <1>2. QED
    BY InitOK, <1>1, PTL DEF Spec

-----------------------------------------------------------------------------
(* What follows from it.                                                   *)

\* Types.
THEOREM TypeCorrect == Spec => []TypeOK
  <1>1. IInv => TypeOK
    BY DEF IInv
  <1>2. QED
    BY Invariant, <1>1, PTL

\* However many requests address a session, by its id or its key, one run is active in it.
THEOREM OneActiveRun == Spec => []OneActiveRunPerSession
  <1>1. IInv => OneActiveRunPerSession
    BY DEF IInv
  <1>2. QED
    BY Invariant, <1>1, PTL

\* DeleteSession and the requests keep out of each other's way.
THEOREM DeletedAreIdle == Spec => []DeletedSessionsAreIdle
  <1>1. IInv => DeletedSessionsAreIdle
    BY DEF IInv
  <1>2. QED
    BY Invariant, <1>1, PTL

\* A reservation answers for a run that exists.
THEOREM ReservationsAreReal == Spec => []ReservationsNameRuns
  <1>1. IInv => ReservationsNameRuns
    BY DEF IInv
  <1>2. QED
    BY Invariant, <1>1, PTL

\* The unique index on live sessions is enough for a session_key to name one.
THEOREM NamesAreUnique == Spec => []OneSessionPerName
  <1>1. IInv => OneSessionPerName
    BY DEF IInv
  <1>2. QED
    BY Invariant, <1>1, PTL

\* A request that is refused, or not yet committed, has left nothing behind.
THEOREM NothingByHalves == Spec => []AllOrNothing
  <1>1. IInv => AllOrNothing
    BY DEF IInv, RequestOK, OpenOK, AllOrNothing
  <1>2. QED
    BY Invariant, <1>1, PTL

\* Only a commit creates a run.
LEMMA RunsAreCommitted ==
    ASSUME IInv, Next, NEW q \in Requests, run[q] = "none", run'[q] = "active"
    PROVE  Commit(q)
  <1>1. ASSUME NEW p \in Requests, run' # run, Start(p)
        PROVE  Commit(p)
    <2>1. \A a : RollBack(p, a) => run' = run
      BY DEF RollBack, rows
    <2>2. \A s : LockSession(p, s) => run' = run
      BY <2>1 DEF LockSession, rows
    <2>3. Accept(p)
      BY <1>1, <2>1, <2>2
      DEF Start, Reserve, FindById, FindByName, FindNothing, CreateSession, RereadSession,
          CheckActive, rows
    <2>4. QED
      BY <2>3 DEF Accept
  <1>2. ASSUME NEW p \in Requests, Commit(p)
        PROVE  p = q
    BY <1>2 DEF Commit, IInv, TypeOK
  <1>3. ~ \E p \in Requests : FailTransaction(p) \/ EndRun(p)
    BY DEF FailTransaction, RollBack, rows, EndRun, IInv, TypeOK
  <1>4. ~ \E s \in Sessions : LockForDelete(s) \/ DeleteSession(s)
    BY DEF LockForDelete, DeleteSession, rows
  <1>5. ~ \E k \in Keys : Expire(k) \/ CleanUp(k)
    BY DEF Expire, CleanUp
  <1>6. \E p \in Requests : Commit(p)
    BY <1>1, <1>3, <1>4, <1>5 DEF Next, CommitReplyLost
  <1>7. QED
    BY <1>2, <1>6

\* A key creates a second run only after its reservation has run out.
THEOREM KeysAreUsedOnce == Spec => OneRunPerKey
  <1>1. IInv /\ [Next]_vars
          => [\A q \in Requests :
                run[q] = "none" /\ run'[q] = "active" /\ KeyOf(q) # None =>
                   record[KeyOf(q)] = None \/ expired[KeyOf(q)]]_vars
    <2> SUFFICES ASSUME IInv, [Next]_vars, NEW q \in Requests,
                        run[q] = "none", run'[q] = "active", KeyOf(q) # None
                 PROVE  record[KeyOf(q)] = None \/ expired[KeyOf(q)]
      OBVIOUS
    <2>1. Next
      BY DEF vars, rows
    <2>2. pc[q] = "commit"
      BY <2>1, RunsAreCommitted DEF Commit
    <2>3. QED
      BY <2>2, CommitFacts
  <1>2. QED
    BY Invariant, <1>1, PTL DEF Spec, OneRunPerKey

-----------------------------------------------------------------------------
(* The refinement of AtomicStart: a request takes effect, or is refused, in *)
(* the step that answers it.                                               *)

\* How a request has come to the session it works on.
RouteOK(q) ==
    /\ pc[q] \in {"create", "reread"} => Continues(q) = None
    /\ pc[q] = "reread" =>
          /\ NameOf(q) # None
          /\ \E s \in Sessions : session[s] # "absent" /\ NamedAt(s) = NameOf(q)
    /\ pc[q] \in {"check", "commit"} =>
          IF picked[q] = q
            THEN Continues(q) = None
            ELSE /\ picked[q] = Continues(q) \/ (NameOf(q) # None /\ NamedAt(picked[q]) = NameOf(q))
                 /\ AgentAt(picked[q]) = AgentOf(q)

\* Runs are inside sessions that exist.
PlaceOK(q) == run[q] # "none" => place[q] \in Sessions /\ session[place[q]] # "absent"

RouteInv == \A q \in Requests : RouteOK(q) /\ PlaceOK(q)

\* The two modules speak of the same sessions.
LEMMA SameWords ==
    /\ Atomic!Sessions = Sessions
    /\ \A s : /\ Atomic!AgentAt(s) = AgentAt(s) /\ Atomic!NamedAt(s) = NamedAt(s)
              /\ Atomic!Busy(s) <=> HasActiveRuns(s)
    /\ \A q, s : Atomic!NamesSession(q, s) <=>
                    s = Continues(q) \/ (NameOf(q) # None /\ NamedAt(s) = NameOf(q))
  BY DEF Atomic!Sessions, Atomic!AgentAt, Atomic!NamedAt, Atomic!Busy, Atomic!NamesSession, Sessions,
         AgentAt, NamedAt, HasActiveRuns, AgentOf, NameOf, Continues

\* A rollback writes no row and answers the caller.
LEMMA RollBackFacts ==
    ASSUME TypeOK, NEW q \in Requests, NEW a, RollBack(q, a)
    PROVE  /\ UNCHANGED <<rows, asked, picked>>
           /\ pc'[q] = "done" /\ \A p \in Requests \ {q} : pc'[p] = pc[p]
           /\ answer' = [answer EXCEPT ![q] = a]
  BY DEF RollBack, Answer, TypeOK

\* What a statement that finds a session does.
LEMMA LockSessionFacts ==
    ASSUME TypeOK, NEW q \in Requests, NEW s \in Sessions, LockSession(q, s)
    PROVE  /\ UNCHANGED <<rows, asked>>
           /\ \A p \in Requests \ {q} : pc'[p] = pc[p] /\ picked'[p] = picked[p]
           /\ \/ /\ AgentAt(s) = AgentOf(q)
                 /\ pc'[q] = "check" /\ picked'[q] = s /\ UNCHANGED answer
              \/ /\ AgentAt(s) # AgentOf(q)
                 /\ pc'[q] = "done" /\ answer' = [answer EXCEPT ![q] = "not_found"]
  <1>1. CASE RollBack(q, "not_found")
    BY <1>1, RollBackFacts DEF LockSession, Pick, TypeOK
  <1>2. CASE Pick(q, s) /\ UNCHANGED rows
    BY <1>2, PickFacts DEF LockSession, RollBack, Answer, Pick
  <1>3. QED
    BY <1>1, <1>2 DEF LockSession

\* Sessions do not go back to absent, and a locked one stays live.
LEMMA SessionsStay ==
    ASSUME IInv, Next, NEW s \in Sessions
    PROVE  /\ session[s] # "absent" => session'[s] # "absent"
           /\ session[s] = "live" /\ rowHeld[s] \in Requests => session'[s] = "live"
  <1> DEFINE Stay == /\ session[s] # "absent" => session'[s] # "absent"
                     /\ session[s] = "live" /\ rowHeld[s] \in Requests => session'[s] = "live"
  <1>1. CASE UNCHANGED session
    BY <1>1
  <1>2. ASSUME NEW q \in Requests, Commit(q)
        PROVE  Stay
    BY <1>2, CommittedRows
  <1>3. ASSUME NEW t \in Sessions, DeleteSession(t)
        PROVE  Stay
    BY <1>3, RunStartAssumption DEF DeleteSession, IInv, TypeOK, RunStartAssumption
  <1>4. ASSUME NEW q \in Requests, Start(q), ~Commit(q)
        PROVE  UNCHANGED session
    <2>1. \A a : RollBack(q, a) => UNCHANGED session
      BY DEF RollBack, rows
    <2>2. \A t : LockSession(q, t) => UNCHANGED session
      BY <2>1 DEF LockSession, rows
    <2>3. QED
      BY <1>4, <2>1, <2>2
      DEF Start, Reserve, FindById, FindByName, FindNothing, CreateSession, RereadSession,
          CheckActive, Accept, rows
  <1>5. ASSUME NEW q \in Requests, FailTransaction(q) \/ EndRun(q)
        PROVE  UNCHANGED session
    BY <1>5 DEF FailTransaction, RollBack, EndRun, rows
  <1>6. ASSUME NEW t \in Sessions, LockForDelete(t)
        PROVE  UNCHANGED session
    BY <1>6 DEF LockForDelete, rows
  <1>7. ASSUME NEW k \in Keys, Expire(k) \/ CleanUp(k)
        PROVE  UNCHANGED session
    BY <1>7 DEF Expire, CleanUp
  <1>8. QED
    BY <1>1, <1>2, <1>3, <1>4, <1>5, <1>6, <1>7 DEF Next, CommitReplyLost

\* A request that does not move keeps its way.
LEMMA RouteStays ==
    ASSUME RouteInv, NEW q \in Requests, UNCHANGED asked,
           pc'[q] = pc[q], picked'[q] = picked[q],
           \A s \in Sessions : session[s] # "absent" => session'[s] # "absent"
    PROVE  RouteOK(q)'
  <1>1. /\ NameOf(q)' = NameOf(q) /\ Continues(q)' = Continues(q) /\ AgentOf(q)' = AgentOf(q)
        /\ \A s : NamedAt(s)' = NamedAt(s) /\ AgentAt(s)' = AgentAt(s)
    BY DEF NameOf, Continues, AgentOf, NamedAt, AgentAt
  <1>2. QED
    BY <1>1 DEF RouteInv, RouteOK

\* A statement of start takes its own request, and no other, a step further.
LEMMA StartRoute ==
    ASSUME IInv, RouteInv, NEW q \in Requests, Start(q)
    PROVE  /\ UNCHANGED asked
           /\ \A p \in Requests \ {q} : pc'[p] = pc[p] /\ picked'[p] = picked[p]
           /\ RouteOK(q)'
  <1> DEFINE Done == /\ UNCHANGED asked
                     /\ \A p \in Requests \ {q} : pc'[p] = pc[p] /\ picked'[p] = picked[p]
                     /\ RouteOK(q)'
  <1> USE DEF IInv
  <1>1. ASSUME NEW a, RollBack(q, a)
        PROVE  Done
    BY <1>1, RollBackFacts DEF RouteOK
  <1>2. ASSUME NEW stage \in Stages, Goto(q, stage), UNCHANGED rows, stage # "check",
               stage \in {"create", "reread"} => Continues(q) = None,
               stage = "reread" => NameOf(q) # None /\ LiveNamed(NameOf(q)) # {},
               stage = "commit" => pc[q] = "check"
        PROVE  Done
    <2>1. /\ pc'[q] = stage /\ UNCHANGED <<asked, picked>>
          /\ \A p \in Requests \ {q} : pc'[p] = pc[p]
      BY <1>2, GotoFacts
    <2>2. /\ NameOf(q)' = NameOf(q) /\ Continues(q)' = Continues(q) /\ AgentOf(q)' = AgentOf(q)
          /\ \A s : NamedAt(s)' = NamedAt(s) /\ AgentAt(s)' = AgentAt(s)
      BY <2>1 DEF NameOf, Continues, AgentOf, NamedAt, AgentAt
    <2>3. RouteOK(q)'
      BY <1>2, <2>1, <2>2 DEF RouteInv, RouteOK, LiveNamed, rows
    <2>4. QED
      BY <2>1, <2>3
  <1>3. ASSUME NEW s \in Sessions, Pick(q, s),
               IF s = q THEN Continues(q) = None
               ELSE /\ s = Continues(q) \/ (NameOf(q) # None /\ NamedAt(s) = NameOf(q))
                    /\ AgentAt(s) = AgentOf(q)
        PROVE  Done
    <2>1. /\ pc'[q] = "check" /\ picked'[q] = s /\ UNCHANGED asked
          /\ \A p \in Requests \ {q} : pc'[p] = pc[p] /\ picked'[p] = picked[p]
      BY <1>3, PickFacts
    <2>2. /\ NameOf(q)' = NameOf(q) /\ Continues(q)' = Continues(q) /\ AgentOf(q)' = AgentOf(q)
          /\ NamedAt(s)' = NamedAt(s) /\ AgentAt(s)' = AgentAt(s)
      BY <2>1 DEF NameOf, Continues, AgentOf, NamedAt, AgentAt
    <2>3. QED
      BY <1>3, <2>1, <2>2 DEF RouteOK
  <1>4. ASSUME NEW s \in Sessions, session[s] = "live", pc[q] # "done", LockSession(q, s),
               s = Continues(q) \/ (NameOf(q) # None /\ NamedAt(s) = NameOf(q))
        PROVE  Done
    <2>1. s # q
      BY <1>4 DEF RequestOK, OpenOK
    <2>2. QED
      BY <1>1, <1>3, <1>4, <2>1 DEF LockSession
  <1>5. CASE Reserve(q)
    BY <1>1, <1>2, <1>5 DEF Reserve, rows, Stages
  <1>6. CASE FindById(q)
    <2>1. Continues(q) \in Sessions
      BY <1>6, AskedOK DEF FindById
    <2>2. QED
      BY <1>1, <1>4, <1>6, <2>1 DEF FindById
  <1>7. CASE FindByName(q)
    <2>1. NameOf(q) # None /\ Continues(q) = None
      BY <1>7, RunStartAssumption DEF FindByName, TypeOK, NameOf, Continues
    <2>2. \A s \in LiveNamed(NameOf(q)) :
             s \in Sessions /\ session[s] = "live" /\ NamedAt(s) = NameOf(q)
      BY DEF LiveNamed
    <2>3. QED
      BY <1>2, <1>4, <1>7, <2>1, <2>2 DEF FindByName, rows, Stages
  <1>8. CASE FindNothing(q)
    BY <1>2, <1>8 DEF FindNothing, rows, Stages
  <1>9. CASE CreateSession(q)
    <2>1. Continues(q) = None
      BY <1>9 DEF CreateSession, RouteInv, RouteOK
    <2>2. QED
      BY <1>2, <1>3, <1>9, <2>1, RequestsAreSessions DEF CreateSession, rows, Stages
  <1>10. CASE RereadSession(q)
    <2>1. NameOf(q) # None
      BY <1>10 DEF RereadSession, RouteInv, RouteOK
    <2>2. \A s \in LiveNamed(NameOf(q)) :
             s \in Sessions /\ session[s] = "live" /\ NamedAt(s) = NameOf(q)
      BY DEF LiveNamed
    <2>3. QED
      BY <1>1, <1>4, <1>10, <2>1, <2>2 DEF RereadSession
  <1>11. CASE CheckActive(q)
    BY <1>1, <1>2, <1>11 DEF CheckActive, rows, Stages
  <1>12. CASE Accept(q)
    BY <1>12 DEF Accept, Answer, TypeOK, RouteOK
  <1>13. QED
    BY <1>5, <1>6, <1>7, <1>8, <1>9, <1>10, <1>11, <1>12 DEF Start

LEMMA InitRoute == Init => RouteInv
  BY DEF Init, RouteInv, RouteOK, PlaceOK

\* Nobody else moves a request: it takes a statement of its own, or is done, or stays.
LEMMA NextRoute ==
    ASSUME IInv, RouteInv, [Next]_vars
    PROVE  UNCHANGED asked /\ \A p \in Requests : RouteOK(p)'
  <1> DEFINE Done == UNCHANGED asked /\ \A p \in Requests : RouteOK(p)'
  <1>1. CASE UNCHANGED vars
    BY <1>1, RouteStays DEF vars, rows, calls
  <1>2. ASSUME Next, UNCHANGED <<asked, pc, picked>>
        PROVE  Done
    BY <1>2, RouteStays, SessionsStay
  <1>3. ASSUME NEW q \in Requests, Next, Start(q)
        PROVE  Done
    BY <1>3, StartRoute, RouteStays, SessionsStay
  <1>4. ASSUME NEW q \in Requests, Next, CommitReplyLost(q) \/ FailTransaction(q)
        PROVE  Done
    <2>1. /\ UNCHANGED <<asked, picked>> /\ pc'[q] = "done"
          /\ \A p \in Requests \ {q} : pc'[p] = pc[p]
      BY <1>4 DEF CommitReplyLost, FailTransaction, RollBack, Answer, IInv, TypeOK
    <2>2. RouteOK(q)'
      BY <2>1 DEF RouteOK
    <2>3. QED
      BY <1>4, <2>1, <2>2, RouteStays, SessionsStay
  <1>5. ASSUME NEW q \in Requests, EndRun(q)
        PROVE  UNCHANGED calls
    BY <1>5 DEF EndRun
  <1>6. ASSUME NEW s \in Sessions, LockForDelete(s) \/ DeleteSession(s)
        PROVE  UNCHANGED calls
    BY <1>6 DEF LockForDelete, DeleteSession
  <1>7. ASSUME NEW k \in Keys, Expire(k) \/ CleanUp(k)
        PROVE  UNCHANGED calls
    BY <1>7 DEF Expire, CleanUp
  <1>8. UNCHANGED calls => UNCHANGED <<asked, pc, picked>>
    BY DEF calls
  <1>9. QED
    BY <1>1, <1>2, <1>3, <1>4, <1>5, <1>6, <1>7, <1>8 DEF Next

\* A run is placed by the commit that creates it, into a session that is then live.
LEMMA NextPlace ==
    ASSUME IInv, RouteInv, [Next]_vars, NEW p \in Requests
    PROVE  PlaceOK(p)'
  <1>1. ASSUME UNCHANGED place, run'[p] # "none" => run[p] # "none",
               \A s \in Sessions : session[s] # "absent" => session'[s] # "absent"
        PROVE  PlaceOK(p)'
    BY <1>1 DEF RouteInv, PlaceOK
  <1>2. CASE UNCHANGED vars
    BY <1>1, <1>2 DEF vars, rows
  <1>3. CASE Next /\ UNCHANGED <<run, place>>
    BY <1>1, <1>3, SessionsStay
  <1>4. ASSUME NEW q \in Requests, Commit(q), Next
        PROVE  PlaceOK(p)'
    <2>1. picked[q] \in Sessions
      BY <1>4, CommitFacts DEF Commit
    <2>2. QED
      BY <1>4, <2>1, CommittedRows, SessionsStay DEF RouteInv, PlaceOK
  <1>5. ASSUME NEW q \in Requests, EndRun(q), Next
        PROVE  PlaceOK(p)'
    BY <1>1, <1>5, SessionsStay DEF EndRun, IInv, TypeOK
  <1>6. ASSUME NEW q \in Requests, Start(q), ~Commit(q)
        PROVE  UNCHANGED <<run, place>>
    <2>1. \A a : RollBack(q, a) => UNCHANGED <<run, place>>
      BY DEF RollBack, rows
    <2>2. \A t : LockSession(q, t) => UNCHANGED <<run, place>>
      BY <2>1 DEF LockSession, rows
    <2>3. QED
      BY <1>6, <2>1, <2>2
      DEF Start, Reserve, FindById, FindByName, FindNothing, CreateSession, RereadSession,
          CheckActive, Accept, rows
  <1>7. ASSUME NEW q \in Requests, FailTransaction(q)
        PROVE  UNCHANGED <<run, place>>
    BY <1>7 DEF FailTransaction, RollBack, rows
  <1>8. ASSUME NEW s \in Sessions, LockForDelete(s) \/ DeleteSession(s)
        PROVE  UNCHANGED <<run, place>>
    BY <1>8 DEF LockForDelete, DeleteSession, rows
  <1>9. ASSUME NEW k \in Keys, Expire(k) \/ CleanUp(k)
        PROVE  UNCHANGED <<run, place>>
    BY <1>9 DEF Expire, CleanUp
  <1>10. QED
    BY <1>2, <1>3, <1>4, <1>5, <1>6, <1>7, <1>8, <1>9 DEF Next, CommitReplyLost

\* At the commit everything the abstract request looks at is as the transaction saw it.
LEMMA CommitIsAccept ==
    ASSUME IInv, RouteInv, NEW q \in Requests, Commit(q),
           Answer(q, "accepted") \/ Answer(q, "error")
    PROVE  Atomic!Accept(q)
  <1> DEFINE c == picked[q]
  <1>1. /\ pc[q] = "commit" /\ c \in Sessions /\ ~HasActiveRuns(c)
        /\ run[q] = "none" /\ answer[q] = "none"
        /\ c # q => session[c] = "live"
        /\ c = q /\ NameOf(q) # None => LiveNamed(NameOf(q)) = {}
        /\ KeyOf(q) # None => record[KeyOf(q)] = None \/ expired[KeyOf(q)]
    BY CommitFacts DEF Commit, IInv, RequestOK, OpenOK
  <1>2. ~Atomic!Reserved(q)
    BY <1>1 DEF Atomic!Reserved, KeyOf
  <1>3. CASE c # q
    <2>1. c \in Atomic!Addressed(q) /\ Atomic!AgentAt(c) = asked[q].agent
      BY <1>1, <1>3, SameWords DEF RouteInv, RouteOK, Atomic!Addressed, AgentOf
    <2>2. UNCHANGED session /\ place' = [place EXCEPT ![q] = c]
      BY <1>3 DEF Commit
    <2>3. QED
      BY <1>1, <1>2, <2>1, <2>2, SameWords
      DEF Atomic!Accept, Atomic!Tell, Commit, Answer, KeyOf
  <1>4. CASE c = q
    <2>1. Continues(q) = None
      BY <1>1, <1>4 DEF RouteInv, RouteOK
    <2>2. Atomic!Addressed(q) = {}
      BY <1>1, <1>4, <2>1, SameWords, NoneIsNothing DEF Atomic!Addressed, LiveNamed
    <2>3. session' = [session EXCEPT ![q] = "live"] /\ place' = [place EXCEPT ![q] = q]
      BY <1>4 DEF Commit
    <2>4. QED
      BY <1>1, <1>2, <1>4, <2>1, <2>2, <2>3, SameWords
      DEF Atomic!Accept, Atomic!Tell, Commit, Answer, KeyOf, Continues
  <1>5. QED
    BY <1>3, <1>4

\* A session that is found and is another assistant's, or is not found, is refused.
LEMMA FindRefines ==
    ASSUME IInv, RouteInv, NEW q \in Requests,
           FindById(q) \/ FindByName(q) \/ FindNothing(q) \/ RereadSession(q)
    PROVE  Atomic!RefuseUnknown(q) \/ UNCHANGED Atomic!vars
  <1>1. /\ pc[q] \in {"find", "reread"} /\ answer[q] = "none" /\ ~Atomic!Reserved(q)
    BY DEF FindById, FindByName, FindNothing, RereadSession, IInv, RequestOK, OpenOK, KeyOK,
           Atomic!Reserved, KeyOf
  <1>2. ASSUME NEW s \in Sessions, session[s] = "live", LockSession(q, s),
               s = Continues(q) \/ (NameOf(q) # None /\ NamedAt(s) = NameOf(q))
        PROVE  Atomic!RefuseUnknown(q) \/ UNCHANGED Atomic!vars
    <2>1. s \in Atomic!Addressed(q)
      BY <1>2, SameWords DEF Atomic!Addressed
    <2>2. /\ UNCHANGED <<rows, asked>>
          /\ \/ UNCHANGED answer
             \/ /\ AgentAt(s) # AgentOf(q)
                /\ answer' = [answer EXCEPT ![q] = "not_found"]
      BY <1>2, LockSessionFacts DEF IInv
    <2>3. QED
      BY <1>1, <2>1, <2>2, SameWords
      DEF Atomic!RefuseUnknown, Atomic!Tell, Atomic!vars, Atomic!tables, rows, AgentOf
  <1>3. CASE UNCHANGED <<rows, asked, answer>>
    BY <1>3 DEF Atomic!vars, Atomic!tables, rows
  <1>4. ASSUME RollBack(q, "not_found"), Atomic!Addressed(q) = {},
               \/ Continues(q) # None
               \/ \E s \in Sessions : session[s] = "deleted" /\ Atomic!NamesSession(q, s)
        PROVE  Atomic!RefuseUnknown(q)
    <2>1. UNCHANGED <<rows, asked>> /\ answer' = [answer EXCEPT ![q] = "not_found"]
      BY <1>4, RollBackFacts DEF IInv
    <2>2. QED
      BY <1>1, <1>4, <2>1, SameWords
      DEF Atomic!RefuseUnknown, Atomic!Tell, Atomic!tables, rows, Continues
  <1>5. CASE FindById(q)
    <2>1. Continues(q) \in Sessions /\ NameOf(q) = None
      BY <1>5, AskedOK, RunStartAssumption
      DEF FindById, IInv, TypeOK, NameOf, Continues
    <2>2. CASE session[Continues(q)] = "live" /\ LockSession(q, Continues(q))
      BY <1>2, <2>1, <2>2
    <2>3. CASE session[Continues(q)] # "live" /\ RollBack(q, "not_found")
      BY <1>4, <1>5, <2>1, <2>3, SameWords DEF FindById, Atomic!Addressed
    <2>4. QED
      BY <1>5, <2>2, <2>3 DEF FindById
  <1>6. CASE FindByName(q)
    <2>1. \A s \in LiveNamed(NameOf(q)) :
             s \in Sessions /\ session[s] = "live" /\ NamedAt(s) = NameOf(q)
      BY DEF LiveNamed
    <2>2. QED
      BY <1>2, <1>3, <1>6, <2>1 DEF FindByName, Goto
  <1>7. CASE FindNothing(q)
    BY <1>3, <1>7 DEF FindNothing, Goto
  <1>8. CASE RereadSession(q)
    <2>1. /\ NameOf(q) # None /\ Continues(q) = None
          /\ \E s \in Sessions : session[s] # "absent" /\ NamedAt(s) = NameOf(q)
      BY <1>8, RunStartAssumption
      DEF RereadSession, RouteInv, RouteOK, IInv, TypeOK, NameOf, Continues
    <2>2. \A s \in LiveNamed(NameOf(q)) :
             s \in Sessions /\ session[s] = "live" /\ NamedAt(s) = NameOf(q)
      BY DEF LiveNamed
    <2>3. CASE \E s \in LiveNamed(NameOf(q)) : LockSession(q, s)
      BY <1>2, <2>1, <2>2, <2>3
    <2>4. CASE LiveNamed(NameOf(q)) = {} /\ RollBack(q, "not_found")
      <3>1. Atomic!Addressed(q) = {}
        BY <2>1, <2>4, SameWords, NoneIsNothing DEF Atomic!Addressed, LiveNamed
      <3>2. \E s \in Sessions : session[s] = "deleted" /\ Atomic!NamesSession(q, s)
        BY <2>1, <2>4, SameWords DEF LiveNamed, IInv, TypeOK
      <3>3. QED
        BY <1>4, <2>4, <3>1, <3>2
    <2>5. QED
      BY <1>8, <2>3, <2>4 DEF RereadSession
  <1>9. QED
    BY <1>5, <1>6, <1>7, <1>8

\* The one-active-run rule refuses for a run that is active in a session addressed.
LEMMA CheckActiveRefines ==
    ASSUME IInv, RouteInv, NEW q \in Requests, CheckActive(q)
    PROVE  Atomic!RefuseBusy(q) \/ UNCHANGED Atomic!vars
  <1> DEFINE c == picked[q]
  <1>1. CASE HasActiveRuns(c) /\ RollBack(q, "busy")
    <2>1. /\ pc[q] = "check" /\ answer[q] = "none" /\ session[q] = "absent"
          /\ c \in Sessions /\ (c # q => session[c] = "live")
      BY DEF CheckActive, IInv, RequestOK, OpenOK, PickedOK
    <2>2. c # q
      BY <1>1, <2>1 DEF HasActiveRuns, RouteInv, PlaceOK
    <2>3. c \in Atomic!Addressed(q) /\ AgentAt(c) = AgentOf(q)
      BY <2>1, <2>2, SameWords DEF RouteInv, RouteOK, Atomic!Addressed
    <2>4. ~Atomic!Reserved(q)
      BY <2>1 DEF IInv, RequestOK, KeyOK, KeyOf, Atomic!Reserved
    <2>5. UNCHANGED <<rows, asked>> /\ answer' = [answer EXCEPT ![q] = "busy"]
      BY <1>1, RollBackFacts DEF IInv
    <2>6. QED
      BY <1>1, <2>1, <2>3, <2>4, <2>5, SameWords
      DEF Atomic!RefuseBusy, Atomic!Tell, Atomic!tables, rows, AgentOf
  <1>2. CASE Goto(q, "commit") /\ UNCHANGED rows
    BY <1>2 DEF Goto, rows, Atomic!vars, Atomic!tables
  <1>3. QED
    BY <1>1, <1>2 DEF CheckActive

\* The reservation that answers a request is in force when it does.
LEMMA ReserveRefines ==
    ASSUME IInv, NEW q \in Requests, Reserve(q)
    PROVE  Atomic!Replay(q) \/ UNCHANGED Atomic!vars
  <1> DEFINE k == KeyOf(q)
             a == IF BodyOf(record[k]) = BodyOf(q) THEN "replayed" ELSE "key_reused"
  <1>1. CASE k # None /\ record[k] # None /\ ~expired[k] /\ RollBack(q, a)
    <2>1. UNCHANGED <<rows, asked>> /\ answer' = [answer EXCEPT ![q] = a]
      BY <1>1, RollBackFacts DEF IInv
    <2>2. answer[q] = "none"
      BY DEF Reserve, IInv, RequestOK, OpenOK
    <2>3. QED
      BY <1>1, <2>1, <2>2
      DEF Atomic!Replay, Atomic!Reserved, Atomic!Tell, Atomic!tables, rows, KeyOf, BodyOf
  <1>2. CASE Goto(q, "find") /\ UNCHANGED rows
    BY <1>2 DEF Goto, rows, Atomic!vars, Atomic!tables
  <1>3. QED
    BY <1>1, <1>2 DEF Reserve, rows

\* Every step is a step of AtomicStart, or one that callers do not see.
LEMMA NextRefines ==
    ASSUME IInv, RouteInv, Next
    PROVE  Atomic!Next \/ UNCHANGED Atomic!vars
  <1>1. ASSUME NEW q \in Requests, Start(q)
        PROVE  Atomic!Next \/ UNCHANGED Atomic!vars
    <2>1. CASE Reserve(q)
      BY <2>1, ReserveRefines DEF Atomic!Next
    <2>2. CASE FindById(q) \/ FindByName(q) \/ FindNothing(q) \/ RereadSession(q)
      BY <2>2, FindRefines DEF Atomic!Next
    <2>3. CASE CreateSession(q)
      BY <2>3 DEF CreateSession, Pick, Goto, rows, Atomic!vars, Atomic!tables
    <2>4. CASE CheckActive(q)
      BY <2>4, CheckActiveRefines DEF Atomic!Next
    <2>5. CASE Accept(q)
      BY <2>5, CommitIsAccept DEF Accept, Atomic!Next
    <2>6. QED
      BY <1>1, <2>1, <2>2, <2>3, <2>4, <2>5 DEF Start
  <1>2. ASSUME NEW q \in Requests, CommitReplyLost(q)
        PROVE  Atomic!Next
    BY <1>2, CommitIsAccept DEF CommitReplyLost, Atomic!Next
  <1>3. ASSUME NEW q \in Requests, FailTransaction(q)
        PROVE  Atomic!Next
    <2>1. UNCHANGED <<rows, asked>> /\ answer' = [answer EXCEPT ![q] = "error"]
      BY <1>3, RollBackFacts DEF FailTransaction, IInv
    <2>2. Atomic!Fail(q)
      BY <1>3, <2>1
      DEF FailTransaction, Atomic!Fail, Atomic!Tell, Atomic!tables, rows, IInv, RequestOK, OpenOK
    <2>3. QED
      BY <2>2 DEF Atomic!Next
  <1>4. ASSUME NEW q \in Requests, EndRun(q)
        PROVE  Atomic!Next
    BY <1>4 DEF EndRun, calls, Atomic!EndRun, Atomic!Next
  <1>5. ASSUME NEW s \in Sessions, LockForDelete(s)
        PROVE  UNCHANGED Atomic!vars
    BY <1>5 DEF LockForDelete, rows, calls, Atomic!vars, Atomic!tables
  <1>6. ASSUME NEW s \in Sessions, DeleteSession(s)
        PROVE  Atomic!Next \/ UNCHANGED Atomic!vars
    <2>1. session[s] = "live"
      BY <1>6 DEF DeleteSession, IInv, DeleterOK
    <2>2. CASE HasActiveRuns(s)
      BY <1>6, <2>2 DEF DeleteSession, calls, Atomic!vars, Atomic!tables
    <2>3. CASE ~HasActiveRuns(s)
      BY <1>6, <2>1, <2>3, SameWords DEF DeleteSession, calls, Atomic!DeleteSession, Atomic!Next
    <2>4. QED
      BY <2>2, <2>3
  <1>7. ASSUME NEW k \in Keys, Expire(k) \/ CleanUp(k)
        PROVE  Atomic!Next
    BY <1>7 DEF Expire, CleanUp, calls, Atomic!Expire, Atomic!CleanUp, Atomic!Next
  <1>8. QED
    BY <1>1, <1>2, <1>3, <1>4, <1>5, <1>6, <1>7 DEF Next

\* The locks of start and of DeleteSession are enough to serve each request as if at one
\* instant: statement by statement, whatever runs beside it, the transaction implements it.
THEOREM StartIsAtomic == Spec => ImplementsAtomicStart
  <1>1. Init => Atomic!Init
    BY DEF Init, Atomic!Init, Atomic!Sessions, Sessions
  <1>2. IInv /\ RouteInv /\ [Next]_vars => RouteInv'
    BY NextRoute, NextPlace DEF RouteInv
  <1>3. IInv /\ RouteInv /\ [Next]_vars => [Atomic!Next]_(Atomic!vars)
    BY NextRefines DEF vars, rows, calls, Atomic!vars, Atomic!tables
  <1>4. QED
    BY <1>1, <1>2, <1>3, InitRoute, Invariant, PTL
    DEF Spec, ImplementsAtomicStart, Atomic!Spec

-----------------------------------------------------------------------------
(* Who holds what, and that no circle of waiting requests can close.       *)

\* A lock belongs to an open transaction that has passed the statement which takes it.
HoldersOK ==
    /\ \A k \in Keys : keyHeld[k] # None => pc[keyHeld[k]] \in Stages \ {"reserve", "done"}
    /\ \A n \in Names : nameHeld[n] # None => pc[nameHeld[n]] \in {"check", "commit"}
    /\ \A s \in Sessions : rowHeld[s] \in Requests => pc[rowHeld[s]] \in {"check", "commit"}

\* The end of a transaction lets go of all it held, and of nothing else.
LEMMA LetGoHolders ==
    ASSUME TypeOK, HoldersOK, NEW q \in Requests, LetGo(q),
           pc' = [pc EXCEPT ![q] = "done"]
    PROVE  HoldersOK'
  <1>1. \A p \in Requests \ {q} : pc'[p] = pc[p]
    BY DEF TypeOK
  <1>2. /\ \A k \in Keys : keyHeld'[k] = IF keyHeld[k] = q THEN None ELSE keyHeld[k]
        /\ \A n \in Names : nameHeld'[n] = IF nameHeld[n] = q THEN None ELSE nameHeld[n]
        /\ \A s \in Sessions : rowHeld'[s] = IF rowHeld[s] = q THEN None ELSE rowHeld[s]
    BY DEF LetGo
  <1>3. QED
    BY <1>1, <1>2, NoneIsNothing DEF HoldersOK, TypeOK

\* A statement that goes on takes the lock it stands for, and keeps what it has.
LEMMA StartHolders ==
    ASSUME TypeOK, HoldersOK, NEW q \in Requests, Start(q)
    PROVE  HoldersOK'
  <1> USE DEF HoldersOK, TypeOK, Stages
  <1>1. ASSUME NEW a, RollBack(q, a)
        PROVE  HoldersOK'
    BY <1>1, LetGoHolders DEF RollBack, Answer
  <1>2. ASSUME NEW s \in Sessions, pc[q] \in {"find", "reread"}, LockSession(q, s)
        PROVE  HoldersOK'
    <2>1. CASE /\ rowHeld[s] = None /\ Pick(q, s)
               /\ rowHeld' = [rowHeld EXCEPT ![s] = q]
               /\ UNCHANGED <<keyHeld, nameHeld>>
      BY <1>2, <2>1, NoneIsNothing DEF Pick
    <2>2. QED
      BY <1>1, <1>2, <2>1 DEF LockSession
  <1>3. CASE Reserve(q)
    <2>1. CASE Goto(q, "find") /\ UNCHANGED locks
      BY <1>3, <2>1 DEF Reserve, Goto, locks
    <2>2. CASE /\ Goto(q, "find") /\ keyHeld' = [keyHeld EXCEPT ![KeyOf(q)] = q]
               /\ UNCHANGED <<nameHeld, rowHeld>>
      BY <1>3, <2>2 DEF Reserve, Goto
    <2>3. QED
      BY <1>1, <1>3, <2>1, <2>2 DEF Reserve
  <1>4. ASSUME NEW stage \in {"create", "reread"}, Goto(q, stage), UNCHANGED locks,
               pc[q] \in {"find", "create"}
        PROVE  HoldersOK'
    BY <1>4 DEF Goto, locks
  <1>5. CASE FindById(q)
    <2>1. Continues(q) \in Sessions
      BY <1>5, AskedOK DEF FindById
    <2>2. QED
      BY <1>1, <1>2, <1>5, <2>1 DEF FindById
  <1>6. CASE FindByName(q) \/ FindNothing(q) \/ RereadSession(q)
    <2>1. \A s \in LiveNamed(NameOf(q)) : s \in Sessions
      BY DEF LiveNamed
    <2>2. QED
      BY <1>1, <1>2, <1>4, <1>6, <2>1 DEF FindByName, FindNothing, RereadSession
  <1>7. CASE CreateSession(q)
    <2>1. CASE Pick(q, q) /\ UNCHANGED locks
      BY <1>7, <2>1 DEF CreateSession, Pick, locks
    <2>2. CASE /\ Pick(q, q) /\ nameHeld' = [nameHeld EXCEPT ![NameOf(q)] = q]
               /\ UNCHANGED <<keyHeld, rowHeld>>
      BY <1>7, <2>2 DEF CreateSession, Pick
    <2>3. QED
      BY <1>4, <1>7, <2>1, <2>2 DEF CreateSession
  <1>8. CASE CheckActive(q)
    <2>1. CASE Goto(q, "commit") /\ UNCHANGED locks
      BY <1>8, <2>1 DEF CheckActive, Goto, locks
    <2>2. QED
      BY <1>1, <1>8, <2>1 DEF CheckActive
  <1>9. CASE Accept(q)
    BY <1>9, LetGoHolders DEF Accept, Commit, Answer
  <1>10. QED
    BY <1>3, <1>5, <1>6, <1>7, <1>8, <1>9 DEF Start

LEMMA NextHolders ==
    ASSUME TypeOK, HoldersOK, [Next]_vars
    PROVE  HoldersOK'
  <1>1. CASE UNCHANGED <<locks, pc>>
    BY <1>1 DEF HoldersOK, locks
  <1>2. ASSUME NEW q \in Requests, CommitReplyLost(q) \/ FailTransaction(q)
        PROVE  HoldersOK'
    BY <1>2, LetGoHolders DEF CommitReplyLost, FailTransaction, Commit, RollBack, Answer
  <1>3. ASSUME NEW s \in Sessions, LockForDelete(s) \/ DeleteSession(s)
        PROVE  HoldersOK'
    <2>1. UNCHANGED <<pc, keyHeld, nameHeld>>
      BY <1>3 DEF LockForDelete, DeleteSession, calls
    <2>2. \A t \in Sessions : rowHeld'[t] \in Requests => rowHeld'[t] = rowHeld[t]
      BY <1>3, RunStartAssumption, NoneIsNothing
      DEF LockForDelete, DeleteSession, TypeOK, RunStartAssumption
    <2>3. QED
      BY <2>1, <2>2 DEF HoldersOK
  <1>4. ASSUME NEW q \in Requests, EndRun(q)
        PROVE  UNCHANGED <<locks, pc>>
    BY <1>4 DEF EndRun, calls
  <1>5. ASSUME NEW k \in Keys, Expire(k) \/ CleanUp(k)
        PROVE  UNCHANGED <<locks, pc>>
    BY <1>5 DEF Expire, CleanUp, calls
  <1>6. UNCHANGED vars => UNCHANGED <<locks, pc>>
    BY DEF vars, calls
  <1>7. QED
    BY <1>1, <1>2, <1>3, <1>4, <1>5, <1>6, StartHolders DEF Next

\* Requests never wait in a circle: a request waits for one that is further on, and one
\* that has its session waits for nobody.
THEOREM NoCircularWait == Spec => []WaitsAreOrdered
  <1>1. Init => HoldersOK
    BY NoneIsNothing DEF Init, HoldersOK
  <1>2. TypeOK /\ HoldersOK => WaitsAreOrdered
    <2> SUFFICES ASSUME TypeOK, HoldersOK, NEW q \in Requests, NEW h \in Requests,
                        WaitsFor(q, h)
                 PROVE  \/ pc[h] \in {"check", "commit"}
                        \/ pc[q] = "reserve" /\ pc[h] \in {"find", "create", "reread"}
      BY DEF WaitsAreOrdered
    <2>1. KeyOf(q) \in Keys \cup {None} /\ NameOf(q) \in Names \cup {None}
      BY AskedOK
    <2>2. QED
      BY <2>1, NoneIsNothing DEF WaitsFor, HoldersOK, Stages
  <1>3. TypeOK /\ HoldersOK /\ [Next]_vars => HoldersOK'
    BY NextHolders
  <1>4. QED
    BY <1>1, <1>2, <1>3, TypeCorrect, PTL DEF Spec
=============================================================================
