-------------------------- MODULE WebServer_proofs --------------------------
(***************************************************************************)
(* Proofs about WebServer, for any number of connections, any limit and    *)
(* any mixture of requests, failures and restarts: what the two locks are  *)
(* for, and what the scan jobs do without one.  The lock of the repository *)
(* keeps the limit of devices, the lock of the configuration keeps what is *)
(* in use and in the file together; a job that is done has found all.      *)
(***************************************************************************)
EXTENDS WebServer, Basics, SequenceTheorems

Sections == {"idle", "cfg", "save", "network", "repo", "probing", "registering", "jobs", "answer"}
Locals   == [kind: Kinds \cup {"none"}, at: Sections,
             input: Seq(Ips) \cup Seq(Values) \cup Seq(Cidrs), slots: Nat]

\* The sections a handler holds a lock in.
Under(lock) == IF lock = "cfg" THEN {"save"} ELSE {"probing", "registering"}
Locks == {"cfg", "repo"}

\* A handler holds a lock exactly in the sections under it.
LocksHeld ==
  \A t \in Threads : \A lock \in Locks : holder[lock] = t <=> thread[t].at \in Under(lock)

LockInv ==
  /\ thread \in [Threads -> Locals] /\ holder \in [cfg: Holders, repo: Holders]
  /\ budget \in Budgets
  /\ LocksHeld

\* Only thread t moves.
OnlyMoves(t) ==
  /\ thread' \in [Threads -> Locals]
  /\ \A u \in Threads \ {t} : thread'[u] = thread[u]

LEMMA AnsweringIsLocal ==
  Answering \in Locals /\ Idle \in Locals /\ Answering.at = "answer" /\ Idle.at = "idle"
<1>1. Idle \in Locals /\ Idle.at = "idle"
  BY DEF Idle, Locals, Sections
<1>2. Answering = [kind |-> "none", at |-> "answer", input |-> <<>>, slots |-> 0]
  BY DEF Answering, Idle
<1> QED
  BY <1>1, <1>2 DEF Locals, Sections

\* Goto moves one thread, to the place it says.
LEMMA GotoMoves ==
  ASSUME LockInv, NEW t \in Threads, NEW place \in Sections, Goto(t, place)
  PROVE  OnlyMoves(t) /\ thread'[t].at = place
<1>1. thread[t] \in Locals
  BY DEF LockInv
<1>2. CASE place = "answer"
  BY <1>2, AnsweringIsLocal DEF Goto, OnlyMoves, LockInv
<1>3. CASE place # "answer"
  <2>1. thread' = [thread EXCEPT ![t] = [@ EXCEPT !.at = place]]
    BY <1>3 DEF Goto
  <2>2. [thread[t] EXCEPT !.at = place] \in Locals
        /\ [thread[t] EXCEPT !.at = place].at = place
    BY <1>1 DEF Locals
  <2> QED
    BY <2>1, <2>2 DEF OnlyMoves, LockInv
<1> QED
  BY <1>2, <1>3

\* A thread that takes or lets go a lock, as its section says, leaves the others theirs.
LEMMA MoveKeepsLocks ==
  ASSUME ThreadsAssumption, LockInv, NEW t \in Threads, OnlyMoves(t), UNCHANGED budget,
         holder' \in [cfg: Holders, repo: Holders],
         \A lock \in Locks :
           /\ holder'[lock] = t <=> thread'[t].at \in Under(lock)
           /\ holder'[lock] = holder[lock] \/ {holder[lock], holder'[lock]} \subseteq {t, "free"}
  PROVE  LockInv'
<1>1. ASSUME NEW u \in Threads \ {t}, NEW lock \in Locks
      PROVE  holder'[lock] = u <=> thread'[u].at \in Under(lock)
  <2>1. holder'[lock] = u <=> holder[lock] = u
    BY DEF ThreadsAssumption
  <2> QED
    BY <2>1 DEF LockInv, LocksHeld, OnlyMoves
<1> QED
  BY <1>1 DEF LockInv, LocksHeld, OnlyMoves

\* A move between sections without a lock.
LEMMA MoveWithoutLock ==
  ASSUME ThreadsAssumption, LockInv, NEW t \in Threads, OnlyMoves(t), UNCHANGED <<holder, budget>>,
         thread[t].at \notin {"save", "probing", "registering"},
         thread'[t].at \notin {"save", "probing", "registering"}
  PROVE  LockInv'
<1>1. \A lock \in Locks : holder'[lock] = holder[lock]
        /\ (holder'[lock] = t <=> thread'[t].at \in Under(lock))
  BY DEF LockInv, LocksHeld, Under, Locks
<1> QED
  BY <1>1, MoveKeepsLocks DEF LockInv

\* A move that takes or lets go the lock of the section it enters or leaves.
LEMMA MoveWithLock ==
  ASSUME ThreadsAssumption, LockInv, NEW t \in Threads, OnlyMoves(t), UNCHANGED budget,
         NEW lock \in Locks, NEW other \in Locks \ {lock}, NEW h \in {t, "free"}, Hold(lock, h),
         holder[lock] \in {t, "free"},
         h = t <=> thread'[t].at \in Under(lock),
         thread[t].at \notin Under(other), thread'[t].at \notin Under(other)
  PROVE  LockInv'
<1>1. holder'[lock] = h /\ holder'[other] = holder[other]
      /\ holder' \in [cfg: Holders, repo: Holders]
  BY DEF Hold, LockInv, Holders, Locks
<1>2. holder[other] # t
  BY DEF LockInv, LocksHeld
<1>3. \A l \in Locks : l = lock \/ l = other
  BY DEF Locks
<1> QED
  BY <1>1, <1>2, <1>3, MoveKeepsLocks

-----------------------------------------------------------------------------
(* The locks.                                                              *)

LEMMA LockInit == ASSUME ThreadsAssumption PROVE Init => LockInv
<1>1. SUFFICES ASSUME Init PROVE LockInv
  OBVIOUS
<1>2. thread \in [Threads -> Locals] /\ \A t \in Threads : thread[t].at = "idle"
  BY <1>1, AnsweringIsLocal DEF Init
<1>3. holder \in [cfg: Holders, repo: Holders] /\ \A lock \in Locks : holder[lock] = "free"
  BY <1>1 DEF Init, Free, Holders, Locks
<1>4. "free" \notin Threads
  BY DEF ThreadsAssumption
<1>5. LocksHeld
  BY <1>2, <1>3, <1>4 DEF LocksHeld, Under
<1> QED
  BY <1>1, <1>2, <1>3, <1>5 DEF Init, LockInv

\* What a request says is a sequence of addresses, of ranges or of values.
LEMMA InputsAreTyped ==
  ASSUME LimitsAssumption, BudgetsAssumption, LockInv, NEW kind \in Kinds, NEW input \in Inputs(kind)
  PROVE  input \in Seq(Ips) \cup Seq(Values) \cup Seq(Cidrs)
<1>1. CASE kind \in {"settings", "oids", "detail", "delete"}
  <2>1. input \in {<<v>> : v \in Values} \cup {<<ip>> : ip \in Ips}
    BY <1>1 DEF Inputs
  <2>2. CASE \E v \in Values : input = <<v>>
    BY <2>2
  <2>3. CASE \E ip \in Ips : input = <<ip>>
    BY <2>3
  <2> QED
    BY <2>1, <2>2, <2>3
<1>2. CASE kind = "register"
  BY <1>2 DEF Inputs, LimitsAssumption
<1>3. CASE kind = "scan"
  <2>1. budget.ranges \in Nat
    BY DEF LockInv, BudgetsAssumption
  <2>2. PICK n \in 0 .. budget.ranges : input \in [1 .. n -> Cidrs]
    BY <1>3 DEF Inputs
  <2>3. Seq(Cidrs) = UNION {[1 .. m -> Cidrs] : m \in Nat}
    BY SeqDef
  <2> QED
    BY <2>1, <2>2, <2>3
<1>4. CASE kind \notin {"settings", "oids", "detail", "delete", "register", "scan"}
  <2>1. input = <<>>
    BY <1>4 DEF Inputs
  <2> QED
    BY <2>1
<1> QED
  BY <1>1, <1>2, <1>3, <1>4

LEMMA AcceptKeepsLocks ==
  ASSUME LimitsAssumption, BudgetsAssumption, ThreadsAssumption, LockInv,
         NEW t \in Threads, Accept(t)
  PROVE  LockInv' /\ thread'[t].at \notin {"save", "probing", "registering"} /\ OnlyMoves(t)
<1>1. PICK kind \in budget.kinds : \E input \in Inputs(kind), handled \in BOOLEAN :
        thread' = [thread EXCEPT ![t] =
          IF handled /\ kind # "asset"
            THEN [kind |-> kind, at |-> FirstSection(kind), input |-> input, slots |-> 0]
            ELSE Answering]
  BY DEF Accept
<1>2. kind \in Kinds
  BY DEF LockInv, BudgetsAssumption
<1>3. PICK input \in Inputs(kind), handled \in BOOLEAN :
        thread' = [thread EXCEPT ![t] =
          IF handled /\ kind # "asset"
            THEN [kind |-> kind, at |-> FirstSection(kind), input |-> input, slots |-> 0]
            ELSE Answering]
  BY <1>1
<1>4. input \in Seq(Ips) \cup Seq(Values) \cup Seq(Cidrs)
  BY <1>2, InputsAreTyped
<1>5. FirstSection(kind) \in {"jobs", "repo", "cfg"}
  BY DEF FirstSection
<1>6. [kind |-> kind, at |-> FirstSection(kind), input |-> input, slots |-> 0] \in Locals
  BY <1>2, <1>4, <1>5 DEF Locals, Sections
<1>7. thread'[t] \in {[kind |-> kind, at |-> FirstSection(kind), input |-> input, slots |-> 0],
                      Answering}
      /\ OnlyMoves(t)
  BY <1>3, <1>6, AnsweringIsLocal DEF LockInv, OnlyMoves
<1>8. thread'[t].at \in {"jobs", "repo", "cfg", "answer"}
  BY <1>5, <1>7, AnsweringIsLocal
<1>9. thread[t].at = "idle" /\ UNCHANGED <<holder, budget>>
  BY DEF Accept
<1> QED
  BY <1>7, <1>8, <1>9, MoveWithoutLock

\* Steps of a handler that hold no lock before or after.
Unlocked(t) ==
  \/ Answer(t) \/ ReadConfig(t) \/ Probe(t) \/ ReadRepository(t) \/ DeleteDevice(t)
  \/ StartScan(t) \/ ScanStatus(t)

LEMMA UnlockedKeepsLocks ==
  ASSUME ThreadsAssumption, LockInv, NEW t \in Threads, Unlocked(t)
  PROVE  LockInv' /\ thread'[t].at \notin {"save", "probing", "registering"} /\ OnlyMoves(t)
<1>1. UNCHANGED <<holder, budget>> /\ thread[t].at \in {"answer", "cfg", "network", "repo", "jobs"}
  BY DEF Unlocked, Answer, ReadConfig, Probe, ReadRepository, DeleteDevice, StartScan, ScanStatus,
         At, counters
<1>2. CASE Answer(t)
  <2>1. OnlyMoves(t) /\ thread'[t].at = "idle"
    BY <1>2, AnsweringIsLocal DEF Answer, LockInv, OnlyMoves
  <2> QED
    BY <1>1, <2>1, MoveWithoutLock
<1>3. CASE ~Answer(t)
  <2>1. PICK place \in {"repo", "network", "answer"} : Goto(t, place)
    BY <1>3 DEF Unlocked, ReadConfig, Probe, ReadRepository, DeleteDevice, StartScan, ScanStatus
  <2>2. OnlyMoves(t) /\ thread'[t].at = place
    BY <2>1, GotoMoves DEF Sections
  <2> QED
    BY <1>1, <2>1, <2>2, MoveWithoutLock
<1> QED
  BY <1>2, <1>3

\* Steps under the lock of the configuration.
LEMMA ConfigKeepsLocks ==
  ASSUME ThreadsAssumption, LockInv, NEW t \in Threads,
         TakeSettings(t) \/ TakeOids(t) \/ SaveConfig(t) \/ SaveConfigFails(t)
  PROVE  LockInv' /\ thread'[t].at \notin {"probing", "registering"} /\ OnlyMoves(t)
<1>1. PICK place \in {"answer", "save"} : Goto(t, place)
  BY DEF TakeSettings, TakeOids, SaveConfig, SaveConfigFails
<1>2. OnlyMoves(t) /\ thread'[t].at = place
  BY <1>1, GotoMoves DEF Sections
<1>3. UNCHANGED budget /\ thread[t].at \in {"cfg", "save"}
  BY DEF TakeSettings, TakeOids, SaveConfig, SaveConfigFails, At, counters
<1>4. CASE holder' = holder /\ thread[t].at = "cfg" /\ thread'[t].at = "answer"
  BY <1>2, <1>3, <1>4, MoveWithoutLock
<1>5. CASE Hold("cfg", t) /\ IsFree("cfg") /\ thread'[t].at = "save"
  <2>1. holder["cfg"] \in {t, "free"}
    BY <1>5 DEF IsFree
  <2> QED
    BY <1>2, <1>3, <1>5, <2>1, MoveWithLock DEF Locks, Under
<1>6. CASE Hold("cfg", "free") /\ thread[t].at = "save" /\ thread'[t].at = "answer"
  <2>1. holder["cfg"] = t /\ "free" # t
    BY <1>6 DEF LockInv, LocksHeld, Locks, Under, ThreadsAssumption
  <2> QED
    BY <1>2, <1>3, <1>6, <2>1, MoveWithLock DEF Locks, Under
<1>7. \/ holder' = holder /\ thread[t].at = "cfg" /\ Goto(t, "answer")
      \/ Hold("cfg", t) /\ IsFree("cfg") /\ Goto(t, "save")
      \/ Hold("cfg", "free") /\ thread[t].at = "save" /\ Goto(t, "answer")
  BY DEF TakeSettings, TakeOids, SaveConfig, SaveConfigFails, At, Release
<1>8. \A p \in {"answer", "save"} : Goto(t, p) => thread'[t].at = p
  BY GotoMoves DEF Sections
<1> QED
  BY <1>2, <1>4, <1>5, <1>6, <1>7, <1>8

\* Steps under the lock of the repository.
LEMMA DetailKeepsLocks ==
  ASSUME ThreadsAssumption, LockInv, NEW t \in Threads, TakeDetail(t) \/ EndDetail(t)
  PROVE  LockInv' /\ thread'[t].at \notin {"save", "registering"} /\ OnlyMoves(t)
<1>1. UNCHANGED budget /\ thread[t].at \in {"repo", "probing"}
  BY DEF TakeDetail, EndDetail, At, counters
<1>2. \A p \in {"answer", "probing"} : Goto(t, p) => OnlyMoves(t) /\ thread'[t].at = p
  BY GotoMoves DEF Sections
<1>3. CASE holder' = holder /\ thread[t].at = "repo" /\ Goto(t, "answer")
  BY <1>1, <1>2, <1>3, MoveWithoutLock
<1>4. CASE Hold("repo", t) /\ IsFree("repo") /\ Goto(t, "probing")
  <2>1. holder["repo"] \in {t, "free"}
    BY <1>4 DEF IsFree
  <2> QED
    BY <1>1, <1>2, <1>4, <2>1, MoveWithLock DEF Locks, Under
<1>5. CASE Hold("repo", "free") /\ thread[t].at = "probing" /\ Goto(t, "answer")
  <2>1. holder["repo"] = t /\ "free" # t
    BY <1>5 DEF LockInv, LocksHeld, Locks, Under, ThreadsAssumption
  <2> QED
    BY <1>1, <1>2, <1>5, <2>1, MoveWithLock DEF Locks, Under
<1> QED
  BY <1>3, <1>4, <1>5 DEF TakeDetail, EndDetail, At, Release

\* The devices are counted and registered under one lock, which is let go at the end.
LEMMA RegistrationKeepsLocks ==
  ASSUME LimitsAssumption, ThreadsAssumption, LockInv, NEW t \in Threads,
         CountDevices(t) \/ RegisterDevice(t) \/ EndRegistration(t), IsFiniteSet(rows)
  PROVE  LockInv' /\ OnlyMoves(t)
<1>1. UNCHANGED budget /\ thread[t].at \in {"repo", "registering"} /\ thread[t] \in Locals
  BY DEF CountDevices, RegisterDevice, EndRegistration, At, counters, LockInv
<1>2. Goto(t, "answer") => OnlyMoves(t) /\ thread'[t].at = "answer"
  BY GotoMoves DEF Sections
<1>3. CASE CountDevices(t)
  <2>1. CASE Goto(t, "answer") /\ UNCHANGED holder
    BY <1>1, <1>2, <1>3, <2>1, MoveWithoutLock DEF CountDevices, At
  <2>2. CASE thread' = [thread EXCEPT ![t].at = "registering", ![t].slots = Slots]
             /\ Hold("repo", CountingHolder(t))
    <3>1. Slots \in Nat
      BY FS_CardinalityType DEF Slots, LimitsAssumption
    <3>2. OnlyMoves(t) /\ thread'[t].at = "registering"
      BY <1>1, <2>2, <3>1 DEF LockInv, OnlyMoves, Locals, Sections
    <3>3. holder["repo"] \in {t, "free"} /\ thread[t].at = "repo" /\ Hold("repo", t)
      BY <1>3, <2>2 DEF CountDevices, At, IsFree, CountingHolder
    <3> QED
      BY <1>1, <3>2, <3>3, MoveWithLock DEF Locks, Under
  <2> QED
    BY <1>3, <2>1, <2>2 DEF CountDevices
<1>4. CASE RegisterDevice(t)
  <2>1. thread[t].input # <<>> /\ thread[t].at = "registering" /\ holder' = holder
    BY <1>4 DEF RegisterDevice, At
  <2>2. PICK n \in {thread[t].slots, thread[t].slots - 1} :
          /\ n \in Nat
          /\ thread' = [thread EXCEPT ![t].input = Tail(@), ![t].slots = n]
    <3>1. thread[t].slots \in Nat
      BY <1>1 DEF Locals
    <3>2. CASE thread' = [thread EXCEPT ![t].input = Tail(@), ![t].slots = thread[t].slots]
      BY <3>1, <3>2
    <3>3. CASE /\ thread[t].slots > 0
               /\ thread' = [thread EXCEPT ![t].input = Tail(@), ![t].slots = thread[t].slots - 1]
      BY <3>1, <3>3
    <3> QED
      BY <1>4, <3>2, <3>3 DEF RegisterDevice
  <2>3. Tail(thread[t].input) \in Seq(Ips) \cup Seq(Values) \cup Seq(Cidrs)
    <3>1. thread[t].input \in Seq(Ips) \cup Seq(Values) \cup Seq(Cidrs)
      BY <1>1 DEF Locals
    <3> QED
      BY <2>1, <3>1
  <2>4. OnlyMoves(t) /\ thread'[t].at = "registering"
    BY <1>1, <2>1, <2>2, <2>3 DEF LockInv, OnlyMoves, Locals
  <2>5. \A lock \in Locks : holder'[lock] = t <=> thread'[t].at \in Under(lock)
    BY <2>1, <2>4 DEF LockInv, LocksHeld
  <2> QED
    BY <1>1, <2>1, <2>4, <2>5, MoveKeepsLocks DEF LockInv
<1>5. CASE EndRegistration(t)
  <2>1. thread[t].at = "registering" /\ Goto(t, "answer") /\ Hold("repo", "free")
    BY <1>5 DEF EndRegistration, At, Release
  <2>2. holder["repo"] = t /\ "free" # t
    BY <2>1 DEF LockInv, LocksHeld, Locks, Under, ThreadsAssumption
  <2> QED
    BY <1>1, <1>2, <2>1, <2>2, MoveWithLock DEF Locks, Under
<1> QED
  BY <1>3, <1>4, <1>5

-----------------------------------------------------------------------------
(* The limit of devices.                                                   *)

\* The rows that count: those the Web server answers for.
Own == rows \ elsewhere

\* A registration has no more slots left than the table has.
LimitInv ==
  /\ IsFiniteSet(rows) /\ Cardinality(Own) <= MaxDevices
  /\ \A t \in Threads :
       thread[t].at = "registering" => thread[t].slots + Cardinality(Own) <= MaxDevices

LEMMA OwnIsFinite ==
  ASSUME IsFiniteSet(rows)
  PROVE  IsFiniteSet(Own) /\ Cardinality(Own) \in Nat /\ Cardinality(Own) <= Cardinality(rows)
         /\ Cardinality(rows) \in Nat
<1>1. Own \in SUBSET rows
  BY DEF Own
<1> QED
  BY <1>1, FS_Subset, FS_CardinalityType

LEMMA LimitInit == ASSUME LimitsAssumption PROVE Init => LimitInv
<1>1. SUFFICES ASSUME Init PROVE LimitInv
  OBVIOUS
<1>2. IsFiniteSet(rows) /\ Cardinality(rows) <= 1
  <2>1. CASE rows = {}
    BY <2>1, FS_EmptySet
  <2>2. CASE rows = {1}
    <3>1. IsFiniteSet({1}) /\ Cardinality({1}) = 1
      BY FS_Singleton, Zenon
    <3> QED
      BY <2>2, <3>1
  <2> QED
    BY <1>1, <2>1, <2>2 DEF Init
<1>3. \A t \in Threads : thread[t].at # "registering"
  BY <1>1 DEF Init, Idle
<1> QED
  BY <1>2, <1>3, OwnIsFinite DEF LimitInv, LimitsAssumption

\* A step that brings no row of the Web server's own, and lets nobody begin to register.
LEMMA NoNewRowKeepsLimit ==
  ASSUME LimitsAssumption, LockInv, LimitInv, IsFiniteSet(rows'), Own' \subseteq Own,
         thread' \in [Threads -> Locals],
         \A t \in Threads : thread'[t].at = "registering" => thread'[t] = thread[t]
  PROVE  LimitInv'
<1>1. Cardinality(Own') <= Cardinality(Own) /\ Cardinality(Own) \in Nat /\ Cardinality(Own') \in Nat
  BY OwnIsFinite, FS_Subset, FS_CardinalityType DEF LimitInv
<1>2. MaxDevices \in Nat
  BY DEF LimitsAssumption
<1>3. \A t \in Threads : thread[t].slots \in Nat
  BY DEF LockInv, Locals
<1> QED
  BY <1>1, <1>2, <1>3 DEF LimitInv

\* The same for a step of one thread.
LEMMA MoveKeepsLimit ==
  ASSUME LimitsAssumption, LockInv, LimitInv, NEW t \in Threads, OnlyMoves(t),
         thread'[t].at # "registering", UNCHANGED rowVars
  PROVE  LimitInv'
<1>1. Own' = Own /\ IsFiniteSet(rows')
  BY DEF rowVars, Own, LimitInv
<1> QED
  BY <1>1, NoNewRowKeepsLimit DEF OnlyMoves

\* Who registers has the repository to himself: his slots are those of the table.
LEMMA RegistrationKeepsLimit ==
  ASSUME LimitsAssumption, ThreadsAssumption, LockInv, LimitInv, NEW t \in Threads,
         CountDevices(t) \/ RegisterDevice(t) \/ EndRegistration(t)
  PROVE  LimitInv'
<1>1. OnlyMoves(t)
  BY RegistrationKeepsLocks DEF LimitInv
<1>2. MaxDevices \in Nat /\ Cardinality(Own) \in Nat /\ Cardinality(rows) \in Nat
      /\ Cardinality(Own) <= Cardinality(rows) /\ Cardinality(Own) <= MaxDevices
      /\ IsFiniteSet(rows) /\ IsFiniteSet(Own)
  BY OwnIsFinite DEF LimitInv, LimitsAssumption
<1>3. Goto(t, "answer") => thread'[t].at = "answer"
  BY GotoMoves DEF Sections
<1>4. CASE CountDevices(t)
  <2>1. Own' = Own /\ rows' = rows
    BY <1>4 DEF CountDevices, rowVars, Own
  <2>2. CASE Goto(t, "answer")
    BY <1>1, <1>3, <1>4, <2>2, MoveKeepsLimit DEF CountDevices
  <2>3. CASE thread' = [thread EXCEPT ![t].at = "registering", ![t].slots = Slots]
    <3>1. thread'[t].slots = Slots
      BY <2>3 DEF LockInv, Locals
    <3>2. Slots \in Nat /\ Slots + Cardinality(Own) <= MaxDevices
      BY <1>2 DEF Slots
    <3> QED
      BY <1>1, <1>2, <2>1, <3>1, <3>2 DEF LimitInv, OnlyMoves
  <2> QED
    BY <1>4, <2>2, <2>3 DEF CountDevices
<1>5. CASE RegisterDevice(t)
  <2>1. thread[t].at = "registering" /\ holder["repo"] = t /\ elsewhere' = elsewhere
    BY <1>5 DEF RegisterDevice, At, LockInv, LocksHeld, Locks, Under
  <2>2. \A u \in Threads : thread'[u].at = "registering" => u = t
    BY <1>1, <2>1 DEF LockInv, LocksHeld, Locks, Under, OnlyMoves
  <2>3. thread[t].slots \in Nat /\ thread[t].slots + Cardinality(Own) <= MaxDevices
    BY <2>1 DEF LockInv, Locals, LimitInv
  <2>4. CASE thread' = [thread EXCEPT ![t].input = Tail(@), ![t].slots = thread[t].slots]
             /\ rows' = rows
    <3>1. thread'[t].slots = thread[t].slots /\ Own' = Own
      BY <2>1, <2>4 DEF LockInv, Locals, Own
    <3> QED
      BY <1>2, <2>2, <2>3, <2>4, <3>1 DEF LimitInv
  <2>5. ASSUME NEW ip, ip \notin rows, thread[t].slots > 0, rows' = rows \cup {ip},
               thread' = [thread EXCEPT ![t].input = Tail(@), ![t].slots = thread[t].slots - 1]
        PROVE  LimitInv'
    <3>1. thread'[t].slots = thread[t].slots - 1
      BY <2>5 DEF LockInv, Locals
    <3>2. Own' \in SUBSET (Own \cup {ip}) /\ ip \notin Own
      BY <2>1, <2>5 DEF Own
    <3>3. IsFiniteSet(Own \cup {ip}) /\ Cardinality(Own \cup {ip}) = Cardinality(Own) + 1
          /\ IsFiniteSet(rows')
      BY <1>2, <2>5, <3>2, FS_AddElement
    <3>4. Cardinality(Own') <= Cardinality(Own) + 1 /\ Cardinality(Own') \in Nat
      BY <3>2, <3>3, FS_Subset, FS_CardinalityType
    <3>5. Cardinality(Own') <= MaxDevices
      BY <1>2, <2>3, <2>5, <3>4
    <3>6. thread'[t].slots + Cardinality(Own') <= MaxDevices
      BY <1>2, <2>3, <3>1, <3>4
    <3> QED
      BY <2>2, <3>3, <3>5, <3>6 DEF LimitInv
  <2> QED
    BY <1>5, <2>4, <2>5 DEF RegisterDevice
<1>6. CASE EndRegistration(t)
  <2>1. Goto(t, "answer") /\ UNCHANGED rowVars
    BY <1>6 DEF EndRegistration
  <2> QED
    BY <1>1, <1>3, <2>1, MoveKeepsLimit
<1> QED
  BY <1>4, <1>5, <1>6

-----------------------------------------------------------------------------
(* The settings.                                                           *)

IsConfiguration(c) == c = [settings |-> c.settings, oids |-> c.oids]

\* The settings in use are those last acknowledged, at every moment; the file has them
\* unless a save has failed half-way, and all of the configuration once the lock is free.
SettingsInv ==
  /\ IsConfiguration(config) /\ IsConfiguration(file)
  /\ config.settings = acked
  /\ ~torn => file.settings = acked
  /\ lastSave = "ok" /\ IsFree("cfg") => file = config

LEMMA SettingsInit == Init => SettingsInv
BY DEF Init, SettingsInv, IsConfiguration

\* A step that changes no settings and does not let their lock go.
LEMMA SettingsUntouched ==
  ASSUME SettingsInv, UNCHANGED settingsVars, IsFree("cfg")' => IsFree("cfg")
  PROVE  SettingsInv'
BY DEF SettingsInv, settingsVars, IsConfiguration

LEMMA ConfigKeepsSettings ==
  ASSUME ThreadsAssumption, LockInv, SettingsInv, NEW t \in Threads,
         TakeSettings(t) \/ TakeOids(t) \/ SaveConfig(t) \/ SaveConfigFails(t)
  PROVE  SettingsInv'
<1>1. "free" # t /\ "cfg" \in DOMAIN holder
  BY DEF ThreadsAssumption, LockInv
<1>2. Hold("cfg", t) => ~IsFree("cfg")'
  BY <1>1 DEF Hold, IsFree
<1>3. CASE TakeSettings(t)
  <2>1. UNCHANGED settingsVars /\ (IsFree("cfg")' => IsFree("cfg"))
    BY <1>3 DEF TakeSettings
  <2> QED
    BY <2>1, SettingsUntouched
<1>4. CASE TakeOids(t)
  <2>1. config' = [config EXCEPT !.oids = thread[t].input[1]] /\ ~IsFree("cfg")'
        /\ UNCHANGED <<file, acked, lastSave, torn>>
    BY <1>2, <1>4 DEF TakeOids
  <2>2. config'.settings = config.settings /\ IsConfiguration(config')
    BY <2>1 DEF SettingsInv, IsConfiguration
  <2> QED
    BY <2>1, <2>2 DEF SettingsInv, IsConfiguration
<1>5. IsConfiguration(Updated(t))
  BY DEF Updated, SettingsInv, IsConfiguration
<1>6. CASE SaveConfig(t)
  <2>1. config' = Updated(t) /\ file' = Updated(t) /\ acked' = Updated(t).settings
    BY <1>6 DEF SaveConfig
  <2> QED
    BY <1>5, <2>1 DEF SettingsInv, IsConfiguration
<1>7. CASE SaveConfigFails(t)
  <2>1. config' = config /\ acked' = acked /\ lastSave' = "failed"
        /\ (UNCHANGED <<file, torn>> \/ (file' = Updated(t) /\ torn' = TRUE))
    BY <1>7 DEF SaveConfigFails, AfterFailure
  <2> QED
    BY <1>5, <2>1 DEF SettingsInv, IsConfiguration
<1> QED
  BY <1>3, <1>4, <1>6, <1>7

-----------------------------------------------------------------------------
(* The whole system.                                                       *)

WebInv == LockInv /\ LimitInv /\ SettingsInv

\* A step of a handler, under whichever lock it is made.
LEMMA HandlerKeeps ==
  ASSUME LimitsAssumption, BudgetsAssumption, ThreadsAssumption, WebInv,
         NEW t \in Threads, Accept(t) \/ Handler(t)
  PROVE  WebInv'
<1> USE DEF WebInv
<1>1. CASE Accept(t)
  <2>1. UNCHANGED <<settingsVars, rowVars>> /\ (IsFree("cfg")' => IsFree("cfg"))
    BY <1>1 DEF Accept, IsFree
  <2> QED
    BY <1>1, <2>1, AcceptKeepsLocks, MoveKeepsLimit, SettingsUntouched
<1>2. CASE Unlocked(t)
  <2>1. UNCHANGED settingsVars /\ (IsFree("cfg")' => IsFree("cfg"))
    BY <1>2 DEF Unlocked, Answer, ReadConfig, Probe, ReadRepository, DeleteDevice, StartScan,
                ScanStatus, IsFree
  <2>2. LockInv' /\ SettingsInv' /\ OnlyMoves(t) /\ thread'[t].at # "registering"
    BY <1>2, <2>1, UnlockedKeepsLocks, SettingsUntouched
  <2>3. CASE DeleteDevice(t)
    <3>1. PICK ip : rows' = rows \ {ip} /\ elsewhere' = elsewhere \ {ip}
      BY <2>3 DEF DeleteDevice
    <3>2. Own' \subseteq Own /\ IsFiniteSet(rows')
      BY <3>1, FS_RemoveElement DEF Own, LimitInv
    <3> QED
      BY <2>2, <3>2, NoNewRowKeepsLimit DEF OnlyMoves
  <2>4. CASE ~DeleteDevice(t)
    <3>1. UNCHANGED rowVars
      BY <1>2, <2>4 DEF Unlocked, Answer, ReadConfig, Probe, ReadRepository, StartScan, ScanStatus
    <3> QED
      BY <2>2, <3>1, MoveKeepsLimit
  <2> QED
    BY <2>3, <2>4
<1>3. CASE TakeSettings(t) \/ TakeOids(t) \/ SaveConfig(t) \/ SaveConfigFails(t)
  <2>1. UNCHANGED rowVars
    BY <1>3 DEF TakeSettings, TakeOids, SaveConfig, SaveConfigFails
  <2>2. LockInv' /\ OnlyMoves(t) /\ thread'[t].at # "registering"
    BY <1>3, ConfigKeepsLocks
  <2> QED
    BY <1>3, <2>1, <2>2, MoveKeepsLimit, ConfigKeepsSettings
<1>4. CASE TakeDetail(t) \/ EndDetail(t)
  <2>1. UNCHANGED <<settingsVars, rowVars>>
    BY <1>4 DEF TakeDetail, EndDetail
  <2>2. IsFree("cfg")' => IsFree("cfg")
    BY <1>4 DEF TakeDetail, EndDetail, IsFree, Hold, Release, LockInv
  <2>3. LockInv' /\ OnlyMoves(t) /\ thread'[t].at # "registering"
    BY <1>4, DetailKeepsLocks
  <2> QED
    BY <2>1, <2>2, <2>3, MoveKeepsLimit, SettingsUntouched
<1>5. CASE CountDevices(t) \/ RegisterDevice(t) \/ EndRegistration(t)
  <2>1. UNCHANGED settingsVars
    BY <1>5 DEF CountDevices, RegisterDevice, EndRegistration
  <2>2. IsFree("cfg")' => IsFree("cfg")
    BY <1>5 DEF CountDevices, RegisterDevice, EndRegistration, IsFree, Hold, Release, LockInv
  <2>3. LockInv'
    BY <1>5, RegistrationKeepsLocks DEF LimitInv
  <2> QED
    BY <1>5, <2>1, <2>2, <2>3, RegistrationKeepsLimit, SettingsUntouched
<1> QED
  BY <1>1, <1>2, <1>3, <1>4, <1>5 DEF Handler, Unlocked

\* The other threads and processes, and a restart.
LEMMA OthersKeep ==
  ASSUME LimitsAssumption, ThreadsAssumption, WebInv,
         BackgroundTakes \/ BackgroundReleases \/ (\E ip \in Ips : RegisterElsewhere(ip)) \/ Restart
  PROVE  WebInv'
<1> USE DEF WebInv
<1>1. CASE BackgroundTakes \/ BackgroundReleases
  <2>1. /\ thread' = thread /\ budget' = budget /\ UNCHANGED <<settingsVars, rowVars>>
        /\ holder["repo"] \in {"free", "background"} /\ holder'["repo"] \in {"free", "background"}
        /\ holder'["cfg"] = holder["cfg"] /\ holder' \in [cfg: Holders, repo: Holders]
    BY <1>1 DEF BackgroundTakes, BackgroundReleases, Hold, Release, IsFree, LockInv, Holders, counters
  <2>2. LocksHeld'
    BY <2>1 DEF LockInv, LocksHeld, Locks, ThreadsAssumption
  <2>3. LockInv'
    BY <2>1, <2>2 DEF LockInv
  <2>4. LimitInv'
    <3>1. Own' = Own /\ IsFiniteSet(rows')
      BY <2>1 DEF rowVars, Own, LimitInv
    <3> QED
      BY <2>1, <3>1, NoNewRowKeepsLimit DEF LockInv
  <2>5. SettingsInv'
    BY <2>1, SettingsUntouched DEF IsFree
  <2> QED
    BY <2>3, <2>4, <2>5
<1>2. ASSUME NEW ip \in Ips, RegisterElsewhere(ip) PROVE WebInv'
  <2>1. /\ UNCHANGED <<thread, holder, settingsVars, counters>> /\ ip \notin rows
        /\ rows' = rows \cup {ip} /\ elsewhere' = elsewhere \cup {ip}
    BY <1>2 DEF RegisterElsewhere
  <2>2. LockInv'
    BY <2>1 DEF LockInv, LocksHeld, counters
  <2>3. Own' \subseteq Own /\ IsFiniteSet(rows')
    BY <2>1, FS_AddElement DEF Own, LimitInv
  <2>4. LimitInv'
    BY <2>1, <2>3, NoNewRowKeepsLimit DEF LockInv
  <2>5. SettingsInv'
    BY <2>1, SettingsUntouched DEF IsFree
  <2> QED
    BY <2>2, <2>4, <2>5
<1>3. CASE Restart
  <2>1. /\ thread' = [t \in Threads |-> Idle] /\ holder' = Free /\ budget' = budget
        /\ UNCHANGED rowVars /\ config' = file /\ acked' = file.settings /\ file' = file
    BY <1>3 DEF Restart
  <2>2. thread' \in [Threads -> Locals] /\ \A t \in Threads : thread'[t].at = "idle"
    BY <2>1, AnsweringIsLocal
  <2>3. holder' \in [cfg: Holders, repo: Holders] /\ \A lock \in Locks : holder'[lock] = "free"
    BY <2>1 DEF Free, Holders, Locks
  <2>4. LocksHeld'
    BY <2>2, <2>3 DEF LocksHeld, Under, ThreadsAssumption
  <2>5. LockInv'
    BY <2>1, <2>2, <2>3, <2>4 DEF LockInv
  <2>6. LimitInv'
    <3>1. Own' = Own /\ IsFiniteSet(rows')
      BY <2>1 DEF rowVars, Own, LimitInv
    <3> QED
      BY <2>2, <3>1, NoNewRowKeepsLimit
  <2>7. SettingsInv'
    BY <2>1 DEF SettingsInv, IsConfiguration
  <2> QED
    BY <2>5, <2>6, <2>7
<1> QED
  BY <1>1, <1>2, <1>3

\* The threads of the scans, and stuttering, change neither threads, locks, rows nor settings.
LEMMA ScansKeep ==
  ASSUME WebInv, UNCHANGED <<thread, holder, settingsVars, rowVars, budget>>
  PROVE  WebInv'
<1>1. LockInv'
  BY DEF WebInv, LockInv, LocksHeld
<1>2. LimitInv'
  BY DEF WebInv, LimitInv, Own, rowVars
<1>3. SettingsInv'
  BY SettingsUntouched DEF WebInv, IsFree
<1> QED
  BY <1>1, <1>2, <1>3 DEF WebInv

LEMMA WebStep ==
  ASSUME LimitsAssumption, BudgetsAssumption, ThreadsAssumption
  PROVE  WebInv /\ [Next]_vars => WebInv'
<1>1. SUFFICES ASSUME WebInv, [Next]_vars PROVE WebInv'
  OBVIOUS
<1>2. ASSUME NEW t \in Threads, Accept(t) \/ Handler(t) PROVE WebInv'
  BY <1>1, <1>2, HandlerKeeps
<1>3. ASSUME NEW j \in DOMAIN scans, FinishScan(j) \/ \E w \in DOMAIN scans[j].todo : Worker(j, w)
      PROVE  WebInv'
  <2>1. UNCHANGED onlyScans
    BY <1>3 DEF FinishScan, Worker, ProbeHost, ReportProgress
  <2> QED
    BY <1>1, <2>1, ScansKeep DEF onlyScans, counters
<1>4. CASE BackgroundTakes \/ BackgroundReleases \/ (\E ip \in Ips : RegisterElsewhere(ip)) \/ Restart
  BY <1>1, <1>4, OthersKeep
<1>5. CASE UNCHANGED vars
  BY <1>1, <1>5, ScansKeep DEF vars, counters
<1> QED
  BY <1>1, <1>2, <1>3, <1>4, <1>5 DEF Next

LEMMA WebInvariant == Spec => []WebInv
<1>1. Init => WebInv
  BY LimitsAssumption, ThreadsAssumption, LockInit, LimitInit, SettingsInit DEF WebInv
<1>2. WebInv /\ [Next]_vars => WebInv'
  BY LimitsAssumption, BudgetsAssumption, ThreadsAssumption, WebStep
<1> QED
  BY <1>1, <1>2, PTL DEF Spec

\* However many requests register devices at a time, and whatever another process
\* registers, the Web server keeps the limit of devices (api_register).
THEOREM LimitAlwaysHolds == Spec => []LimitHolds
<1>1. WebInv => LimitHolds
  BY DEF WebInv, LimitInv, LimitHolds, Own
<1> QED
  BY <1>1, WebInvariant, PTL

\* The settings in use are the ones last acknowledged or loaded, and they are in the file,
\* whatever saves fail and whenever the process is restarted (api_post_settings,
\* api_post_oid_overrides, persist_config).
THEOREM SettingsAlwaysSaved == Spec => []SettingsAreSaved
<1>1. WebInv => SettingsAreSaved
  BY DEF WebInv, SettingsInv, SettingsAreSaved
<1> QED
  BY <1>1, WebInvariant, PTL

-----------------------------------------------------------------------------
(* The scans.                                                              *)

Jobs == [listed: BOOLEAN, state: {"running", "done"}, total: Nat, scanned: Nat, found: Seq(Ips),
         todo: Seq(Seq(Ips)), reports: Seq(Nat), count: Nat, answered: SUBSET Ips]

\* What a job's workers have still to probe and what they have probed are its hosts, each
\* once; the counts are within them.
CountsOK(job) ==
  /\ DOMAIN job.reports = DOMAIN job.todo
  /\ Distinct(job.todo) /\ ContentOf(job.todo) \cap job.answered = {}
  /\ Cardinality(ContentOf(job.todo)) + job.count = job.total
  /\ job.scanned <= job.total /\ \A w \in DOMAIN job.reports : job.reports[w] <= job.total

\* What was found is what answered, while the table lists the job.
FoundOK(job) ==
  /\ ToSet(job.found) \subseteq job.answered
  /\ job.listed => ToSet(job.found) = job.answered /\ Len(job.found) = Cardinality(job.answered)

\* Nobody works on a job that is done.
DoneOK(job) ==
  job.state = "done" =>
    /\ job.scanned = job.total
    /\ \A w \in DOMAIN job.todo : job.todo[w] = <<>> /\ job.reports[w] = 0

JobOK(job) == job \in Jobs /\ CountsOK(job) /\ FoundOK(job) /\ DoneOK(job)

AllJobsOK == scans \in Seq(Jobs) /\ \A j \in DOMAIN scans : JobOK(scans[j])

ScansInv == AllJobsOK /\ Cardinality(Listed(scans)) <= MaxJobs

\* The fields of a job.
LEMMA JobParts ==
  ASSUME NEW job \in Jobs
  PROVE  /\ job = [listed |-> job.listed, state |-> job.state, total |-> job.total,
                   scanned |-> job.scanned, found |-> job.found, todo |-> job.todo,
                   reports |-> job.reports, count |-> job.count, answered |-> job.answered]
         /\ job.listed \in BOOLEAN /\ job.state \in {"running", "done"} /\ job.total \in Nat
         /\ job.scanned \in Nat /\ job.found \in Seq(Ips) /\ job.todo \in Seq(Seq(Ips))
         /\ job.reports \in Seq(Nat) /\ job.count \in Nat /\ job.answered \in SUBSET Ips
  BY DEF Jobs

\* A new job has all of its hosts before it.
LEMMA ScanJobOK ==
  ASSUME LimitsAssumption, NEW hosts \in Seq(Ips),
         \A p, q \in DOMAIN hosts : hosts[p] = hosts[q] => p = q
  PROVE  JobOK(ScanJob(hosts)) /\ ScanJob(hosts).listed
<1> DEFINE job == ScanJob(hosts)
           chunks == Chunks(hosts, Concurrency)
           all == {hosts[p] : p \in DOMAIN hosts}
           none == [w \in DOMAIN chunks |-> 0]
<1>1. job = [listed |-> TRUE, state |-> "running", total |-> Len(hosts), scanned |-> 0,
             found |-> <<>>, todo |-> chunks, reports |-> none, count |-> 0, answered |-> {}]
  BY DEF ScanJob
<1>2. Len(hosts) \in Nat
  OBVIOUS
<1>3. chunks \in Seq(Seq(Ips)) /\ Distinct(chunks) /\ ContentOf(chunks) = all
  <2>1. Concurrency \in Nat \ {0}
    BY DEF LimitsAssumption
  <2> QED
    BY <2>1, ChunksHoldAll
<1>4. Cardinality(all) = Len(hosts)
  BY NoRepetition
<1> HIDE DEF chunks, all
<1>5. none \in Seq(Nat) /\ DOMAIN none = DOMAIN chunks /\ \A w \in DOMAIN none : none[w] = 0
  <2>1. PICK n \in Nat : DOMAIN chunks = 1 .. n
    BY <1>3
  <2>2. none = [w \in 1 .. n |-> 0]
    BY <2>1
  <2>3. none \in [1 .. n -> Nat]
    BY <2>2
  <2> QED
    BY <2>1, <2>2, <2>3
<1> HIDE DEF none, job
<1>6. /\ job.listed = TRUE /\ job.state = "running" /\ job.total = Len(hosts) /\ job.scanned = 0
      /\ job.found = <<>> /\ job.todo = chunks /\ job.reports = none /\ job.count = 0
      /\ job.answered = {}
  BY <1>1
<1>7. job \in Jobs
  BY <1>1, <1>2, <1>3, <1>5 DEF Jobs
<1>8. CountsOK(job)
  <2>1. Cardinality(ContentOf(job.todo)) + job.count = job.total
    BY <1>2, <1>3, <1>4, <1>6
  <2>2. \A w \in DOMAIN job.reports : job.reports[w] <= job.total
    BY <1>2, <1>5, <1>6
  <2> QED
    BY <1>2, <1>3, <1>5, <1>6, <2>1, <2>2 DEF CountsOK
<1>9. FoundOK(job)
  <2>1. ToSet(job.found) = {} /\ Len(job.found) = 0 /\ Cardinality({}) = 0
    BY <1>6, FS_EmptySet DEF ToSet
  <2> QED
    BY <1>6, <2>1 DEF FoundOK
<1>10. DoneOK(job)
  BY <1>6 DEF DoneOK
<1> QED
  BY <1>6, <1>7, <1>8, <1>9, <1>10 DEF JobOK, job

\* Dropping a job from the table changes nothing else of it.
LEMMA DroppedOK ==
  ASSUME NEW job, JobOK(job)
  PROVE  JobOK([job EXCEPT !.listed = FALSE]) /\ ~[job EXCEPT !.listed = FALSE].listed
<1> DEFINE new == [job EXCEPT !.listed = FALSE]
<1>1. job \in Jobs
  BY DEF JobOK
<1>2. /\ new \in Jobs /\ new.listed = FALSE
      /\ new.state = job.state /\ new.total = job.total /\ new.scanned = job.scanned
      /\ new.found = job.found /\ new.todo = job.todo /\ new.reports = job.reports
      /\ new.count = job.count /\ new.answered = job.answered
  BY <1>1 DEF Jobs
<1> HIDE DEF new
<1> QED
  BY <1>1, <1>2 DEF JobOK, CountsOK, FoundOK, DoneOK, new

LEMMA ListedIsFinite ==
  ASSUME NEW S, NEW all \in Seq(S)
  PROVE  IsFiniteSet(Listed(all)) /\ Cardinality(Listed(all)) \in Nat /\ Listed(all) \in SUBSET Nat
<1>1. IsFiniteSet(1 .. Len(all)) /\ Listed(all) \in SUBSET (1 .. Len(all)) /\ Len(all) \in Nat
  BY FS_Interval DEF Listed
<1> QED
  BY <1>1, FS_Subset, FS_CardinalityType

\* One more job: the table keeps its limit, and every job is sound.
LEMMA EvictedOK ==
  ASSUME LimitsAssumption, ScansInv, NEW job, JobOK(job), job.listed,
         scans' = Evicted(Append(scans, job))
  PROVE  ScansInv'
<1> DEFINE all == Append(scans, job)
           n == Len(scans)
<1>1. scans \in Seq(Jobs) /\ job \in Jobs /\ n \in Nat
  BY DEF ScansInv, AllJobsOK, JobOK
<1>2. /\ all \in Seq(Jobs) /\ DOMAIN all = 1 .. n + 1 /\ DOMAIN scans = 1 .. n
      /\ all[n + 1] = job /\ \A j \in 1 .. n : all[j] = scans[j]
  BY <1>1
<1>3. scans' = Evicted(all)
  OBVIOUS
<1> HIDE DEF n, all
<1>4. \A j \in DOMAIN all : JobOK(all[j])
  <2>1. \A j \in 1 .. n + 1 : j = n + 1 \/ j \in 1 .. n
    BY <1>1
  <2> QED
    BY <1>2, <2>1 DEF ScansInv, AllJobsOK
<1>5. Listed(all) = Listed(scans) \cup {n + 1} /\ n + 1 \notin Listed(scans)
  <2>1. \A j \in 1 .. n + 1 : j = n + 1 \/ j \in 1 .. n
    BY <1>1
  <2>2. n + 1 \in 1 .. n + 1 /\ n + 1 \notin 1 .. n /\ 1 .. n \subseteq 1 .. n + 1
    BY <1>1
  <2> QED
    BY <1>2, <2>1, <2>2 DEF Listed
<1>6. /\ IsFiniteSet(Listed(all)) /\ Cardinality(Listed(all)) \in Nat /\ Listed(all) \in SUBSET Nat
      /\ IsFiniteSet(Listed(scans)) /\ Cardinality(Listed(scans)) \in Nat
  BY <1>1, <1>2, ListedIsFinite
<1>7. Cardinality(Listed(all)) = Cardinality(Listed(scans)) + 1 /\ MaxJobs \in Nat
      /\ Cardinality(Listed(scans)) <= MaxJobs
  BY <1>5, <1>6, FS_AddElement DEF LimitsAssumption, ScansInv
<1>8. CASE ~(Cardinality(Listed(all)) > MaxJobs)
  <2>1. scans' = all
    BY <1>3, <1>8 DEF Evicted
  <2>2. Cardinality(Listed(all)) <= MaxJobs
    BY <1>6, <1>7, <1>8
  <2> QED
    BY <1>2, <1>4, <2>1, <2>2 DEF ScansInv, AllJobsOK
<1>9. CASE Cardinality(Listed(all)) > MaxJobs
  <2> DEFINE first == Min(Listed(all))
             dropped == [all[first] EXCEPT !.listed = FALSE]
  <2>1. first \in Listed(all)
    <3>1. Listed(all) # {}
      BY <1>5
    <3>2. \E m \in Listed(all) : \A q \in Listed(all) : m <= q
      BY <1>6, <3>1, FirstNumber
    <3> QED
      BY <3>2 DEF Min
  <2>2. first \in DOMAIN all
    BY <2>1 DEF Listed
  <2>3. JobOK(dropped) /\ ~dropped.listed
    BY <1>4, <2>2, DroppedOK
  <2>4. scans' = [all EXCEPT ![first] = dropped]
    BY <1>3, <1>9 DEF Evicted
  <2> HIDE DEF first, dropped
  <2>5. dropped \in Jobs
    BY <2>3 DEF JobOK
  <2>6. /\ scans' \in Seq(Jobs) /\ DOMAIN scans' = DOMAIN all /\ scans'[first] = dropped
        /\ \A j \in DOMAIN all : j # first => scans'[j] = all[j]
    <3>1. all \in [1 .. n + 1 -> Jobs] /\ first \in 1 .. n + 1
      <4>1. PICK m \in Nat : all \in [1 .. m -> Jobs]
        BY <1>2
      <4>2. 1 .. m = 1 .. n + 1
        BY <1>2, <4>1
      <4> QED
        BY <1>2, <2>2, <4>1, <4>2
    <3>2. scans' \in [1 .. n + 1 -> Jobs]
      BY <2>4, <2>5, <3>1
    <3>3. scans' \in Seq(Jobs)
      BY <1>1, <3>2
    <3> QED
      BY <1>2, <2>4, <3>1, <3>3
  <2>7. Listed(scans') = Listed(all) \ {first}
    BY <2>2, <2>3, <2>6 DEF Listed
  <2>8. Cardinality(Listed(scans')) = Cardinality(Listed(all)) - 1
    <3>1. Cardinality(Listed(all) \ {first}) = Cardinality(Listed(all)) - 1
      <4>1. PICK L : L = Listed(all)
        OBVIOUS
      <4>2. Cardinality(L \ {first}) = IF first \in L THEN Cardinality(L) - 1 ELSE Cardinality(L)
        BY <1>6, <4>1, FS_RemoveElement
      <4> QED
        BY <2>1, <4>1, <4>2
    <3> QED
      BY <2>7, <3>1
  <2>9. Cardinality(Listed(scans')) <= MaxJobs
    BY <1>6, <1>7, <2>8
  <2>10. \A j \in DOMAIN scans' : JobOK(scans'[j])
    BY <1>4, <2>3, <2>6
  <2> QED
    BY <2>6, <2>9, <2>10 DEF ScansInv, AllJobsOK
<1> QED
  BY <1>8, <1>9

LEMMA StartScanKeepsScans ==
  ASSUME LimitsAssumption, ScansInv, NEW t \in Threads, StartScan(t), thread[t].input \in Seq(Cidrs)
  PROVE  ScansInv'
<1>1. CASE UNCHANGED scans
  BY <1>1 DEF ScansInv, AllJobsOK
<1>2. ASSUME NEW most \in MaxHosts,
             LET hosts == HostsOf(thread[t].input)
             IN  scans' = Evicted(Append(scans, ScanJob(SubSeq(hosts, 1, Lesser(most, Len(hosts))))))
      PROVE  ScansInv'
  <2> DEFINE numbers == UNION ToSet(thread[t].input)
             hosts == HostsOf(thread[t].input)
             some == SubSeq(hosts, 1, Lesser(most, Len(hosts)))
  <2>1. numbers \in SUBSET Ips
    <3>0. Cidrs \subseteq SUBSET Ips
      BY DEF LimitsAssumption
    <3>1. \A i \in DOMAIN thread[t].input : thread[t].input[i] \in SUBSET Ips
      <4>1. \A i \in DOMAIN thread[t].input : thread[t].input[i] \in Cidrs
        OBVIOUS
      <4> QED
        BY <3>0, <4>1
    <3> QED
      BY <3>1 DEF ToSet
  <2>2. numbers \in SUBSET Nat /\ IsFiniteSet(numbers)
    BY <2>1, FS_Subset DEF LimitsAssumption
  <2>3. hosts \in Seq(numbers) /\ \A p, q \in DOMAIN hosts : hosts[p] = hosts[q] => p = q
    <3>1. hosts = InOrder(numbers)
      BY DEF HostsOf
    <3> HIDE DEF hosts, numbers
    <3> QED
      BY <2>2, <3>1, InOrderIs
  <2> HIDE DEF hosts, numbers
  <2>4. hosts \in Seq(Ips)
    <3>1. PICK k \in Nat : hosts \in [1 .. k -> numbers]
      BY <2>3
    <3>2. hosts \in [1 .. k -> Ips]
      BY <2>1, <3>1
    <3> QED
      BY <3>2
  <2>5. Lesser(most, Len(hosts)) \in 0 .. Len(hosts)
    <3>1. MaxHosts \subseteq Nat
      BY DEF LimitsAssumption
    <3>2. PICK n : n = Len(hosts)
      OBVIOUS
    <3>3. n \in Nat
      BY <2>4, <3>2
    <3>4. most \in Nat
      BY <3>1
    <3>5. Lesser(most, n) \in 0 .. n
      BY <3>3, <3>4 DEF Lesser
    <3> QED
      BY <3>2, <3>5
  <2>6. some \in Seq(Ips) /\ \A p, q \in DOMAIN some : some[p] = some[q] => p = q
    <3>1. PICK k \in 0 .. Len(hosts) : k = Lesser(most, Len(hosts))
      BY <2>5
    <3>2. /\ some \in Seq(Ips) /\ DOMAIN some = 1 .. k /\ \A p \in 1 .. k : some[p] = hosts[p]
          /\ 1 .. k \subseteq DOMAIN hosts
      BY <2>4, <3>1
    <3> HIDE DEF some
    <3> QED
      BY <2>3, <3>2
  <2>7. scans' = Evicted(Append(scans, ScanJob(some)))
    BY <1>2 DEF some, hosts
  <2> HIDE DEF some
  <2>8. JobOK(ScanJob(some)) /\ ScanJob(some).listed
    BY <2>6, ScanJobOK
  <2> QED
    BY <2>7, <2>8, EvictedOK
<1> QED
  BY <1>1, <1>2 DEF StartScan

LEMMA AppendHas ==
  ASSUME NEW S, NEW s \in Seq(S), NEW x \in S
  PROVE  Len(Append(s, x)) = Len(s) + 1 /\ ToSet(Append(s, x)) = ToSet(s) \cup {x}
<1> DEFINE n == Len(s)
           t == Append(s, x)
<1>1. /\ n \in Nat /\ DOMAIN s = 1 .. n /\ DOMAIN t = 1 .. n + 1 /\ Len(t) = n + 1
      /\ t[n + 1] = x /\ \A k \in 1 .. n : t[k] = s[k]
  OBVIOUS
<1> HIDE DEF n, t
<1>2. \A k \in 1 .. n + 1 : k = n + 1 \/ k \in 1 .. n
  BY <1>1
<1>3. n + 1 \in 1 .. n + 1 /\ 1 .. n \subseteq 1 .. n + 1
  BY <1>1
<1>4. ToSet(t) = ToSet(s) \cup {x}
  BY <1>1, <1>2, <1>3 DEF ToSet
<1> QED
  BY <1>1, <1>4 DEF n, t

\* One job moves on.
LEMMA OneJobKeepsScans ==
  ASSUME ScansInv, NEW j \in DOMAIN scans, NEW job, JobOK(job), job.listed = scans[j].listed,
         scans' = [scans EXCEPT ![j] = job]
  PROVE  ScansInv'
<1>1. scans \in Seq(Jobs) /\ job \in Jobs /\ \A i \in DOMAIN scans : JobOK(scans[i])
  BY DEF ScansInv, AllJobsOK, JobOK
<1>2. /\ scans' \in Seq(Jobs) /\ DOMAIN scans' = DOMAIN scans /\ scans'[j] = job
      /\ \A i \in DOMAIN scans : i # j => scans'[i] = scans[i]
  BY <1>1
<1>3. \A i \in DOMAIN scans' : JobOK(scans'[i])
  BY <1>1, <1>2
<1>4. Listed(scans') = Listed(scans)
  BY <1>2 DEF Listed
<1> QED
  BY <1>2, <1>3, <1>4 DEF ScansInv, AllJobsOK

\* A worker takes the head of its chunk, which nobody else has and which has not answered.
LEMMA ProbedOK ==
  ASSUME LimitsAssumption, NEW job, JobOK(job), NEW w, w \in DOMAIN job.todo, job.todo[w] # <<>>,
         job.reports[w] = 0, NEW answers \in BOOLEAN
  PROVE  JobOK(Probed(job, w, answers)) /\ Probed(job, w, answers).listed = job.listed
<1> DEFINE new == Probed(job, w, answers)
           host == Head(job.todo[w])
           left == [job.todo EXCEPT ![w] = Tail(@)]
           reported == [job.reports EXCEPT ![w] = job.count + 1]
           answered == IF answers THEN job.answered \cup {host} ELSE job.answered
           found == IF answers /\ job.listed THEN Append(job.found, host) ELSE job.found
<1>1. /\ job = [listed |-> job.listed, state |-> job.state, total |-> job.total,
                scanned |-> job.scanned, found |-> job.found, todo |-> job.todo,
                reports |-> job.reports, count |-> job.count, answered |-> job.answered]
      /\ job.listed \in BOOLEAN /\ job.state \in {"running", "done"} /\ job.total \in Nat
      /\ job.scanned \in Nat /\ job.found \in Seq(Ips) /\ job.todo \in Seq(Seq(Ips))
      /\ job.reports \in Seq(Nat) /\ job.count \in Nat /\ job.answered \in SUBSET Ips
  BY JobParts DEF JobOK
<1>2. new = [listed |-> job.listed, state |-> job.state, total |-> job.total,
             scanned |-> job.scanned, found |-> found, todo |-> left,
             reports |-> reported, count |-> job.count + 1, answered |-> answered]
  <2>1. new = [job EXCEPT !.todo[w] = Tail(@), !.count = @ + 1, !.reports[w] = job.count + 1,
                          !.answered = answered, !.found = found]
    BY <1>1 DEF Probed
  <2> HIDE DEF new, answered, found
  <2> QED
    BY <1>1, <2>1
<1>3. /\ Distinct(job.todo) /\ DOMAIN job.reports = DOMAIN job.todo
      /\ ContentOf(job.todo) \cap job.answered = {}
      /\ Cardinality(ContentOf(job.todo)) + job.count = job.total
      /\ job.scanned <= job.total /\ \A v \in DOMAIN job.reports : job.reports[v] <= job.total
  BY DEF JobOK, CountsOK
<1>4. /\ host \in Ips \cap ContentOf(job.todo) /\ left \in Seq(Seq(Ips)) /\ DOMAIN left = DOMAIN job.todo
      /\ Distinct(left) /\ ContentOf(left) = ContentOf(job.todo) \ {host}
  <2>1. PICK todo : todo = job.todo
    OBVIOUS
  <2>2. /\ todo \in Seq(Seq(Ips)) /\ w \in DOMAIN todo /\ todo[w] # <<>> /\ Distinct(todo)
        /\ left = [todo EXCEPT ![w] = Tail(@)] /\ host = Head(todo[w])
    BY <1>1, <1>3, <2>1
  <2> HIDE DEF left, host
  <2>3. /\ host \in Ips \cap ContentOf(todo) /\ left \in Seq(Seq(Ips)) /\ DOMAIN left = DOMAIN todo
        /\ Distinct(left) /\ ContentOf(left) = ContentOf(todo) \ {host}
    BY <2>2, HeadIsTaken
  <2> QED
    BY <2>1, <2>3
<1>5. IsFiniteSet(ContentOf(job.todo)) /\ IsFiniteSet(job.answered)
      /\ Cardinality(ContentOf(job.todo)) \in Nat /\ Cardinality(job.answered) \in Nat
  <2>1. ContentOf(job.todo) \subseteq Ips /\ IsFiniteSet(Ips)
    BY <1>1, HeldIsOf DEF LimitsAssumption
  <2> QED
    BY <1>1, <2>1, FS_Subset, FS_CardinalityType
<1> HIDE DEF new, host, left, reported, answered, found
<1>6. Cardinality(ContentOf(left)) = Cardinality(ContentOf(job.todo)) - 1 /\ Cardinality(ContentOf(left)) \in Nat
  <2>1. PICK H : H = ContentOf(job.todo)
    OBVIOUS
  <2>2. Cardinality(H \ {host}) = IF host \in H THEN Cardinality(H) - 1 ELSE Cardinality(H)
    BY <1>5, <2>1, FS_RemoveElement
  <2>3. IsFiniteSet(ContentOf(left))
    BY <1>4, <1>5, FS_Subset
  <2> QED
    BY <1>4, <2>1, <2>2, <2>3, FS_CardinalityType
<1>7. Cardinality(ContentOf(left)) + (job.count + 1) = job.total /\ job.count + 1 <= job.total
  <2>1. PICK h, l : h = Cardinality(ContentOf(job.todo)) /\ l = Cardinality(ContentOf(left))
    OBVIOUS
  <2>2. PICK c, m : c = job.count /\ m = job.total
    OBVIOUS
  <2>3. h \in Nat /\ l \in Nat /\ c \in Nat /\ m \in Nat /\ l = h - 1 /\ h + c = m
    BY <1>1, <1>3, <1>5, <1>6, <2>1, <2>2
  <2>4. l + (c + 1) = m /\ c + 1 <= m
    BY <2>3
  <2> QED
    BY <2>1, <2>2, <2>4
<1>8. /\ reported \in Seq(Nat) /\ DOMAIN reported = DOMAIN job.todo
      /\ \A v \in DOMAIN reported : reported[v] <= job.total
  BY <1>1, <1>3, <1>7 DEF reported
<1>9. answered \in SUBSET Ips /\ found \in Seq(Ips)
  <2>1. Append(job.found, host) \in Seq(Ips)
    BY <1>1, <1>4
  <2> QED
    BY <1>1, <1>4, <2>1 DEF answered, found
<1>10. /\ new.listed = job.listed /\ new.state = job.state /\ new.total = job.total
       /\ new.scanned = job.scanned /\ new.found = found /\ new.todo = left
       /\ new.reports = reported /\ new.count = job.count + 1 /\ new.answered = answered
  BY <1>2
<1>11. new \in Jobs
  <2>1. job.count + 1 \in Nat
    BY <1>1
  <2> QED
    BY <1>1, <1>2, <1>4, <1>8, <1>9, <2>1 DEF Jobs
<1>12. CountsOK(new)
  <2>1. ContentOf(left) \cap answered = {}
    BY <1>3, <1>4 DEF answered
  <2> QED
    BY <1>3, <1>4, <1>7, <1>8, <1>10, <2>1 DEF CountsOK
<1>13. FoundOK(new)
  <2>1. /\ ToSet(job.found) \subseteq job.answered
        /\ job.listed => ToSet(job.found) = job.answered /\ Len(job.found) = Cardinality(job.answered)
    BY DEF JobOK, FoundOK
  <2>2. CASE ~answers
    BY <1>10, <2>1, <2>2 DEF FoundOK, answered, found
  <2>3. CASE answers
    <3>1. answered = job.answered \cup {host} /\ host \notin job.answered
      BY <1>3, <1>4, <2>3 DEF answered
    <3>2. Cardinality(answered) = Cardinality(job.answered) + 1
      BY <1>5, <3>1, FS_AddElement
    <3>3. CASE job.listed
      <4>1. found = Append(job.found, host)
        BY <2>3, <3>3 DEF found
      <4>2. Len(found) = Len(job.found) + 1 /\ ToSet(found) = ToSet(job.found) \cup {host}
        BY <1>1, <1>4, <4>1, AppendHas
      <4> QED
        BY <1>10, <2>1, <3>1, <3>2, <3>3, <4>2 DEF FoundOK
    <3>4. CASE ~job.listed
      BY <1>10, <2>1, <3>1, <3>4 DEF FoundOK, found
    <3> QED
      BY <3>3, <3>4
  <2> QED
    BY <2>2, <2>3
<1>14. DoneOK(new)
  <2>1. job.state # "done"
    BY DEF JobOK, DoneOK
  <2> QED
    BY <1>10, <2>1 DEF DoneOK
<1> QED
  BY <1>10, <1>11, <1>12, <1>13, <1>14 DEF JobOK, new

\* The thread of a scan reports or finishes.
LEMMA ReportedOK ==
  ASSUME NEW job, JobOK(job), NEW w, w \in DOMAIN job.todo, job.reports[w] # 0
  PROVE  JobOK(Reported(job, w)) /\ Reported(job, w).listed = job.listed
<1>1. job \in Jobs /\ job.reports \in Seq(Nat) /\ job.total \in Nat /\ job.scanned \in Nat
      /\ w \in DOMAIN job.reports /\ DOMAIN job.reports = DOMAIN job.todo
      /\ job.scanned <= job.total /\ \A v \in DOMAIN job.reports : job.reports[v] <= job.total
  BY JobParts DEF JobOK, CountsOK
<1> DEFINE new == Reported(job, w)
           reported == [job.reports EXCEPT ![w] = 0]
           scanned == IF job.listed THEN job.reports[w] ELSE job.scanned
<1>2. scanned \in Nat /\ scanned <= job.total
  <2>1. job.reports[w] \in Nat
    BY <1>1
  <2> QED
    BY <1>1, <2>1
<1>3. /\ reported \in Seq(Nat) /\ DOMAIN reported = DOMAIN job.reports
      /\ \A v \in DOMAIN reported : reported[v] <= job.total
  BY <1>1
<1>4. new = [listed |-> job.listed, state |-> job.state, total |-> job.total,
             scanned |-> scanned, found |-> job.found, todo |-> job.todo,
             reports |-> reported, count |-> job.count, answered |-> job.answered]
  <2>1. job = [listed |-> job.listed, state |-> job.state, total |-> job.total,
               scanned |-> job.scanned, found |-> job.found, todo |-> job.todo,
               reports |-> job.reports, count |-> job.count, answered |-> job.answered]
    BY <1>1, JobParts
  <2>2. new = [job EXCEPT !.scanned = scanned, !.reports[w] = 0]
    BY <2>1 DEF Reported
  <2> HIDE DEF scanned, new
  <2> QED
    BY <1>1, <2>1, <2>2
<1> HIDE DEF reported, scanned, new
<1>5. /\ new \in Jobs /\ new.listed = job.listed /\ new.state = job.state /\ new.total = job.total
      /\ new.scanned = scanned /\ new.found = job.found /\ new.todo = job.todo
      /\ new.reports = reported /\ new.count = job.count /\ new.answered = job.answered
  <2>1. /\ job.listed \in BOOLEAN /\ job.state \in {"running", "done"} /\ job.total \in Nat
        /\ job.found \in Seq(Ips) /\ job.todo \in Seq(Seq(Ips))
        /\ job.count \in Nat /\ job.answered \in SUBSET Ips
    BY <1>1, JobParts
  <2>2. new \in Jobs
    BY <1>2, <1>3, <1>4, <2>1 DEF Jobs
  <2>3. /\ new.listed = job.listed /\ new.state = job.state /\ new.total = job.total
        /\ new.scanned = scanned /\ new.found = job.found /\ new.todo = job.todo
        /\ new.reports = reported /\ new.count = job.count /\ new.answered = job.answered
    BY <1>4
  <2> QED
    BY <2>2, <2>3
<1>6. job.state # "done"
  BY DEF JobOK, DoneOK
<1> QED
  BY <1>1, <1>2, <1>3, <1>5, <1>6 DEF JobOK, CountsOK, FoundOK, DoneOK, new

LEMMA FinishedOK ==
  ASSUME NEW job, JobOK(job),
         \A w \in DOMAIN job.todo : job.todo[w] = <<>> /\ job.reports[w] = 0,
         NEW new, new = [job EXCEPT !.scanned = job.total, !.state = "done"]
  PROVE  JobOK(new) /\ new.listed = job.listed
<1>1. job \in Jobs /\ job.total \in Nat
  BY JobParts DEF JobOK
<1>2. /\ new \in Jobs /\ new.listed = job.listed /\ new.state = "done" /\ new.total = job.total
      /\ new.scanned = job.total /\ new.found = job.found /\ new.todo = job.todo
      /\ new.reports = job.reports /\ new.count = job.count /\ new.answered = job.answered
  BY <1>1 DEF Jobs
<1> QED
  BY <1>1, <1>2 DEF JobOK, CountsOK, FoundOK, DoneOK

LEMMA WorkKeepsScans ==
  ASSUME LimitsAssumption, ScansInv, NEW j \in DOMAIN scans,
         FinishScan(j) \/ \E w \in DOMAIN scans[j].todo : Worker(j, w)
  PROVE  ScansInv'
<1>1. JobOK(scans[j]) /\ scans \in Seq(Jobs)
  BY DEF ScansInv, AllJobsOK
<1>2. CASE FinishScan(j)
  <2> DEFINE new == [scans[j] EXCEPT !.scanned = scans[j].total, !.state = "done"]
  <2>1. scans' = [scans EXCEPT ![j] = new]
    BY <1>1, <1>2 DEF FinishScan
  <2>2. \A w \in DOMAIN scans[j].todo : scans[j].todo[w] = <<>> /\ scans[j].reports[w] = 0
    BY <1>2 DEF FinishScan, Joined
  <2>3. JobOK(new) /\ new.listed = scans[j].listed
    BY <1>1, <2>2, FinishedOK
  <2> QED
    BY <2>1, <2>3, OneJobKeepsScans
<1>3. ASSUME NEW w, w \in DOMAIN scans[j].todo, ProbeHost(j, w) PROVE ScansInv'
  <2>1. PICK answers \in BOOLEAN : scans' = [scans EXCEPT ![j] = Probed(scans[j], w, answers)]
    BY <1>3 DEF ProbeHost
  <2>2. JobOK(Probed(scans[j], w, answers)) /\ Probed(scans[j], w, answers).listed = scans[j].listed
    BY <1>1, <1>3, ProbedOK DEF ProbeHost
  <2> QED
    BY <2>1, <2>2, OneJobKeepsScans
<1>4. ASSUME NEW w, w \in DOMAIN scans[j].todo, ReportProgress(j, w) PROVE ScansInv'
  <2>1. scans' = [scans EXCEPT ![j] = Reported(scans[j], w)]
    BY <1>4 DEF ReportProgress
  <2>2. JobOK(Reported(scans[j], w)) /\ Reported(scans[j], w).listed = scans[j].listed
    BY <1>1, <1>4, ReportedOK DEF ReportProgress
  <2> QED
    BY <2>1, <2>2, OneJobKeepsScans
<1> QED
  BY <1>2, <1>3, <1>4 DEF Worker

-----------------------------------------------------------------------------
(* The locals of the handlers, the rows and the values of the settings.    *)

InputsOf(kind) ==
  CASE kind \in {"settings", "oids"} -> {<<v>> : v \in Values}
    [] kind \in {"detail", "delete"} -> {<<ip>> : ip \in Ips}
    [] kind = "register"             -> Seq(Ips)
    [] kind = "scan"                 -> Seq(Cidrs)
    [] OTHER                         -> {<<>>}

\* A handler has what its kind of request says.
InputOK(local) == local.input \in InputsOf(local.kind) /\ local.slots <= MaxDevices

InputsInv == \A t \in Threads : InputOK(thread[t])

RowsInv == elsewhere \subseteq rows /\ rows \subseteq Ips

Configurations == [settings: Values, oids: Values]

ValuesInv ==
  /\ config \in Configurations /\ file \in Configurations
  /\ acked \in Values /\ lastSave \in {"ok", "failed"} /\ torn \in BOOLEAN

LEMMA InputsAreOf ==
  ASSUME LimitsAssumption, BudgetsAssumption, LockInv, NEW kind \in Kinds, NEW input \in Inputs(kind)
  PROVE  input \in InputsOf(kind)
<1>1. CASE kind \in {"settings", "oids"}
  BY <1>1 DEF Inputs, InputsOf
<1>2. CASE kind \in {"detail", "delete"}
  BY <1>2 DEF Inputs, InputsOf
<1>3. CASE kind = "register"
  BY <1>3 DEF Inputs, InputsOf, LimitsAssumption
<1>4. CASE kind = "scan"
  <2>1. budget.ranges \in Nat
    BY DEF LockInv, BudgetsAssumption
  <2>2. PICK n \in 0 .. budget.ranges : input \in [1 .. n -> Cidrs]
    BY <1>4 DEF Inputs
  <2>3. input \in Seq(Cidrs)
    BY <2>1, <2>2
  <2> QED
    BY <1>4, <2>3 DEF InputsOf
<1>5. CASE kind \notin {"settings", "oids", "detail", "delete", "register", "scan"}
  BY <1>5 DEF Inputs, InputsOf
<1> QED
  BY <1>1, <1>2, <1>3, <1>4, <1>5

LEMMA AnsweringIsOK == ASSUME LimitsAssumption PROVE InputOK(Idle) /\ InputOK(Answering)
<1>1. 0 <= MaxDevices
  BY DEF LimitsAssumption
<1>2. InputsOf("none") = {<<>>}
  BY DEF InputsOf
<1>3. Idle.kind = "none" /\ Idle.input = <<>> /\ Idle.slots = 0
  BY DEF Idle
<1>4. Answering.kind = "none" /\ Answering.input = <<>> /\ Answering.slots = 0
  BY DEF Answering, Idle
<1> QED
  BY <1>1, <1>2, <1>3, <1>4 DEF InputOK

\* One thread moves on.
LEMMA OneMoveKeepsInputs ==
  ASSUME LockInv, InputsInv, NEW t \in Threads, NEW local, InputOK(local),
         thread' = [thread EXCEPT ![t] = local]
  PROVE  InputsInv'
<1>1. \A u \in Threads : thread'[u] \in {thread[u], local}
  BY DEF LockInv
<1>2. \A u \in Threads : InputOK(thread'[u])
  BY <1>1 DEF InputsInv
<1> QED
  BY <1>2 DEF InputsInv, InputOK

LEMMA GotoKeepsInputs ==
  ASSUME LimitsAssumption, LockInv, InputsInv, NEW t \in Threads, NEW place, Goto(t, place)
  PROVE  InputsInv'
<1>1. thread[t] \in Locals /\ InputOK(thread[t])
  BY DEF LockInv, InputsInv
<1>2. CASE place = "answer"
  BY <1>2, AnsweringIsOK, OneMoveKeepsInputs DEF Goto
<1>3. CASE place # "answer"
  <2> DEFINE local == [thread[t] EXCEPT !.at = place]
  <2>1. thread' = [thread EXCEPT ![t] = local]
    BY <1>3 DEF Goto
  <2>2. InputOK(local)
    BY <1>1 DEF InputOK, Locals
  <2> QED
    BY <2>1, <2>2, OneMoveKeepsInputs
<1> QED
  BY <1>2, <1>3

LEMMA AcceptKeepsInputs ==
  ASSUME LimitsAssumption, BudgetsAssumption, LockInv, InputsInv, NEW t \in Threads, Accept(t)
  PROVE  InputsInv'
<1>1. PICK kind \in budget.kinds : \E input \in Inputs(kind), handled \in BOOLEAN :
        thread' = [thread EXCEPT ![t] =
          IF handled /\ kind # "asset"
            THEN [kind |-> kind, at |-> FirstSection(kind), input |-> input, slots |-> 0]
            ELSE Answering]
  BY DEF Accept
<1>2. kind \in Kinds
  BY DEF LockInv, BudgetsAssumption
<1>3. PICK input \in Inputs(kind) : \E handled \in BOOLEAN :
        thread' = [thread EXCEPT ![t] =
          IF handled /\ kind # "asset"
            THEN [kind |-> kind, at |-> FirstSection(kind), input |-> input, slots |-> 0]
            ELSE Answering]
  BY <1>1
<1> DEFINE local == [kind |-> kind, at |-> FirstSection(kind), input |-> input, slots |-> 0]
<1>4. InputOK(local)
  <2>1. input \in InputsOf(kind) /\ 0 <= MaxDevices
    BY <1>2, InputsAreOf DEF LimitsAssumption
  <2> QED
    BY <2>1 DEF InputOK
<1>5. PICK new \in {local, Answering} : thread' = [thread EXCEPT ![t] = new]
  BY <1>3
<1> QED
  BY <1>4, <1>5, AnsweringIsOK, OneMoveKeepsInputs

LEMMA RegistrationKeepsInputs ==
  ASSUME LimitsAssumption, LockInv, LimitInv, InputsInv, NEW t \in Threads,
         CountDevices(t) \/ RegisterDevice(t) \/ EndRegistration(t)
  PROVE  InputsInv'
<1>1. thread[t] \in Locals /\ InputOK(thread[t]) /\ thread[t].kind = "register"
      /\ thread[t].slots \in Nat
  BY DEF LockInv, InputsInv, Locals, CountDevices, RegisterDevice, EndRegistration, At
<1>2. thread[t].input \in Seq(Ips) /\ thread[t].slots <= MaxDevices
  BY <1>1 DEF InputOK, InputsOf
<1>3. CASE CountDevices(t)
  <2>1. CASE Goto(t, "answer")
    BY <2>1, GotoKeepsInputs
  <2>2. CASE thread' = [thread EXCEPT ![t].at = "registering", ![t].slots = Slots]
    <3> DEFINE local == [thread[t] EXCEPT !.at = "registering", !.slots = Slots]
    <3>1. Slots <= MaxDevices
      <4>1. Cardinality(rows) \in Nat /\ MaxDevices \in Nat
        BY OwnIsFinite DEF LimitInv, LimitsAssumption
      <4> QED
        BY <4>1 DEF Slots
    <3>2. thread' = [thread EXCEPT ![t] = local]
      BY <1>1, <2>2 DEF LockInv
    <3>3. local.input = thread[t].input /\ local.kind = thread[t].kind /\ local.slots = Slots
      BY <1>1 DEF Locals
    <3> HIDE DEF local
    <3> QED
      BY <1>1, <3>1, <3>2, <3>3, OneMoveKeepsInputs DEF InputOK
  <2> QED
    BY <1>3, <2>1, <2>2 DEF CountDevices
<1>4. CASE RegisterDevice(t)
  <2>1. PICK n \in {thread[t].slots, thread[t].slots - 1} :
          thread' = [thread EXCEPT ![t].input = Tail(@), ![t].slots = n]
    BY <1>4 DEF RegisterDevice
  <2>2. Tail(thread[t].input) \in Seq(Ips)
    BY <1>2, <1>4 DEF RegisterDevice
  <2>3. n <= MaxDevices
    <3>1. MaxDevices \in Nat
      BY DEF LimitsAssumption
    <3> QED
      BY <1>1, <1>2, <3>1
  <2> DEFINE local == [thread[t] EXCEPT !.input = Tail(@), !.slots = n]
  <2>4. thread' = [thread EXCEPT ![t] = local]
    BY <1>1, <2>1 DEF LockInv
  <2>5. local.input = Tail(thread[t].input) /\ local.kind = "register" /\ local.slots = n
    BY <1>1 DEF Locals
  <2> HIDE DEF local
  <2>6. InputOK(local)
    BY <2>2, <2>3, <2>5 DEF InputOK, InputsOf
  <2> QED
    BY <2>4, <2>6, OneMoveKeepsInputs
<1>5. CASE EndRegistration(t)
  BY <1>5, GotoKeepsInputs DEF EndRegistration
<1> QED
  BY <1>3, <1>4, <1>5

LEMMA HandlerKeepsInputs ==
  ASSUME LimitsAssumption, BudgetsAssumption, LockInv, LimitInv, InputsInv, NEW t \in Threads,
         Accept(t) \/ Handler(t)
  PROVE  InputsInv'
<1>1. CASE Accept(t)
  BY <1>1, AcceptKeepsInputs
<1>2. CASE CountDevices(t) \/ RegisterDevice(t) \/ EndRegistration(t)
  BY <1>2, RegistrationKeepsInputs
<1>3. CASE Answer(t)
  BY <1>3, AnsweringIsOK, OneMoveKeepsInputs DEF Answer
<1>4. ASSUME Handler(t), ~Answer(t), ~CountDevices(t), ~RegisterDevice(t), ~EndRegistration(t)
      PROVE  InputsInv'
  <2>1. PICK place : Goto(t, place)
    BY <1>4 DEF Handler, ReadConfig, TakeSettings, TakeOids, SaveConfig, SaveConfigFails, Probe,
                ReadRepository, TakeDetail, EndDetail, DeleteDevice, StartScan, ScanStatus
  <2> QED
    BY <2>1, GotoKeepsInputs
<1> QED
  BY <1>1, <1>2, <1>3, <1>4

LEMMA HandlerKeepsRows ==
  ASSUME LockInv, InputsInv, RowsInv, NEW t \in Threads, Accept(t) \/ Handler(t)
  PROVE  RowsInv'
<1>1. CASE RegisterDevice(t)
  <2>1. thread[t].input \in Seq(Ips) /\ thread[t].input # <<>>
    BY <1>1 DEF RegisterDevice, At, InputsInv, InputOK, InputsOf
  <2>2. Head(thread[t].input) \in Ips
    BY <2>1
  <2>3. elsewhere' = elsewhere /\ rows' \in {rows, rows \cup {Head(thread[t].input)}}
    BY <1>1 DEF RegisterDevice
  <2> QED
    BY <2>2, <2>3 DEF RowsInv
<1>2. CASE DeleteDevice(t)
  BY <1>2 DEF DeleteDevice, RowsInv
<1>3. CASE UNCHANGED rowVars
  BY <1>3 DEF rowVars, RowsInv
<1>4. RegisterDevice(t) \/ DeleteDevice(t) \/ UNCHANGED rowVars
  BY DEF Handler, Accept, Answer, ReadConfig, TakeSettings, TakeOids, SaveConfig, SaveConfigFails,
         Probe, ReadRepository, TakeDetail, EndDetail, CountDevices, EndRegistration, StartScan,
         ScanStatus
<1> QED
  BY <1>1, <1>2, <1>3, <1>4

LEMMA HandlerKeepsValues ==
  ASSUME LockInv, InputsInv, ValuesInv, NEW t \in Threads, Accept(t) \/ Handler(t)
  PROVE  ValuesInv'
<1>1. config = [settings |-> config.settings, oids |-> config.oids]
      /\ config.settings \in Values /\ config.oids \in Values
      /\ file \in Configurations /\ acked \in Values
  BY DEF ValuesInv, Configurations
<1>2. ASSUME thread[t].kind \in {"settings", "oids"} PROVE thread[t].input[1] \in Values
  <2>1. PICK v \in Values : thread[t].input = <<v>>
    BY <1>2 DEF InputsInv, InputOK, InputsOf
  <2> QED
    BY <2>1
<1>3. CASE TakeOids(t)
  <2>1. thread[t].input[1] \in Values /\ config' = [config EXCEPT !.oids = thread[t].input[1]]
        /\ UNCHANGED <<file, acked, lastSave, torn>>
    BY <1>2, <1>3 DEF TakeOids, At
  <2> QED
    BY <1>1, <2>1 DEF ValuesInv, Configurations
<1>4. ASSUME SaveConfig(t) \/ SaveConfigFails(t) PROVE Updated(t) \in Configurations
  BY <1>1, <1>2, <1>4 DEF SaveConfig, SaveConfigFails, At, Updated, Configurations
<1>5. CASE SaveConfig(t)
  <2>1. config' = Updated(t) /\ file' = Updated(t) /\ acked' = Updated(t).settings
        /\ lastSave' = "ok" /\ torn' = FALSE
    BY <1>5 DEF SaveConfig
  <2>2. Updated(t) \in Configurations
    BY <1>4, <1>5
  <2>3. Updated(t).settings \in Values
    BY <2>2 DEF Configurations
  <2> QED
    BY <2>1, <2>2, <2>3 DEF ValuesInv
<1>6. CASE SaveConfigFails(t)
  <2>1. config' = config /\ acked' = acked /\ lastSave' = "failed"
        /\ file' \in {file, Updated(t)} /\ torn' \in {torn, TRUE}
    BY <1>6 DEF SaveConfigFails, AfterFailure
  <2>2. Updated(t) \in Configurations
    BY <1>4, <1>6
  <2> QED
    BY <2>1, <2>2 DEF ValuesInv
<1>7. CASE UNCHANGED settingsVars
  BY <1>7 DEF settingsVars, ValuesInv
<1>8. TakeOids(t) \/ SaveConfig(t) \/ SaveConfigFails(t) \/ UNCHANGED settingsVars
  BY DEF Handler, Accept, Answer, ReadConfig, TakeSettings,
         Probe, ReadRepository, TakeDetail, EndDetail, DeleteDevice, CountDevices, RegisterDevice,
         EndRegistration, StartScan, ScanStatus
<1> QED
  BY <1>3, <1>5, <1>6, <1>7, <1>8

-----------------------------------------------------------------------------
(* The state is well formed, and what done jobs have found.                *)

DataInv == InputsInv /\ RowsInv /\ ValuesInv /\ ScansInv

LEMMA NoScans ==
  ASSUME LimitsAssumption, scans = <<>>
  PROVE  ScansInv
<1>1. Listed(scans) = {}
  BY DEF Listed
<1>2. Cardinality(Listed(scans)) <= MaxJobs
  <2>1. 0 <= MaxJobs /\ Cardinality({}) = 0
    BY FS_EmptySet DEF LimitsAssumption
  <2> QED
    BY <1>1, <2>1
<1> QED
  BY <1>2 DEF ScansInv, AllJobsOK

LEMMA DataInit == ASSUME LimitsAssumption PROVE Init => DataInv
<1>1. SUFFICES ASSUME Init PROVE DataInv
  OBVIOUS
<1>2. InputsInv
  BY <1>1, AnsweringIsOK DEF Init, InputsInv
<1>3. RowsInv
  BY <1>1 DEF Init, RowsInv, LimitsAssumption
<1>4. ValuesInv
  <2>1. 0 \in Values
    BY DEF LimitsAssumption
  <2> QED
    BY <1>1, <2>1 DEF Init, ValuesInv, Configurations
<1>5. ScansInv
  BY <1>1, NoScans DEF Init
<1> QED
  BY <1>2, <1>3, <1>4, <1>5 DEF DataInv

LEMMA HandlerKeepsScans ==
  ASSUME LimitsAssumption, InputsInv, ScansInv, NEW t \in Threads, Accept(t) \/ Handler(t)
  PROVE  ScansInv'
<1>1. CASE StartScan(t)
  <2>1. thread[t].input \in Seq(Cidrs)
    BY <1>1 DEF StartScan, At, InputsInv, InputOK, InputsOf
  <2> QED
    BY <1>1, <2>1, StartScanKeepsScans
<1>2. CASE scans' = scans
  BY <1>2 DEF ScansInv, AllJobsOK
<1>3. StartScan(t) \/ scans' = scans
  BY DEF Handler, Accept, Answer, ReadConfig, TakeSettings, TakeOids, SaveConfig, SaveConfigFails,
         Probe, ReadRepository, TakeDetail, EndDetail, DeleteDevice, CountDevices, RegisterDevice,
         EndRegistration, ScanStatus
<1> QED
  BY <1>1, <1>2, <1>3

LEMMA OthersKeepData ==
  ASSUME LimitsAssumption, WebInv, DataInv,
         BackgroundTakes \/ BackgroundReleases \/ (\E ip \in Ips : RegisterElsewhere(ip)) \/ Restart
  PROVE  DataInv'
<1> USE DEF DataInv
<1>1. CASE BackgroundTakes \/ BackgroundReleases
  <2>1. UNCHANGED <<thread, settingsVars, rowVars, scans>>
    BY <1>1 DEF BackgroundTakes, BackgroundReleases
  <2> QED
    BY <2>1 DEF settingsVars, rowVars, InputsInv, InputOK, RowsInv, ValuesInv, ScansInv, AllJobsOK
<1>2. CASE \E ip \in Ips : RegisterElsewhere(ip)
  <2>1. PICK ip \in Ips : rows' = rows \cup {ip} /\ elsewhere' = elsewhere \cup {ip}
    BY <1>2 DEF RegisterElsewhere
  <2>2. RowsInv'
    BY <2>1 DEF RowsInv
  <2>3. UNCHANGED <<thread, settingsVars, scans>>
    BY <1>2 DEF RegisterElsewhere
  <2> QED
    BY <2>2, <2>3 DEF settingsVars, InputsInv, InputOK, ValuesInv, ScansInv, AllJobsOK
<1>3. CASE Restart
  <2>1. /\ thread' = [t \in Threads |-> Idle] /\ scans' = <<>> /\ UNCHANGED <<rowVars, file>>
        /\ config' = file /\ acked' = file.settings /\ lastSave' = "ok" /\ torn' = FALSE
    BY <1>3 DEF Restart
  <2>2. InputsInv'
    <3>1. \A t \in Threads : InputOK(thread'[t])
      BY <2>1, AnsweringIsOK
    <3> QED
      BY <3>1 DEF InputsInv, InputOK
  <2>3. RowsInv'
    BY <2>1 DEF rowVars, RowsInv
  <2>4. ValuesInv'
    BY <2>1 DEF ValuesInv, Configurations
  <2>5. ScansInv'
    <3>1. Listed(scans') = {} /\ 0 <= MaxJobs
      BY <2>1 DEF Listed, LimitsAssumption
    <3>2. Cardinality(Listed(scans')) <= MaxJobs
      BY <3>1, FS_EmptySet
    <3> QED
      BY <2>1, <3>2 DEF ScansInv, AllJobsOK
  <2> QED
    BY <2>2, <2>3, <2>4, <2>5
<1> QED
  BY <1>1, <1>2, <1>3

LEMMA DataStep ==
  ASSUME LimitsAssumption, BudgetsAssumption
  PROVE  WebInv /\ DataInv /\ [Next]_vars => DataInv'
<1>1. SUFFICES ASSUME WebInv, DataInv, [Next]_vars PROVE DataInv'
  OBVIOUS
<1> USE DEF DataInv
<1>2. ASSUME NEW t \in Threads, Accept(t) \/ Handler(t) PROVE DataInv'
  <2>1. LockInv /\ LimitInv
    BY <1>1 DEF WebInv
  <2> QED
    BY <1>1, <1>2, <2>1, HandlerKeepsInputs, HandlerKeepsRows, HandlerKeepsValues, HandlerKeepsScans
<1>3. ASSUME NEW j \in DOMAIN scans, FinishScan(j) \/ \E w \in DOMAIN scans[j].todo : Worker(j, w)
      PROVE  DataInv'
  <2>1. UNCHANGED <<thread, settingsVars, rowVars>>
    BY <1>3 DEF FinishScan, Worker, ProbeHost, ReportProgress, onlyScans
  <2>2. InputsInv' /\ RowsInv' /\ ValuesInv'
    BY <1>1, <2>1 DEF settingsVars, rowVars, InputsInv, InputOK, RowsInv, ValuesInv
  <2>3. ScansInv'
    BY <1>1, <1>3, WorkKeepsScans
  <2> QED
    BY <2>2, <2>3
<1>4. CASE BackgroundTakes \/ BackgroundReleases \/ (\E ip \in Ips : RegisterElsewhere(ip)) \/ Restart
  BY <1>1, <1>4, OthersKeepData
<1>5. CASE UNCHANGED vars
  BY <1>1, <1>5 DEF vars, settingsVars, rowVars, InputsInv, InputOK, RowsInv, ValuesInv, ScansInv,
                    AllJobsOK
<1> QED
  BY <1>1, <1>2, <1>3, <1>4, <1>5 DEF Next

LEMMA DataInvariant == Spec => [](WebInv /\ DataInv)
<1>1. Init => DataInv
  BY LimitsAssumption, DataInit
<1>2. WebInv /\ DataInv /\ [Next]_vars => DataInv'
  BY LimitsAssumption, BudgetsAssumption, DataStep
<1> QED
  BY <1>1, <1>2, WebInvariant, PTL DEF Spec

\* Every job has counted within its hosts, and is done with all of them.
LEMMA CountsAreWithin ==
  ASSUME LimitsAssumption, NEW job, JobOK(job)
  PROVE  /\ job.count \in 0 .. job.total /\ job.scanned \in 0 .. job.total
         /\ job.state = "done" => job.count = job.total
<1>1. /\ job.count \in Nat /\ job.scanned \in Nat /\ job.total \in Nat /\ job.scanned <= job.total
      /\ Cardinality(ContentOf(job.todo)) + job.count = job.total /\ job.todo \in Seq(Seq(Ips))
  BY JobParts DEF JobOK, CountsOK
<1>2. Cardinality(ContentOf(job.todo)) \in Nat
  <2>1. ContentOf(job.todo) \subseteq Ips /\ IsFiniteSet(Ips)
    BY <1>1, HeldIsOf DEF LimitsAssumption
  <2> QED
    BY <2>1, FS_Subset, FS_CardinalityType
<1>3. job.state = "done" => Cardinality(ContentOf(job.todo)) = 0
  <2> SUFFICES ASSUME job.state = "done" PROVE Cardinality(ContentOf(job.todo)) = 0
    OBVIOUS
  <2>1. \A w \in DOMAIN job.todo : job.todo[w] = <<>>
    BY DEF JobOK, DoneOK
  <2>2. ContentOf(job.todo) = {}
    BY <2>1, NothingHeld
  <2> QED
    BY <2>2, FS_EmptySet
<1> HIDE DEF ContentOf
<1> QED
  <2>1. PICK h, c, m : h = Cardinality(ContentOf(job.todo)) /\ c = job.count /\ m = job.total
    OBVIOUS
  <2>2. h \in Nat /\ c \in Nat /\ m \in Nat /\ h + c = m
    BY <1>1, <1>2, <2>1
  <2>3. c \in 0 .. m /\ (h = 0 => c = m)
    BY <2>2
  <2> QED
    BY <1>1, <1>3, <2>1, <2>3

\* The state of the Web server is well formed: nobody holds a lock outside of the sections
\* under it, and no scan shows more progress than it has hosts, however its workers report
\* (src/web/server.rs).
THEOREM TypeCorrect == Spec => []TypeOK
<1>1. WebInv /\ DataInv => TypeOK
  <2> SUFFICES ASSUME WebInv, DataInv PROVE TypeOK
    OBVIOUS
  <2>1. thread \in [Threads -> [kind: Kinds \cup {"none"}, at: Sections,
                                input: {thread[t].input : t \in Threads}, slots: 0 .. MaxDevices]]
    <3>1. ASSUME NEW t \in Threads
          PROVE  thread[t] \in [kind: Kinds \cup {"none"}, at: Sections,
                                input: {thread[u].input : u \in Threads}, slots: 0 .. MaxDevices]
      <4>1. thread[t] \in Locals
        BY DEF WebInv, LockInv
      <4>2. thread[t].slots \in 0 .. MaxDevices
        <5>1. thread[t].slots \in Nat
          BY <4>1 DEF Locals
        <5>2. thread[t].slots <= MaxDevices
          BY DEF DataInv, InputsInv, InputOK
        <5>3. MaxDevices \in Nat
          BY LimitsAssumption DEF LimitsAssumption
        <5> QED
          BY <5>1, <5>2, <5>3
      <4>3. thread[t] = [kind |-> thread[t].kind, at |-> thread[t].at,
                         input |-> thread[t].input, slots |-> thread[t].slots]
            /\ thread[t].kind \in Kinds \cup {"none"} /\ thread[t].at \in Sections
        BY <4>1 DEF Locals
      <4> QED
        BY <4>2, <4>3
    <3> QED
      BY <3>1 DEF WebInv, LockInv
  <2>2. \A t \in Threads :
          thread[t].input \in Seq(IF thread[t].kind = "scan" THEN Cidrs ELSE Values \cup Ips)
    <3> SUFFICES ASSUME NEW t \in Threads
                 PROVE  thread[t].input \in Seq(IF thread[t].kind = "scan" THEN Cidrs ELSE Values \cup Ips)
      OBVIOUS
    <3>1. thread[t].input \in InputsOf(thread[t].kind)
      BY DEF DataInv, InputsInv, InputOK
    <3>2. CASE thread[t].kind = "scan"
      BY <3>1, <3>2 DEF InputsOf
    <3>3. CASE thread[t].kind # "scan"
      <4>1. PICK input : input = thread[t].input
        OBVIOUS
      <4>2. \/ input = <<>> \/ input \in Seq(Ips)
            \/ \E x \in Values \cup Ips : input = <<x>>
        BY <3>1, <3>3, <4>1 DEF InputsOf
      <4>3. input \in Seq(Values \cup Ips)
        <5>1. CASE input \in Seq(Ips)
          <6>1. PICK n \in Nat : input \in [1 .. n -> Ips]
            BY <5>1
          <6>2. input \in [1 .. n -> Values \cup Ips]
            BY <6>1
          <6> QED
            BY <6>2
        <5>2. ASSUME NEW x \in Values \cup Ips, input = <<x>> PROVE input \in Seq(Values \cup Ips)
          BY <5>2
        <5>3. CASE input = <<>>
          BY <5>3
        <5> QED
          BY <4>2, <5>1, <5>2, <5>3
      <4> QED
        BY <3>3, <4>1, <4>3
    <3> QED
      BY <3>2, <3>3
  <2>3. /\ holder \in [cfg: Holders, repo: Holders]
        /\ \A t \in Threads :
             /\ holder["cfg"] = t <=> thread[t].at = "save"
             /\ holder["repo"] = t <=> thread[t].at \in {"probing", "registering"}
    BY DEF WebInv, LockInv, LocksHeld, Locks, Under
  <2>4. {config, file} \subseteq [settings: Values, oids: Values]
        /\ acked \in Values /\ lastSave \in {"ok", "failed"} /\ torn \in BOOLEAN
    BY DEF DataInv, ValuesInv, Configurations
  <2>5. elsewhere \subseteq rows /\ rows \subseteq Ips /\ Cardinality(Listed(scans)) <= MaxJobs
    BY DEF DataInv, RowsInv, ScansInv
  <2>6. ASSUME NEW j \in DOMAIN scans
        PROVE  /\ scans[j].state \in {"running", "done"} /\ scans[j].listed \in BOOLEAN
               /\ scans[j].scanned \in 0 .. scans[j].total
               /\ scans[j].count \in 0 .. scans[j].total
               /\ ToSet(scans[j].found) \subseteq scans[j].answered /\ scans[j].answered \subseteq Ips
    <3>1. JobOK(scans[j]) /\ scans[j] \in Jobs
      BY DEF DataInv, ScansInv, AllJobsOK, JobOK
    <3>2. scans[j].scanned \in 0 .. scans[j].total /\ scans[j].count \in 0 .. scans[j].total
      BY <3>1, LimitsAssumption, CountsAreWithin
    <3>3. scans[j].state \in {"running", "done"} /\ scans[j].listed \in BOOLEAN
          /\ scans[j].answered \in SUBSET Ips
      BY <3>1, JobParts
    <3>4. ToSet(scans[j].found) \subseteq scans[j].answered
      BY <3>1 DEF JobOK, FoundOK
    <3> QED
      BY <3>2, <3>3, <3>4
  <2> QED
    BY <2>1, <2>2, <2>3, <2>4, <2>5, <2>6 DEF TypeOK, Sections
<1> QED
  BY <1>1, DataInvariant, PTL

\* A job the table shows as done has every host that answered, once, whatever the number of
\* its threads, in whatever order they find and report, and whatever other jobs are dropped
\* from the table (run_scan_job).
THEOREM DoneScansAlwaysComplete == Spec => []DoneScansAreComplete
<1>1. DataInv => DoneScansAreComplete
  <2> SUFFICES ASSUME DataInv, NEW j \in Listed(scans), scans[j].state = "done"
               PROVE  /\ ToSet(scans[j].found) = scans[j].answered
                      /\ Len(scans[j].found) = Cardinality(scans[j].answered)
                      /\ scans[j].scanned = scans[j].total /\ scans[j].count = scans[j].total
    BY DEF DoneScansAreComplete
  <2>1. JobOK(scans[j]) /\ scans[j].listed
    BY DEF DataInv, ScansInv, AllJobsOK, Listed
  <2>2. scans[j].count = scans[j].total
    BY <2>1, LimitsAssumption, CountsAreWithin
  <2> QED
    BY <2>1, <2>2 DEF JobOK, FoundOK, DoneOK
<1> QED
  BY <1>1, DataInvariant, PTL
=============================================================================
