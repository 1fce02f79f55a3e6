------------------------- MODULE MotorCallersProofs -------------------------
(***************************************************************************)
(* Theorems about what Motors does to the callers that wait in motor_move: *)
(* one stop_all_motors strands nobody, and who is alone with the service   *)
(* is never refused and returns when its move is over.                     *)
(***************************************************************************)
EXTENDS MotorsProofs, FiniteSetTheorems

USE DEF callerVars, commandVars, threadVars

-----------------------------------------------------------------------------
(* NobodyStranded. *)

\* The unit that a command of motor m brings when it is made, and the one that
\* the thread is about to give.
Queued(m) == IF in_use[m] THEN 1 ELSE 0
Due(m)    == IF slot = m /\ m_pc = "give" THEN 1 ELSE 0

\* The units of completion_sem[m] that are there or will be given.
Units(m) == completion_sem[m] + Queued(m) + Due(m)

\* A caller that sleeps found no unit, and none was given since; who is about to
\* publish has found the motor free.
SleepInv ==
    /\ \A c \in Callers : op[c] = "pended" => completion_sem[req[c].id] = 0
    /\ \A c \in Callers : op[c] = "publish" => ~in_use[req[c].id]

\* With one stop at most, there is a unit for everyone who waits.
UnitsInv ==
    /\ SleepInv
    /\ \A m \in Motors :
          /\ IsFiniteSet(Clients(m))
          /\ stops <= 1 => Cardinality(Clients(m)) <= Units(m)

\* The units of a motor are a number.
LEMMA UnitsType ==
  ASSUME TypeOK, NEW m \in Motors
  PROVE  /\ Units(m) \in Nat
         /\ completion_sem[m] \in {0, 1}
         /\ Queued(m) \in {0, 1}
         /\ Due(m) \in {0, 1}
BY DEF TypeOK, Units, Queued, Due

\* One element less, one less to count.
LEMMA OneLess ==
  ASSUME NEW S, NEW x \in S, IsFiniteSet(S)
  PROVE  IsFiniteSet(S \ {x}) /\ Cardinality(S \ {x}) = Cardinality(S) - 1
         /\ Cardinality(S) \in Nat
BY FS_RemoveElement, FS_CardinalityType

\* What semaphores given for the motors in M do to those who wait: where somebody
\* sleeps, one leaves; elsewhere the unit is kept.
LEMMA GiveTakesOne ==
  ASSUME TypeOK, NEW M \in SUBSET Motors, NEW at \in [Callers -> Ops],
         GiveCompletions(M, at), req' = req,
         \A d \in Callers :
            \/ at[d] = op[d]
            \/ op[d] \notin {"wait", "pended"} /\ at[d] \notin {"wait", "pended", "publish"},
         NEW m \in Motors
  PROVE  IF m \in M /\ Waiting(m) # {}
         THEN /\ \E c \in Clients(m) : Clients(m)' = Clients(m) \ {c}
              /\ completion_sem'[m] = completion_sem[m]
         ELSE /\ Clients(m)' = Clients(m)
              /\ completion_sem'[m] = IF m \in M THEN 1 ELSE completion_sem[m]
<1>1. PICK woken \in SUBSET UNION {Waiting(n) : n \in M} :
         /\ \A n \in M : Waiting(n) # {} => \E c \in woken : woken \cap Waiting(n) = {c}
         /\ op' = [c \in Callers |-> IF c \in woken THEN "woken" ELSE at[c]]
         /\ completion_sem' = [n \in Motors |->
               IF n \in M /\ Waiting(n) = {} THEN 1 ELSE completion_sem[n]]
  BY DEF GiveCompletions
<1>2. Clients(m)' = Clients(m) \ woken
  BY <1>1 DEF Clients
<1>3. woken \cap Clients(m) = IF m \in M THEN woken \cap Waiting(m) ELSE {}
  BY <1>1 DEF Clients, Waiting
<1>4. CASE m \in M /\ Waiting(m) # {}
  <2>1. PICK c \in woken : woken \cap Waiting(m) = {c}
    BY <1>1, <1>4
  <2>2. c \in Clients(m)
    BY <2>1 DEF Waiting, Clients
  <2>3. Clients(m)' = Clients(m) \ {c}
    BY <1>2, <1>3, <1>4, <2>1
  <2>4. QED
    BY <1>1, <1>4, <2>2, <2>3 DEF TypeOK
<1>5. CASE ~(m \in M /\ Waiting(m) # {})
  <2>1. Clients(m)' = Clients(m)
    BY <1>2, <1>3, <1>5
  <2>2. QED
    BY <1>1, <1>5, <2>1 DEF TypeOK
<1>6. QED
  BY <1>4, <1>5

\* Nor does it disturb who sleeps on, or is about to publish.
LEMMA GiveKeepsSleepers ==
  ASSUME TypeOK, SleepInv, NEW M \in SUBSET Motors, NEW at \in [Callers -> Ops],
         GiveCompletions(M, at), req' = req,
         \A d \in Callers : at[d] = op[d] \/ at[d] \notin {"wait", "pended", "publish"},
         \A d \in Motors : in_use'[d] => in_use[d]
  PROVE  SleepInv'
<1>1. PICK woken \in SUBSET UNION {Waiting(n) : n \in M} :
         /\ op' = [c \in Callers |-> IF c \in woken THEN "woken" ELSE at[c]]
         /\ completion_sem' = [n \in Motors |->
               IF n \in M /\ Waiting(n) = {} THEN 1 ELSE completion_sem[n]]
  BY DEF GiveCompletions
<1>2. \A d \in Callers : op'[d] \in {"pended", "publish"} =>
         op'[d] = op[d] /\ req[d].id \in Motors
  BY <1>1 DEF TypeOK
<1>3. \A d \in Callers : op'[d] = "pended" => completion_sem'[req[d].id] = 0
  BY <1>1, <1>2 DEF SleepInv, Waiting
<1>4. QED
  BY <1>2, <1>3 DEF SleepInv

\* A step that changes no command, no unit and none of those who wait.
LEMMA UnitsStay ==
  ASSUME TypeOK, UnitsInv, UNCHANGED <<in_use, completion_sem, stops>>,
         \A m \in Motors : /\ Clients(m)' = Clients(m)
                           /\ Due(m)' = Due(m),
         \A d \in Callers :
            /\ op'[d] = "pended" => op[d] = "pended" /\ req'[d] = req[d]
            /\ op'[d] = "publish" => \/ op[d] = "publish" /\ req'[d] = req[d]
                                     \/ ~in_use[req'[d].id]
  PROVE  UnitsInv'
<1>1. SleepInv'
  BY DEF UnitsInv, SleepInv
<1>2. \A m \in Motors : Units(m)' = Units(m)
  BY DEF Units, Queued
<1>3. QED
  BY <1>1, <1>2 DEF UnitsInv

\* A command adds one to those who wait and one unit that will come.
LEMMA PublishUnits ==
  ASSUME TypeOK, MutexInv, UnitsInv, NEW c \in Callers, MovePublish(c)
  PROVE  UnitsInv'
<1>0. PICK k \in Motors : k = req[c].id
  BY PublishAdds
<1>1. /\ op[c] = "publish" /\ op' = [op EXCEPT ![c] = "wait"]
      /\ op \in [Callers -> Ops] /\ in_use \in [Motors -> BOOLEAN]
      /\ in_use' = [in_use EXCEPT ![k] = TRUE]
      /\ UNCHANGED <<req, completion_sem, stops, slot, m_pc>>
  BY <1>0 DEF TypeOK, MovePublish, CallerAt
<1>2. ~in_use[k]
  BY <1>0, <1>1 DEF UnitsInv, SleepInv
<1>3. \A d \in Callers : op'[d] # "publish"
  BY <1>1, Names DEF MutexInv
<1>4. SleepInv'
  BY <1>1, <1>3 DEF UnitsInv, SleepInv
<1>5. ASSUME NEW m \in Motors
      PROVE  /\ IsFiniteSet(Clients(m)')
             /\ stops <= 1 => Cardinality(Clients(m)') <= Units(m)'
  <2>1. CASE m = k
    <3>1. Clients(m)' = Clients(m) \union {c} /\ c \notin Clients(m)
      BY <1>0, <2>1, PublishAdds
    <3>2. IsFiniteSet(Clients(m)) /\ Cardinality(Clients(m)) \in Nat
      BY FS_CardinalityType DEF UnitsInv
    <3>3. IsFiniteSet(Clients(m)') /\ Cardinality(Clients(m)') = Cardinality(Clients(m)) + 1
      BY <3>1, <3>2, FS_AddElement
    <3>4. Units(m)' = Units(m) + 1 /\ Units(m) \in Nat
      <4>1. Queued(m)' = Queued(m) + 1
        BY <1>1, <1>2, <2>1 DEF Queued, Due
      <4>2. Due(m)' = Due(m)
        BY <1>1 DEF Due
      <4>3. QED
        BY <1>1, <4>1, <4>2, UnitsType DEF Units
    <3>5. QED
      BY <3>2, <3>3, <3>4 DEF UnitsInv
  <2>2. CASE m # k
    <3>1. Clients(m)' = Clients(m)
      BY <1>0, <2>2, PublishAdds
    <3>2. Units(m)' = Units(m)
      BY <1>1, <2>2 DEF Units, Queued, Due
    <3>3. QED
      BY <3>1, <3>2 DEF UnitsInv
  <2>3. QED
    BY <2>1, <2>2
<1>6. QED
  BY <1>1, <1>4, <1>5 DEF UnitsInv

\* Who finds a unit takes it and leaves; who finds none sleeps.
LEMMA WaitUnits ==
  ASSUME TypeOK, UnitsInv, NEW c \in Callers, MoveWait(c)
  PROVE  UnitsInv'
<1>0. PICK k \in Motors : k = req[c].id
  BY DEF TypeOK, MoveWait
<1>1. /\ op[c] = "wait" /\ op \in [Callers -> Ops]
      /\ UNCHANGED <<in_use, slot, m_pc, stops>>
  BY DEF TypeOK, MoveWait
<1>2. CASE completion_sem[k] = 0
  <2>1. op' = [op EXCEPT ![c] = "pended"] /\ UNCHANGED <<req, completion_sem>>
    BY <1>0, <1>2 DEF MoveWait, CallerAt
  <2>2. \A m \in Motors : Clients(m)' = Clients(m) /\ Units(m)' = Units(m)
    BY <1>1, <2>1 DEF Clients, Units, Queued, Due
  <2>3. SleepInv'
    BY <1>0, <1>1, <1>2, <2>1 DEF UnitsInv, SleepInv
  <2>4. QED
    BY <1>1, <2>2, <2>3 DEF UnitsInv
<1>3. CASE completion_sem[k] # 0
  <2>1. Returns(c) /\ completion_sem' = [completion_sem EXCEPT ![k] = 0]
    BY <1>0, <1>3 DEF MoveWait
  <2>2. \A d \in Callers : op'[d] \in {"wait", "pended", "publish"} =>
           d # c /\ op'[d] = op[d] /\ req'[d] = req[d] /\ req[d].id \in Motors
    BY <1>1, <2>1 DEF Returns, TypeOK
  <2>3. SleepInv'
    BY <1>1, <2>1, <2>2 DEF UnitsInv, SleepInv, TypeOK
  <2>4. ASSUME NEW m \in Motors
        PROVE  /\ IsFiniteSet(Clients(m)')
               /\ stops <= 1 => Cardinality(Clients(m)') <= Units(m)'
    <3>1. CASE m = k
      <4>1. Clients(m)' = Clients(m) \ {c} /\ c \in Clients(m)
        BY <1>0, <1>1, <2>1, <3>1 DEF Clients, Returns
      <4>2. /\ IsFiniteSet(Clients(m)') /\ Cardinality(Clients(m)) \in Nat
            /\ Cardinality(Clients(m)') = Cardinality(Clients(m)) - 1
        BY <4>1, OneLess DEF UnitsInv
      <4>3. Units(m)' = Units(m) - 1 /\ Units(m) \in Nat
        <5>1. completion_sem[m] = 1 /\ completion_sem'[m] = 0
          BY <1>3, <2>1, <3>1 DEF TypeOK
        <5>2. /\ Queued(m)' = Queued(m)
              /\ Due(m)' = Due(m)
          BY <1>1 DEF Queued, Due
        <5>3. QED
          BY <5>1, <5>2, UnitsType DEF Units
      <4>4. QED
        BY <4>2, <4>3 DEF UnitsInv
    <3>2. CASE m # k
      <4>1. Clients(m)' = Clients(m)
        BY <1>0, <1>1, <2>1, <3>2 DEF Clients, Returns
      <4>2. Units(m)' = Units(m)
        BY <1>1, <2>1, <3>2 DEF Units, Queued, Due
      <4>3. QED
        BY <4>1, <4>2 DEF UnitsInv
    <3>3. QED
      BY <3>1, <3>2
  <2>5. QED
    BY <1>1, <2>3, <2>4 DEF UnitsInv
<1>4. QED
  BY <1>2, <1>3

\* The first stop finds no unit left over, and leaves one or takes a caller away
\* for each command it clears.
LEMMA StopUnits ==
  ASSUME TypeOK, ServiceInv, UnitsInv, NEW c \in Callers, StopClear(c)
  PROVE  UnitsInv'
<1> DEFINE at == [op EXCEPT ![c] = "idle"]
<1>1. /\ at \in [Callers -> Ops] /\ Motors \in SUBSET Motors
      /\ \A d \in Callers :
            \/ at[d] = op[d]
            \/ op[d] \notin {"wait", "pended"} /\ at[d] \notin {"wait", "pended", "publish"}
  <2>1. op[c] = "stop_clear" /\ op \in [Callers -> Ops] /\ "idle" \in Ops
    BY DEF TypeOK, Ops, StopClear
  <2>2. at \in [Callers -> Ops] /\ Motors \in SUBSET Motors
    BY <2>1
  <2>3. at[c] = "idle" /\ \A d \in Callers \ {c} : at[d] = op[d]
    BY <2>1
  <2> HIDE DEF at
  <2>4. QED
    BY <2>1, <2>2, <2>3
<1>2. /\ GiveCompletions(Motors, at)
      /\ in_use' = [m \in Motors |-> FALSE] /\ stops' = stops + 1 /\ stops \in Nat
      /\ UNCHANGED <<req, slot, m_pc>>
  BY DEF StopClear, TypeOK
<1> HIDE DEF at
<1>3. SleepInv'
  BY <1>1, <1>2, GiveKeepsSleepers DEF UnitsInv
<1>4. ASSUME NEW m \in Motors
      PROVE  /\ IsFiniteSet(Clients(m)')
             /\ stops' <= 1 => Cardinality(Clients(m)') <= Units(m)'
  <2>1. /\ Queued(m)' = 0
        /\ Due(m)' = Due(m)
    BY <1>2 DEF Queued, Due
  <2>2. stops' <= 1 => completion_sem[m] = 0
    BY <1>2 DEF ServiceInv, Matched
  <2>3. IsFiniteSet(Clients(m)) /\ Cardinality(Clients(m)) \in Nat
    BY FS_CardinalityType DEF UnitsInv
  <2>4. CASE Waiting(m) # {}
    <3>1. /\ \E d \in Clients(m) : Clients(m)' = Clients(m) \ {d}
          /\ completion_sem'[m] = completion_sem[m]
      BY <1>1, <1>2, <2>4, GiveTakesOne
    <3>2. IsFiniteSet(Clients(m)') /\ Cardinality(Clients(m)') = Cardinality(Clients(m)) - 1
      BY <2>3, <3>1, OneLess
    <3>3. QED
      BY <1>2, <2>1, <2>2, <2>3, <3>1, <3>2, UnitsType DEF UnitsInv, Units
  <2>5. CASE Waiting(m) = {}
    <3>1. Clients(m)' = Clients(m) /\ completion_sem'[m] = 1
      BY <1>1, <1>2, <2>5, GiveTakesOne
    <3>2. QED
      BY <1>2, <2>1, <2>2, <2>3, <3>1, UnitsType DEF UnitsInv, Units
  <2>6. QED
    BY <2>4, <2>5
<1>5. QED
  BY <1>3, <1>4 DEF UnitsInv

\* The thread's unit that was to come has come, to somebody or to the semaphore.
LEMMA GiveUnits ==
  ASSUME TypeOK, UnitsInv, ThreadGive
  PROVE  UnitsInv'
<1>1. /\ op \in [Callers -> Ops] /\ {slot} \in SUBSET Motors
      /\ GiveCompletions({slot}, op) /\ m_pc = "give" /\ m_pc' # "give"
      /\ UNCHANGED <<req, in_use, stops>>
  BY DEF TypeOK, ThreadGive, NextSlot
<1>2. SleepInv'
  BY <1>1, GiveKeepsSleepers DEF UnitsInv
<1>3. ASSUME NEW m \in Motors
      PROVE  /\ IsFiniteSet(Clients(m)')
             /\ stops <= 1 => Cardinality(Clients(m)') <= Units(m)'
  <2>1. /\ Queued(m)' = Queued(m)
        /\ Due(m)' = 0
        /\ Due(m) = IF m = slot THEN 1 ELSE 0
    BY <1>1 DEF Queued, Due
  <2>2. IsFiniteSet(Clients(m)) /\ Cardinality(Clients(m)) \in Nat
    BY FS_CardinalityType DEF UnitsInv
  <2>0. IF m = slot /\ Waiting(m) # {}
        THEN /\ \E d \in Clients(m) : Clients(m)' = Clients(m) \ {d}
             /\ completion_sem'[m] = completion_sem[m]
        ELSE /\ Clients(m)' = Clients(m)
             /\ completion_sem'[m] = IF m = slot THEN 1 ELSE completion_sem[m]
    <3> DEFINE M == {slot}
    <3>1. M \in SUBSET Motors /\ GiveCompletions(M, op) /\ (m \in M <=> m = slot)
      BY <1>1
    <3> HIDE DEF M
    <3>2. IF m \in M /\ Waiting(m) # {}
          THEN /\ \E d \in Clients(m) : Clients(m)' = Clients(m) \ {d}
               /\ completion_sem'[m] = completion_sem[m]
          ELSE /\ Clients(m)' = Clients(m)
               /\ completion_sem'[m] = IF m \in M THEN 1 ELSE completion_sem[m]
      BY <1>1, <3>1, GiveTakesOne
    <3>3. QED
      BY <3>1, <3>2
  <2>3. CASE m = slot /\ Waiting(m) # {}
    <3>1. /\ \E d \in Clients(m) : Clients(m)' = Clients(m) \ {d}
          /\ completion_sem'[m] = completion_sem[m]
      BY <2>0, <2>3
    <3>2. IsFiniteSet(Clients(m)') /\ Cardinality(Clients(m)') = Cardinality(Clients(m)) - 1
      BY <2>2, <3>1, OneLess
    <3>3. QED
      BY <2>1, <2>2, <2>3, <3>1, <3>2, UnitsType DEF UnitsInv, Units
  <2>4. CASE m = slot /\ Waiting(m) = {}
    <3>1. Clients(m)' = Clients(m) /\ completion_sem'[m] = 1
      BY <2>0, <2>4
    <3>2. Clients(m) = {}
      BY <2>4, ClientsPended DEF ThreadGive
    <3>3. Cardinality(Clients(m)') = 0
      BY <3>1, <3>2, FS_EmptySet
    <3>4. QED
      BY <1>1, <2>1, <2>2, <3>1, <3>3, UnitsType DEF Units
  <2>5. CASE m # slot
    <3>1. Clients(m)' = Clients(m) /\ completion_sem'[m] = completion_sem[m]
      BY <2>0, <2>5
    <3>2. QED
      BY <2>1, <2>2, <2>5, <3>1, UnitsType DEF UnitsInv, Units
  <2>6. QED
    BY <2>3, <2>4, <2>5
<1>4. QED
  BY <1>1, <1>2, <1>3 DEF UnitsInv

\* A command that is cleared becomes the unit that is about to be given.
LEMMA ClearUnits ==
  ASSUME TypeOK, UnitsInv, ThreadClear
  PROVE  UnitsInv'
<1>1. /\ in_use' = [in_use EXCEPT ![slot] = FALSE] /\ in_use \in [Motors -> BOOLEAN]
      /\ m_pc = "clear" /\ m_pc' = "give"
      /\ UNCHANGED <<op, req, completion_sem, slot, stops>>
  BY DEF ThreadClear, ThreadAt, TypeOK
<1>2. SleepInv'
  BY <1>1 DEF UnitsInv, SleepInv, TypeOK
<1>3. ASSUME NEW m \in Motors
      PROVE  Clients(m)' = Clients(m) /\ Units(m)' >= Units(m)
  <2>1. /\ Due(m) = 0
        /\ Due(m)' = IF m = slot THEN 1 ELSE 0
        /\ Queued(m)' = IF m = slot THEN 0 ELSE Queued(m)
    BY <1>1 DEF Queued, Due
  <2>2. Clients(m)' = Clients(m)
    BY <1>1 DEF Clients
  <2>3. QED
    BY <1>1, <2>1, <2>2, UnitsType DEF Units
<1>4. \A m \in Motors : Cardinality(Clients(m)) \in Nat /\ Units(m) \in Nat /\ Units(m)' \in Nat
  <2>1. \A m \in Motors : Cardinality(Clients(m)) \in Nat /\ Units(m) \in Nat
    BY FS_CardinalityType, UnitsType DEF UnitsInv
  <2>2. \A m \in Motors : Units(m)' \in Nat
    BY <1>1 DEF Units, Queued, Due, TypeOK
  <2>3. QED
    BY <2>1, <2>2
<1>5. QED
  BY <1>1, <1>2, <1>3, <1>4 DEF UnitsInv

\* UnitsInv is an invariant: there is a unit for everyone who waits, until a second
\* stop gives to a semaphore that is full (motors.c:295-319, 336-396, 409-416).
LEMMA UnitsInvariant == Spec => []UnitsInv
<1>1. Init => UnitsInv
  <2> SUFFICES ASSUME Init PROVE UnitsInv
    OBVIOUS
  <2>1. \A m \in Motors : Clients(m) = {} /\ Units(m) \in Nat
    BY DEF Init, Clients, Units, Queued, Due
  <2>2. QED
    BY <2>1, FS_EmptySet DEF Init, UnitsInv, SleepInv
<1>2. TypeOK /\ MutexInv /\ ServiceInv /\ UnitsInv /\ [Next]_vars => UnitsInv'
  <2> SUFFICES ASSUME TypeOK, MutexInv, ServiceInv, UnitsInv, [Next]_vars PROVE UnitsInv'
    OBVIOUS
  <2>0. op \in [Callers -> Ops]
    BY DEF TypeOK
  <2>1. ASSUME NEW c \in Callers,
               \/ MoveStart(c) \/ InitStart(c) \/ StopStart(c) \/ MoveLock(c) \/ MoveCheck(c)
               \/ MoveBusy(c) \/ MoveReturn(c) \/ InitLock(c) \/ InitConfigure(c) \/ StopLock(c)
        PROVE  UnitsInv'
    <3> USE DEF MoveStart, InitStart, StopStart, MoveLock, MoveCheck, MoveBusy, MoveReturn,
                InitLock, InitConfigure, StopLock
    <3>1. UNCHANGED <<in_use, completion_sem, stops, slot, m_pc>>
      BY <2>1
    <3>2. \A m \in Motors : Clients(m)' = Clients(m)
      BY <2>1, ClientsStay
    <3>3. /\ \A d \in Callers \ {c} : op'[d] = op[d] /\ req'[d] = req[d]
          /\ op'[c] # "pended"
      BY <2>0, <2>1 DEF CallerAt, Returns, TypeOK
    <3>4. op'[c] = "publish" => ~in_use[req'[c].id]
      BY <2>0, <2>1 DEF CallerAt, Returns
    <3>5. \A m \in Motors : Due(m)' = Due(m)
      BY <3>1 DEF Due
    <3>6. QED
      BY <3>1, <3>2, <3>3, <3>4, <3>5, UnitsStay
  <2>2. ASSUME NEW c \in Callers, MovePublish(c) PROVE UnitsInv'
    BY <2>2, PublishUnits
  <2>3. ASSUME NEW c \in Callers, MoveWait(c) PROVE UnitsInv'
    BY <2>3, WaitUnits
  <2>4. ASSUME NEW c \in Callers, StopClear(c) PROVE UnitsInv'
    BY <2>4, StopUnits
  <2>5. CASE \/ ThreadTake \/ ThreadLock \/ ThreadLook \/ ThreadDir \/ ThreadStep
             \/ ThreadStepped \/ ThreadDoneLock
    <3>1. UNCHANGED <<op, req, in_use, completion_sem, stops>> /\ m_pc # "give" /\ m_pc' # "give"
      BY <2>5 DEF ThreadTake, ThreadLock, ThreadLook, ThreadDir, ThreadStep, ThreadStepped,
                  ThreadDoneLock, ThreadAt, NextSlot
    <3>2. \A m \in Motors : Clients(m)' = Clients(m)
      BY <3>1 DEF Clients
    <3>3. \A m \in Motors : Due(m)' = Due(m)
      BY <3>1 DEF Due
    <3>4. QED
      BY <3>1, <3>2, <3>3, UnitsStay
  <2>6. CASE ThreadClear
    BY <2>6, ClearUnits
  <2>7. CASE ThreadGive
    BY <2>7, GiveUnits
  <2>8. CASE UNCHANGED vars
    <3>1. UNCHANGED <<op, req, in_use, completion_sem, stops, slot, m_pc>>
      BY <2>8 DEF vars
    <3>2. \A m \in Motors : Clients(m)' = Clients(m)
      BY <3>1 DEF Clients
    <3>3. \A m \in Motors : Due(m)' = Due(m)
      BY <3>1 DEF Due
    <3>4. QED
      BY <3>1, <3>2, <3>3, UnitsStay
  <2>9. QED
    BY <2>1, <2>2, <2>3, <2>4, <2>5, <2>6, <2>7, <2>8 DEF Next, Call, Proceed,
       motor_thread_entry
<1>3. QED
  BY <1>1, <1>2, MotorsTypeCorrect, MutexInvariant, ServiceInvariant, PTL DEF Spec

\* Whatever the callers, the thread and one stop_all_motors do in between each
\* other, a caller that sleeps has a completion coming (motors.c:319, 391-396, 410-412).
THEOREM NobodyIsStranded == Spec => []NobodyStranded
<1>1. TypeOK /\ UnitsInv => NobodyStranded
  <2> SUFFICES ASSUME TypeOK, UnitsInv, stops <= 1, NEW c \in Callers, op[c] = "pended",
                      ~in_use[req[c].id], ~(slot = req[c].id /\ m_pc = "give")
               PROVE  FALSE
    BY DEF NobodyStranded
  <2>1. PICK m \in Motors : m = req[c].id
    BY DEF TypeOK
  <2>2. Units(m) = 0
    BY <2>1 DEF UnitsInv, SleepInv, Units, Queued, Due
  <2>3. IsFiniteSet(Clients(m)) /\ Cardinality(Clients(m)) <= 0
    BY <2>2 DEF UnitsInv
  <2>4. Cardinality(Clients(m)) = 0
    BY <2>3, FS_CardinalityType
  <2>5. c \in Clients(m)
    BY <2>1 DEF Clients
  <2>6. QED
    BY <2>3, <2>4, <2>5, FS_EmptySet
<1>2. QED
  BY <1>1, MotorsTypeCorrect, UnitsInvariant, PTL

-----------------------------------------------------------------------------
(* One caller, and nobody who stops the motors: as the firmware is built. *)

\* Caller c is in motor_move: before its command is published, or at all.
Before(c) == op[c] \in {"lock", "check", "publish"}
Moving(c) == Before(c) \/ op[c] \in {"wait", "pended"}

\* The steps of c's move of motor m that are still to be made, and where the motor
\* was before that move.
Left(c, m) == IF Before(c) THEN req[c].steps ELSE Owed(m)
Start(c, m) ==
    IF Moving(c) /\ req[c].id = m THEN pos[m] - (req[c].steps - Left(c, m)) ELSE pos[m]

\* The move that c waits for.
MoveOf(c) ==
    IF Moving(c) THEN [id |-> req[c].id, steps |-> req[c].steps]
                 ELSE [id |-> 0, steps |-> 0]

\* Motor m as its one caller c sees it.
Move(c, m) == INSTANCE MotorMove WITH job <- MoveOf(c), pos <- Start(c, m)

\* What is queued is c's move, and no stop comes.
AloneInv(c) ==
    /\ stops = 0
    /\ op[c] \notin {"stop_lock", "stop_clear"}
    /\ \A m \in Motors : in_use[m] => steps[m] = req[c].steps

\* Where the one caller c is while the thread has a command, or is about to give.
LEMMA AloneWaits ==
  ASSUME NEW c, Callers = {c}, TypeOK, Matched, NEW m \in Motors
  PROVE  /\ in_use[m] => op[c] \in {"wait", "pended"} /\ req[c].id = m
         /\ Executing /\ slot = m => op[c] \in {"wait", "pended"} /\ req[c].id = m
         /\ m_pc = "give" /\ slot = m =>
               /\ op[c] \in {"wait", "pended"} /\ req[c].id = m
               /\ ~in_use[m] /\ Owed(m) = 0
<1>1. Clients(m) # {} => op[c] \in {"wait", "pended"} /\ req[c].id = m
  BY DEF Clients
<1>2. ~(\E d, e \in Clients(m) : d # e)
  BY DEF Clients
<1>3. QED
  BY <1>1, <1>2 DEF Matched, Executing, Owed

\* A step that leaves where caller c is in motor_move and what motor m has done and
\* owes is none that c can see.
LEMMA MoveStutters ==
  ASSUME NEW c, NEW m, UNCHANGED req[c], pos'[m] = pos[m],
         (Before(c) <=> Before(c)') /\ (Moving(c) <=> Moving(c)'),
         Moving(c) /\ ~Before(c) => Owed(m)' = Owed(m)
  PROVE  [Move(c, m)!Next]_(Move(c, m)!vars)
<1>1. MoveOf(c)' = MoveOf(c)
  BY DEF MoveOf
<1>2. Start(c, m)' = Start(c, m)
  BY DEF Start, Left, Before, Moving
<1>3. QED
  BY <1>1, <1>2 DEF Move!vars

\* AloneInv is an invariant where there is one caller, which never calls
\* stop_all_motors.
LEMMA AloneInvariant ==
  ASSUME NEW c, Callers = {c}, Stoppers = {}
  PROVE  Spec => []AloneInv(c)
<1>1. Init => AloneInv(c)
  BY DEF Init, AloneInv
<1>2. TypeOK /\ ServiceInv /\ AloneInv(c) /\ [Next]_vars => AloneInv(c)'
  <2> SUFFICES ASSUME TypeOK, ServiceInv, AloneInv(c), [Next]_vars PROVE AloneInv(c)'
    OBVIOUS
  <2> USE DEF AloneInv
  <2>0. Matched /\ op \in [Callers -> Ops] /\ \A d \in Callers : d = c
    BY DEF ServiceInv, TypeOK
  <2>1. \A m \in Motors : in_use[m] => op[c] \in {"wait", "pended"}
    BY <2>0, AloneWaits
  <2>2. ASSUME NEW d \in Callers,
               \/ MoveStart(d) \/ InitStart(d) \/ MoveLock(d) \/ MoveCheck(d)
               \/ MoveBusy(d) \/ MoveReturn(d) \/ InitLock(d) \/ InitConfigure(d)
        PROVE  AloneInv(c)'
    <3> USE DEF MoveStart, InitStart, MoveLock, MoveCheck, MoveBusy, MoveReturn,
                InitLock, InitConfigure
    <3>1. UNCHANGED <<in_use, steps, stops>> /\ op[c] \notin {"wait", "pended"}
      BY <2>0, <2>2 DEF CallerAt
    <3>2. op'[c] \notin {"stop_lock", "stop_clear"}
      BY <2>0, <2>2 DEF CallerAt, Returns
    <3>3. QED
      BY <2>1, <3>1, <3>2
  <2>3. ASSUME NEW d \in Callers, MovePublish(d) PROVE AloneInv(c)'
    <3>1. /\ d = c /\ op[c] = "publish" /\ op' = [op EXCEPT ![c] = "wait"]
          /\ in_use' = [in_use EXCEPT ![req[c].id] = TRUE]
          /\ steps' = [steps EXCEPT ![req[c].id] = req[c].steps]
          /\ UNCHANGED <<req, stops>>
      BY <2>0, <2>3 DEF MovePublish, CallerAt
    <3>2. \A m \in Motors : ~in_use[m]
      BY <2>1, <3>1
    <3>3. QED
      BY <2>0, <3>1, <3>2 DEF TypeOK
  <2>4. ASSUME NEW d \in Callers, MoveWait(d) PROVE AloneInv(c)'
    <3>1. op' = [op EXCEPT ![d] = "pended"] /\ UNCHANGED <<req, in_use, steps, stops>>
      BY <2>0, <2>4, WaitKeeps DEF MoveWait
    <3>2. QED
      BY <2>0, <3>1
  <2>5. ASSUME NEW d \in Callers, StopStart(d) \/ StopLock(d) \/ StopClear(d)
        PROVE  AloneInv(c)'
    BY <2>0, <2>5 DEF StopStart, StopLock, StopClear, CallerAt
  <2>6. CASE ThreadTake \/ ThreadLock \/ ThreadLook \/ ThreadDir \/ ThreadStep
             \/ ThreadStepped \/ ThreadDoneLock
    BY <2>6 DEF ThreadTake, ThreadLock, ThreadLook, ThreadDir, ThreadStep, ThreadStepped,
                ThreadDoneLock
  <2>7. CASE ThreadClear
    BY <2>7 DEF ThreadClear, TypeOK
  <2>8. CASE ThreadGive
    <3>1. op'[c] \in {op[c], "woken"} /\ UNCHANGED <<req, in_use, steps, stops>>
      BY <2>0, <2>8, GiveServes DEF ThreadGive
    <3>2. QED
      BY <3>1
  <2>9. CASE UNCHANGED vars
    BY <2>9 DEF vars
  <2>10. QED
    BY <2>2, <2>3, <2>4, <2>5, <2>6, <2>7, <2>8, <2>9 DEF Next, Call, Proceed,
       motor_thread_entry
<1>3. QED
  BY <1>1, <1>2, MotorsTypeCorrect, ServiceInvariant, PTL DEF Spec

\* A step of a driver moves the motor and lowers what is owed: c sees neither.
LEMMA StepUnseen ==
  ASSUME NEW c, Callers = {c}, "spi" \notin Faults, TypeOK, Matched, ThreadStep,
         NEW m \in Motors
  PROVE  [Move(c, m)!Next]_(Move(c, m)!vars)
<1>1. /\ m_pc = "step" /\ m_pc' = "step" /\ todo # 0
      /\ todo' = (IF todo > 0 THEN todo - 1 ELSE todo + 1)
      /\ pos' = [pos EXCEPT ![slot] = IF todo > 0 THEN @ + 1 ELSE @ - 1]
      /\ UNCHANGED <<op, req, in_use, steps, slot, stops>>
  BY DEF ThreadStep, ThreadAt, Outcome
<1>2. CASE m = slot
  <2>1. op[c] \in {"wait", "pended"} /\ req[c].id = m
    BY <1>1, <1>2, AloneWaits DEF Executing
  <2>2. Owed(m) = todo /\ Owed(m)' = todo' /\ pos'[m] - todo = pos[m] - todo'
        /\ todo \in Int /\ pos[m] \in Int /\ pos'[m] \in Int /\ todo' \in Int
        /\ req[c].steps \in Int
    BY <1>1, <1>2 DEF Owed, TypeOK
  <2>3. Start(c, m)' = Start(c, m)
    <3>1. /\ Start(c, m) = pos[m] - (req[c].steps - todo)
          /\ Start(c, m)' = pos'[m] - (req[c].steps - todo')
      BY <1>1, <2>1, <2>2 DEF Start, Left, Before, Moving
    <3>2. QED
      BY <2>2, <3>1
  <2>4. MoveOf(c)' = MoveOf(c)
    BY <1>1 DEF MoveOf, Moving, Before
  <2>5. QED
    BY <2>3, <2>4 DEF Move!vars
<1>3. CASE m # slot
  <2>1. pos'[m] = pos[m] /\ Owed(m)' = Owed(m)
    BY <1>1, <1>3 DEF Owed, TypeOK
  <2>2. QED
    BY <1>1, <2>1, MoveStutters DEF Before, Moving
<1>4. QED
  BY <1>2, <1>3

\* The completion is given when the move is made, and to c.
LEMMA GiveEndsMove ==
  ASSUME NEW c, Callers = {c}, TypeOK, Matched, ThreadGive, NEW m \in Motors
  PROVE  Move(c, m)!Next
<1>1. m_pc = "give" /\ slot \in Motors /\ UNCHANGED <<req, pos>>
  BY DEF ThreadGive, TypeOK
<1>2. PICK n \in Motors : n = slot
  BY <1>1
<1>3. op[c] \in {"wait", "pended"} /\ req[c].id = n /\ Owed(n) = 0
  BY <1>1, <1>2, AloneWaits
<1>4. op'[c] = "woken"
  <2>1. \E d \in Clients(slot) : Clients(n)' = Clients(n) \ {d}
    BY <1>2, GiveServes
  <2>2. Clients(n)' = {}
    BY <1>2, <2>1 DEF Clients
  <2>3. op'[c] \in {op[c], "woken"}
    BY GiveServes
  <2>4. op'[c] \notin {"wait", "pended"}
    BY <1>1, <1>3, <2>2 DEF Clients
  <2>5. QED
    BY <1>3, <2>3, <2>4
<1>5. /\ MoveOf(c) = [id |-> req[c].id, steps |-> req[c].steps]
      /\ MoveOf(c)' = [id |-> 0, steps |-> 0]
      /\ req[c].id # 0
  BY <1>3, <1>4 DEF MoveOf, Moving, Before, Motors
<1>6. Start(c, m)' = IF req[c].id = m THEN Start(c, m) + req[c].steps ELSE Start(c, m)
  <2>1. pos[m] \in Int /\ req[c].steps \in Int
    BY DEF TypeOK
  <2>2. Start(c, m)' = pos[m]
    BY <1>1, <1>4 DEF Start, Moving, Before
  <2>3. Start(c, m) = IF req[c].id = m THEN pos[m] - (req[c].steps - 0) ELSE pos[m]
    BY <1>3 DEF Start, Left, Moving, Before
  <2>4. QED
    BY <2>1, <2>2, <2>3
<1>7. QED
  BY <1>5, <1>6 DEF Move!Next, Move!Made, Move!NoJob

\* What StateMachine takes the motor service for holds of motors.c: its one caller,
\* in a build that never stops the motors and on a bus that does not fail, goes on
\* from motor_move when its move, and no other step, has been made; a refusal, or a
\* return that comes too early, would be no step of MotorMove (motors.c:278-402,
\* stateMachine.c:205-318).
THEOREM AloneIsServed ==
  ASSUME NEW c, Callers = {c}, Stoppers = {}, "spi" \notin Faults, NEW m \in Motors
  PROVE  Spec => Move(c, m)!Spec
<1> USE DEF Move!NoJob
<1>1. Init => Move(c, m)!Init
  BY DEF Init, Move!Init, MoveOf, Start, Moving, Before
<1>2. TypeOK /\ ServiceInv /\ AloneInv(c) /\ [Next]_vars
         => [Move(c, m)!Next]_(Move(c, m)!vars)
  <2> SUFFICES ASSUME TypeOK, ServiceInv, AloneInv(c), [Next]_vars
               PROVE  [Move(c, m)!Next]_(Move(c, m)!vars)
    OBVIOUS
  <2>0. Matched /\ op \in [Callers -> Ops] /\ \A d \in Callers : d = c
    BY DEF ServiceInv, AloneInv, TypeOK
  <2> USE DEF Before, Moving
  <2>1. CASE MoveStart(c)
    <3>1. PICK r \in Requests : Valid(r) /\ req' = [req EXCEPT ![c] = r]
      BY <2>1 DEF MoveStart
    <3>2. /\ op[c] = "idle" /\ op'[c] = "lock" /\ req'[c] = r /\ pos' = pos
          /\ r \in [id : Int, steps : Int, speed_hz : Nat]
      BY <2>0, <2>1, <3>1, RequestsAssumption DEF MoveStart, CallerAt, TypeOK
    <3>3. /\ MoveOf(c) = [id |-> 0, steps |-> 0]
          /\ MoveOf(c)' = [id |-> r.id, steps |-> r.steps]
          /\ MoveOf(c)' \in [id : Int, steps : Int]
      BY <3>2 DEF MoveOf
    <3>4. Start(c, m)' = Start(c, m)
      <4>1. pos[m] \in Int
        BY DEF TypeOK
      <4>2. QED
        BY <3>2, <4>1 DEF Start, Left
    <3>5. QED
      BY <3>3, <3>4 DEF Move!Next, Move!Ask
  <2>2. CASE InitStart(c) \/ InitLock(c) \/ InitConfigure(c) \/ MoveReturn(c)
    <3> USE DEF InitStart, InitLock, InitConfigure, MoveReturn
    <3>1. ~Moving(c) /\ ~Moving(c)' /\ pos' = pos
      BY <2>0, <2>2 DEF CallerAt, Returns
    <3>2. MoveOf(c)' = MoveOf(c) /\ Start(c, m)' = Start(c, m)
      BY <3>1 DEF MoveOf, Start
    <3>3. QED
      BY <3>2 DEF Move!vars
  <2>3. CASE MoveLock(c) \/ MoveCheck(c)
    <3>1. Before(c) /\ Before(c)' /\ UNCHANGED <<req, pos>>
      BY <2>0, <2>3 DEF MoveLock, MoveCheck, CallerAt
    <3>2. QED
      BY <3>1, MoveStutters
  <2>4. CASE MoveBusy(c)
    <3>1. op[c] = "check" /\ in_use[req[c].id] /\ req[c].id \in Motors
      BY <2>4 DEF MoveBusy, TypeOK
    <3>2. QED
      BY <2>0, <3>1, AloneWaits
  <2>5. CASE MovePublish(c)
    <3>1. /\ op[c] = "publish" /\ op'[c] = "wait" /\ req[c].id \in Motors
          /\ in_use' = [in_use EXCEPT ![req[c].id] = TRUE]
          /\ steps' = [steps EXCEPT ![req[c].id] = req[c].steps]
          /\ UNCHANGED <<req, pos, slot, m_pc, todo>>
      BY <2>0, <2>5 DEF MovePublish, CallerAt, TypeOK
    <3>2. ASSUME req[c].id = m PROVE Owed(m)' = req[c].steps
      <4>1. ~(Executing /\ slot = m)
        BY <2>0, <3>1, AloneWaits
      <4>2. QED
        BY <3>1, <3>2, <4>1 DEF Owed, Executing, TypeOK
    <3>3. Start(c, m)' = Start(c, m)
      BY <3>1, <3>2 DEF Start, Left
    <3>4. MoveOf(c)' = MoveOf(c)
      BY <3>1 DEF MoveOf
    <3>5. QED
      BY <3>3, <3>4 DEF Move!vars
  <2>6. CASE MoveWait(c)
    <3>1. /\ op[c] = "wait" /\ op'[c] = "pended"
          /\ UNCHANGED <<req, pos, in_use, steps, slot, m_pc, todo>>
      BY <2>0, <2>6, WaitKeeps DEF MoveWait
    <3>2. Owed(m)' = Owed(m)
      BY <3>1 DEF Owed
    <3>3. QED
      BY <3>1, <3>2, MoveStutters
  <2>7. CASE StopStart(c) \/ StopLock(c) \/ StopClear(c)
    BY <2>7 DEF AloneInv, StopStart, StopLock, StopClear, CallerAt
  <2>8. CASE ThreadTake \/ ThreadLock \/ ThreadLook \/ ThreadDir \/ ThreadStepped
             \/ ThreadDoneLock \/ ThreadClear
    <3>1. Owed(m)' = Owed(m) /\ UNCHANGED <<op, req, pos>>
      BY <2>0, <2>8, OwedStays
    <3>2. QED
      BY <3>1, MoveStutters
  <2>9. CASE ThreadStep
    BY <2>0, <2>9, StepUnseen
  <2>10. CASE ThreadGive
    BY <2>0, <2>10, GiveEndsMove
  <2>11. CASE UNCHANGED vars
    <3>1. UNCHANGED <<op, req, pos, in_use, steps, slot, m_pc, todo>>
      BY <2>11 DEF vars
    <3>2. Owed(m)' = Owed(m)
      BY <3>1 DEF Owed
    <3>3. QED
      BY <3>1, <3>2, MoveStutters
  <2>12. QED
    BY <2>0, <2>1, <2>2, <2>3, <2>4, <2>5, <2>6, <2>7, <2>8, <2>9, <2>10, <2>11
       DEF Next, Call, Proceed, motor_thread_entry
<1>3. QED
  BY <1>1, <1>2, MotorsTypeCorrect, ServiceInvariant, AloneInvariant, PTL
     DEF Spec, Move!Spec

=============================================================================
