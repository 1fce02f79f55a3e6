---------------------------- MODULE MotorsProofs ----------------------------
(***************************************************************************)
(* Theorems about Motors, for any callers, requests and number of motors,  *)
(* whether or not the SPI bus fails.                                       *)
(***************************************************************************)
EXTENDS Motors, TLAPS

USE DEF callerVars, commandVars, threadVars

\* The names of the thread and of nobody are no callers.
LEMMA Names == Nobody \notin Callers /\ Thread \notin Callers /\ Nobody # Thread
  BY CallersAssumption DEF Nobody, Thread

\* The thread's slot stays among the motors.
LEMMA NextSlotType ==
  ASSUME slot \in Motors, NextSlot
  PROVE  /\ slot' \in Motors
         /\ m_pc' \in {"take", "lock"}
         /\ m_pc' = "take" => slot' = 1
  BY NumMotorsAssumption DEF NextSlot, Motors

\* What semaphores given for the motors in M do to the callers: each is where it
\* was to be, or was waiting for one of these motors and is woken.
LEMMA GiveType ==
  ASSUME TypeOK, NEW M \in SUBSET Motors, NEW at \in [Callers -> Ops],
         GiveCompletions(M, at)
  PROVE  /\ op' \in [Callers -> Ops]
         /\ completion_sem' \in [Motors -> {0, 1}]
         /\ \A c \in Callers :
               \/ op'[c] = at[c]
               \/ op[c] = "pended" /\ op'[c] = "woken" /\ req[c].id \in M
<1>1. PICK woken \in SUBSET UNION {Waiting(m) : m \in M} :
         /\ op' = [c \in Callers |-> IF c \in woken THEN "woken" ELSE at[c]]
         /\ completion_sem' = [m \in Motors |->
               IF m \in M /\ Waiting(m) = {} THEN 1 ELSE completion_sem[m]]
  BY DEF GiveCompletions
<1>2. \A c \in woken : op[c] = "pended" /\ req[c].id \in M
  BY <1>1 DEF Waiting
<1>3. op' \in [Callers -> Ops]
  BY <1>1 DEF Ops
<1>4. completion_sem' \in [Motors -> {0, 1}]
  BY <1>1 DEF TypeOK
<1>5. QED
  BY <1>1, <1>2, <1>3, <1>4

\* A caller that returns keeps the types of what its call used.
LEMMA ReturnsType ==
  ASSUME TypeOK, NEW c \in Callers, Returns(c)
  PROVE  /\ op' \in [Callers -> Ops]
         /\ req' \in [Callers -> [id : Int, steps : Int, speed_hz : Nat]]
         /\ \A d \in Callers :
               op'[d] \notin {"idle", "stop_lock", "stop_clear"} => req'[d].id \in Motors
<1>1. NoRequest \in [id : Int, steps : Int, speed_hz : Nat]
  BY DEF NoRequest
<1>2. QED
  BY <1>1 DEF TypeOK, Returns, Ops

\* TypeOK is inductive, and needs no fairness (src/src/motors.c).
LEMMA TypeAlways == Init /\ [][Next]_vars => []TypeOK
<1>1. Init => TypeOK
  <2>1. NoRequest \in [id : Int, steps : Int, speed_hz : Nat]
    BY DEF NoRequest
  <2>2. 1 \in Motors
    BY NumMotorsAssumption DEF Motors
  <2>3. QED
    BY <2>1, <2>2 DEF Init, TypeOK, Ops
<1>2. TypeOK /\ [Next]_vars => TypeOK'
  <2> SUFFICES ASSUME TypeOK, [Next]_vars PROVE TypeOK'
    OBVIOUS
  <2>1. ASSUME NEW c \in Callers, MoveStart(c) PROVE TypeOK'
    BY <2>1, RequestsAssumption DEF TypeOK, MoveStart, CallerAt, Valid, Ops
  <2>2. ASSUME NEW c \in Callers, InitStart(c) PROVE TypeOK'
    <3>1. PICK m \in Motors : /\ CallerAt(c, "idle", "spi_lock")
                              /\ req' = [req EXCEPT ![c] = [NoRequest EXCEPT !.id = m]]
      BY <2>2 DEF InitStart
    <3>2. /\ [NoRequest EXCEPT !.id = m] \in [id : Int, steps : Int, speed_hz : Nat]
          /\ [NoRequest EXCEPT !.id = m].id = m
      BY NumMotorsAssumption DEF NoRequest, Motors
    <3>3. QED
      BY <2>2, <3>1, <3>2 DEF TypeOK, InitStart, CallerAt, Ops
  <2>3. ASSUME NEW c \in Callers, StopStart(c) PROVE TypeOK'
    BY <2>3 DEF TypeOK, StopStart, CallerAt, Ops
  <2>4. ASSUME NEW c \in Callers, MoveLock(c) PROVE TypeOK'
    BY <2>4 DEF TypeOK, MoveLock, CallerAt, k_mutex_lock, Ops
  <2>5. ASSUME NEW c \in Callers, MoveCheck(c) PROVE TypeOK'
    BY <2>5 DEF TypeOK, MoveCheck, CallerAt, Ops
  <2>6. ASSUME NEW c \in Callers, MoveBusy(c) PROVE TypeOK'
    BY <2>6, ReturnsType DEF TypeOK, MoveBusy
  <2>7. ASSUME NEW c \in Callers, MovePublish(c) PROVE TypeOK'
    <3>1. req[c].id \in Motors /\ req[c].steps \in Int
      BY <2>7 DEF TypeOK, MovePublish, CallerAt
    <3>2. in_use' \in [Motors -> BOOLEAN] /\ steps' \in [Motors -> Int]
      BY <2>7, <3>1 DEF TypeOK, MovePublish
    <3>3. QED
      BY <2>7, <3>1, <3>2 DEF TypeOK, MovePublish, CallerAt, Ops
  <2>8. ASSUME NEW c \in Callers, MoveWait(c) PROVE TypeOK'
    <3>1. CASE completion_sem[req[c].id] = 0
      BY <2>8, <3>1 DEF TypeOK, MoveWait, CallerAt, Ops
    <3>2. CASE completion_sem[req[c].id] # 0
      BY <2>8, <3>2, ReturnsType DEF TypeOK, MoveWait
    <3>3. QED
      BY <3>1, <3>2
  <2>9. ASSUME NEW c \in Callers, MoveReturn(c) PROVE TypeOK'
    BY <2>9, ReturnsType DEF TypeOK, MoveReturn
  <2>10. ASSUME NEW c \in Callers, InitLock(c) PROVE TypeOK'
    BY <2>10 DEF TypeOK, InitLock, CallerAt, k_mutex_lock, Ops
  <2>11. ASSUME NEW c \in Callers, InitConfigure(c) PROVE TypeOK'
    BY <2>11, ReturnsType DEF TypeOK, InitConfigure
  <2>12. ASSUME NEW c \in Callers, StopLock(c) PROVE TypeOK'
    BY <2>12 DEF TypeOK, StopLock, CallerAt, k_mutex_lock, Ops
  <2>13. ASSUME NEW c \in Callers, StopClear(c) PROVE TypeOK'
    <3>1. /\ op' \in [Callers -> Ops]
          /\ completion_sem' \in [Motors -> {0, 1}]
          /\ \A d \in Callers : op'[d] = op[d] \/ op'[d] = "idle" \/ op[d] = "pended"
      <4> DEFINE at == [op EXCEPT ![c] = "idle"]
      <4>1. at \in [Callers -> Ops] /\ Motors \in SUBSET Motors
        BY DEF TypeOK, Ops
      <4>2. GiveCompletions(Motors, at)
        BY <2>13 DEF StopClear
      <4>3. \A d \in Callers : at[d] = op[d] \/ at[d] = "idle"
        BY DEF TypeOK
      <4> HIDE DEF at
      <4>4. QED
        BY <4>1, <4>2, <4>3, GiveType
    <3>2. QED
      BY <2>13, <3>1 DEF TypeOK, StopClear
  <2>14. CASE ThreadTake
    BY <2>14 DEF TypeOK, ThreadTake, ThreadAt
  <2>15. CASE ThreadLock
    BY <2>15 DEF TypeOK, ThreadLock, ThreadAt, k_mutex_lock
  <2>16. CASE ThreadLook
    BY <2>16, NextSlotType DEF TypeOK, ThreadLook
  <2>17. CASE ThreadDir
    BY <2>17 DEF TypeOK, ThreadDir, ThreadAt, k_mutex_lock
  <2>18. CASE ThreadStep
    BY <2>18 DEF TypeOK, ThreadStep, ThreadAt
  <2>19. CASE ThreadStepped
    BY <2>19 DEF TypeOK, ThreadStepped, ThreadAt
  <2>20. CASE ThreadDoneLock
    BY <2>20 DEF TypeOK, ThreadDoneLock, ThreadAt, k_mutex_lock
  <2>21. CASE ThreadClear
    BY <2>21 DEF TypeOK, ThreadClear, ThreadAt
  <2>22. CASE ThreadGive
    <3>1. /\ op' \in [Callers -> Ops]
          /\ completion_sem' \in [Motors -> {0, 1}]
          /\ \A d \in Callers : op'[d] = op[d] \/ op[d] = "pended"
      <4>1. op \in [Callers -> Ops] /\ {slot} \in SUBSET Motors
        BY DEF TypeOK
      <4>2. GiveCompletions({slot}, op)
        BY <2>22 DEF ThreadGive
      <4>3. QED
        BY <4>1, <4>2, GiveType
    <3>2. slot' \in Motors /\ m_pc' \in {"take", "lock"}
      BY <2>22, NextSlotType DEF TypeOK, ThreadGive
    <3>3. QED
      BY <2>22, <3>1, <3>2 DEF TypeOK, ThreadGive
  <2>23. CASE UNCHANGED vars
    BY <2>23 DEF TypeOK, vars
  <2>24. QED
    BY <2>1, <2>2, <2>3, <2>4, <2>5, <2>6, <2>7, <2>8, <2>9, <2>10, <2>11,
       <2>12, <2>13, <2>14, <2>15, <2>16, <2>17, <2>18, <2>19, <2>20, <2>21,
       <2>22, <2>23 DEF Next, Call, Proceed, motor_thread_entry
<1>3. QED
  BY <1>1, <1>2, PTL

\* TypeOK holds of every reachable state (src/src/motors.c): in particular the
\* semaphores stay within their limit and the loop within the slots.
THEOREM MotorsTypeCorrect == Spec => []TypeOK
BY TypeAlways, PTL DEF Spec

-----------------------------------------------------------------------------
(* OneAtATime. *)

\* Who is between lock and unlock owns the mutex.
MutexInv ==
    /\ \A c \in Callers : op[c] \in {"check", "publish", "stop_clear"} => motor_cmd_mutex = c
    /\ m_pc \in {"look", "clear"} => motor_cmd_mutex = Thread
    /\ \A c \in Callers : op[c] = "configure" => spi_mutex = c
    /\ m_pc = "step" => spi_mutex = Thread

\* MutexInv is an invariant, as nobody but the owner of a mutex releases it
\* (motors.c:292-309, 336-350, 361-387, 390-392, 409-416, 249-272).
LEMMA MutexAlways == Init /\ [][Next]_vars => []MutexInv
<1>1. Init => MutexInv
  BY DEF Init, MutexInv
<1>2. TypeOK /\ MutexInv /\ [Next]_vars => MutexInv'
  <2> SUFFICES ASSUME TypeOK, MutexInv, [Next]_vars PROVE MutexInv'
    OBVIOUS
  <2> USE Names DEF MutexInv
  <2>0. op \in [Callers -> Ops]
    BY DEF TypeOK
  <2>1. ASSUME NEW c \in Callers, MoveStart(c) PROVE MutexInv'
    BY <2>0, <2>1 DEF MoveStart, CallerAt
  <2>2. ASSUME NEW c \in Callers, InitStart(c) PROVE MutexInv'
    BY <2>0, <2>2 DEF InitStart, CallerAt
  <2>3. ASSUME NEW c \in Callers, StopStart(c) PROVE MutexInv'
    BY <2>0, <2>3 DEF StopStart, CallerAt
  <2>4. ASSUME NEW c \in Callers, MoveLock(c) PROVE MutexInv'
    BY <2>0, <2>4 DEF MoveLock, CallerAt, k_mutex_lock
  <2>5. ASSUME NEW c \in Callers, MoveCheck(c) PROVE MutexInv'
    BY <2>0, <2>5 DEF MoveCheck, CallerAt
  <2>6. ASSUME NEW c \in Callers, MoveBusy(c) PROVE MutexInv'
    BY <2>0, <2>6 DEF MoveBusy, Returns
  <2>7. ASSUME NEW c \in Callers, MovePublish(c) PROVE MutexInv'
    BY <2>0, <2>7 DEF MovePublish, CallerAt
  <2>8. ASSUME NEW c \in Callers, MoveWait(c) PROVE MutexInv'
    BY <2>0, <2>8 DEF MoveWait, CallerAt, Returns
  <2>9. ASSUME NEW c \in Callers, MoveReturn(c) PROVE MutexInv'
    BY <2>0, <2>9 DEF MoveReturn, Returns
  <2>10. ASSUME NEW c \in Callers, InitLock(c) PROVE MutexInv'
    BY <2>0, <2>10 DEF InitLock, CallerAt, k_mutex_lock
  <2>11. ASSUME NEW c \in Callers, InitConfigure(c) PROVE MutexInv'
    BY <2>0, <2>11 DEF InitConfigure, Returns
  <2>12. ASSUME NEW c \in Callers, StopLock(c) PROVE MutexInv'
    BY <2>0, <2>12 DEF StopLock, CallerAt, k_mutex_lock
  <2>13. ASSUME NEW c \in Callers, StopClear(c) PROVE MutexInv'
    <3>1. \A d \in Callers : op'[d] = op[d] \/ op'[d] \in {"idle", "woken"}
      BY <2>13, <2>0 DEF StopClear, GiveCompletions
    <3>2. op'[c] # "stop_clear" /\ op'[c] # "check" /\ op'[c] # "publish"
      BY <2>13, <2>0 DEF StopClear, GiveCompletions
    <3>3. QED
      BY <2>13, <3>1, <3>2 DEF StopClear
  <2>14. CASE ThreadTake
    BY <2>14 DEF ThreadTake, ThreadAt
  <2>15. CASE ThreadLock
    BY <2>15 DEF ThreadLock, ThreadAt, k_mutex_lock
  <2>16. CASE ThreadLook
    BY <2>16 DEF ThreadLook, NextSlot
  <2>17. CASE ThreadDir
    BY <2>17 DEF ThreadDir, ThreadAt, k_mutex_lock
  <2>18. CASE ThreadStep
    BY <2>18 DEF ThreadStep, ThreadAt
  <2>19. CASE ThreadStepped
    BY <2>19 DEF ThreadStepped, ThreadAt
  <2>20. CASE ThreadDoneLock
    BY <2>20 DEF ThreadDoneLock, ThreadAt, k_mutex_lock
  <2>21. CASE ThreadClear
    BY <2>21 DEF ThreadClear, ThreadAt
  <2>22. CASE ThreadGive
    <3>1. \A d \in Callers : op'[d] = op[d] \/ op'[d] = "woken"
      BY <2>22, <2>0 DEF ThreadGive, GiveCompletions
    <3>2. m_pc' \in {"take", "lock"}
      BY <2>22 DEF ThreadGive, NextSlot
    <3>3. QED
      BY <2>22, <3>1, <3>2 DEF ThreadGive
  <2>23. CASE UNCHANGED vars
    BY <2>23 DEF vars
  <2>24. QED
    BY <2>1, <2>2, <2>3, <2>4, <2>5, <2>6, <2>7, <2>8, <2>9, <2>10, <2>11,
       <2>12, <2>13, <2>14, <2>15, <2>16, <2>17, <2>18, <2>19, <2>20, <2>21,
       <2>22, <2>23 DEF Next, Call, Proceed, motor_thread_entry
<1>3. QED
  BY <1>1, <1>2, TypeAlways, PTL

\* So it is in the behaviours of Spec (motors.c:292-309, 336-392).
LEMMA MutexInvariant == Spec => []MutexInv
BY MutexAlways, PTL DEF Spec

\* The command slots and the bus have one user at a time, for any number of
\* callers and whatever stops come in (motors.c:6-7).
THEOREM Exclusive == Spec => []OneAtATime
<1>1. MutexInv => OneAtATime
  BY Names DEF MutexInv, OneAtATime, InCommands, OnBus
<1>2. QED
  BY <1>1, MutexInvariant, PTL

-----------------------------------------------------------------------------
(* NoLostWakeup. *)

\* A command in use has a signal coming, or the thread is at its slot or before it;
\* a thread that waits starts its scan at the first slot.  This holds with stops
\* too, but then says less: the thread may be at the slot for an older command.
WakeInv ==
    /\ \A m \in Motors :
          in_use[m] => \/ motor_sem = 1
                       \/ \E c \in Callers : op[c] = "wait"
                       \/ m_pc # "take" /\ slot < m
                       \/ m_pc \notin {"take", "give"} /\ slot = m
    /\ m_pc = "take" => slot = 1

\* The thread steps past the slot it is at only when that slot is free, or just
\* cleared and, if taken again since, signalled again.
LEMMA NextSlotWakes ==
  ASSUME TypeOK, NextSlot, NEW m \in Motors, slot < m
  PROVE  m_pc' = "lock" /\ slot' <= m
<1>1. /\ slot \in Nat /\ m \in Nat /\ NumMotors \in Nat
      /\ m <= NumMotors
  BY NumMotorsAssumption DEF TypeOK, Motors
<1>2. QED
  BY <1>1 DEF NextSlot

\* WakeInv is an invariant, as who queues a command signals it afterwards and the
\* thread passes a slot only when it is free (motors.c:309-312, 331-350).
LEMMA WakeInvariant == Spec => []WakeInv
<1>1. Init => WakeInv
  BY DEF Init, WakeInv
<1>2. TypeOK /\ WakeInv /\ [Next]_vars => WakeInv'
  <2> SUFFICES ASSUME TypeOK, WakeInv, [Next]_vars PROVE WakeInv'
    OBVIOUS
  <2> USE DEF WakeInv
  <2>0. op \in [Callers -> Ops] /\ in_use \in [Motors -> BOOLEAN]
    BY DEF TypeOK
  <2>1. ASSUME NEW c \in Callers, MoveStart(c) PROVE WakeInv'
    BY <2>0, <2>1 DEF MoveStart, CallerAt
  <2>2. ASSUME NEW c \in Callers, InitStart(c) PROVE WakeInv'
    BY <2>0, <2>2 DEF InitStart, CallerAt
  <2>3. ASSUME NEW c \in Callers, StopStart(c) PROVE WakeInv'
    BY <2>0, <2>3 DEF StopStart, CallerAt
  <2>4. ASSUME NEW c \in Callers, MoveLock(c) PROVE WakeInv'
    BY <2>0, <2>4 DEF MoveLock, CallerAt
  <2>5. ASSUME NEW c \in Callers, MoveCheck(c) PROVE WakeInv'
    BY <2>0, <2>5 DEF MoveCheck, CallerAt
  <2>6. ASSUME NEW c \in Callers, MoveBusy(c) PROVE WakeInv'
    BY <2>0, <2>6 DEF MoveBusy, Returns
  <2>7. ASSUME NEW c \in Callers, MovePublish(c) PROVE WakeInv'
    <3>1. op'[c] = "wait"
      BY <2>7, <2>0 DEF MovePublish, CallerAt
    <3>2. QED
      BY <2>7, <3>1 DEF MovePublish
  <2>8. ASSUME NEW c \in Callers, MoveWait(c) PROVE WakeInv'
    BY <2>0, <2>8 DEF MoveWait, CallerAt, Returns
  <2>9. ASSUME NEW c \in Callers, MoveReturn(c) PROVE WakeInv'
    BY <2>0, <2>9 DEF MoveReturn, Returns
  <2>10. ASSUME NEW c \in Callers, InitLock(c) PROVE WakeInv'
    BY <2>0, <2>10 DEF InitLock, CallerAt
  <2>11. ASSUME NEW c \in Callers, InitConfigure(c) PROVE WakeInv'
    BY <2>0, <2>11 DEF InitConfigure, Returns
  <2>12. ASSUME NEW c \in Callers, StopLock(c) PROVE WakeInv'
    BY <2>0, <2>12 DEF StopLock, CallerAt
  <2>13. ASSUME NEW c \in Callers, StopClear(c) PROVE WakeInv'
    BY <2>0, <2>13 DEF StopClear
  <2>14. CASE ThreadTake
    <3>1. m_pc' = "lock" /\ slot' = 1
      BY <2>14 DEF ThreadTake, ThreadAt
    <3>2. \A m \in Motors : slot' < m \/ slot' = m
      BY <3>1 DEF Motors
    <3>3. QED
      BY <3>1, <3>2
  <2>15. CASE ThreadLock
    BY <2>0, <2>15 DEF ThreadLock, ThreadAt
  <2>16. CASE ThreadLook
    <3>1. CASE in_use[slot]
      BY <2>16, <3>1 DEF ThreadLook
    <3>2. CASE ~in_use[slot]
      <4>1. NextSlot /\ in_use' = in_use /\ motor_sem' = motor_sem /\ op' = op
        BY <2>16, <3>2 DEF ThreadLook
      <4>2. m_pc = "look"
        BY <2>16 DEF ThreadLook
      <4>3. ASSUME NEW m \in Motors, slot < m
            PROVE  m_pc' = "lock" /\ (slot' < m \/ slot' = m)
        <5>1. m_pc' = "lock" /\ slot' <= m
          BY <4>1, <4>3, NextSlotWakes
        <5>2. slot' \in Int /\ m \in Int
          BY <4>1, NextSlotType DEF TypeOK, Motors
        <5>3. QED
          BY <5>1, <5>2
      <4>4. m_pc' = "take" => slot' = 1
        BY <4>1, NextSlotType DEF TypeOK
      <4>5. QED
        BY <3>2, <4>1, <4>2, <4>3, <4>4
    <3>3. QED
      BY <3>1, <3>2
  <2>17. CASE ThreadDir
    BY <2>0, <2>17 DEF ThreadDir, ThreadAt
  <2>18. CASE ThreadStep
    BY <2>0, <2>18 DEF ThreadStep, ThreadAt
  <2>19. CASE ThreadStepped
    BY <2>0, <2>19 DEF ThreadStepped, ThreadAt
  <2>20. CASE ThreadDoneLock
    BY <2>0, <2>20 DEF ThreadDoneLock, ThreadAt
  <2>21. CASE ThreadClear
    BY <2>0, <2>21 DEF ThreadClear, ThreadAt
  <2>22. CASE ThreadGive
    <3>1. NextSlot /\ in_use' = in_use /\ motor_sem' = motor_sem /\ m_pc = "give"
      BY <2>22 DEF ThreadGive
    <3>2. \A c \in Callers : op[c] = "wait" => op'[c] = "wait"
      BY <2>22, <2>0 DEF ThreadGive, GiveCompletions, Waiting
    <3>3. ASSUME NEW m \in Motors, slot < m
          PROVE  m_pc' = "lock" /\ (slot' < m \/ slot' = m)
      <4>1. m_pc' = "lock" /\ slot' <= m
        BY <3>1, <3>3, NextSlotWakes
      <4>2. slot' \in Int /\ m \in Int
        BY <3>1, NextSlotType DEF TypeOK, Motors
      <4>3. QED
        BY <4>1, <4>2
    <3>4. m_pc' = "take" => slot' = 1
      BY <3>1, NextSlotType DEF TypeOK
    <3>5. QED
      BY <3>1, <3>2, <3>3, <3>4
  <2>23. CASE UNCHANGED vars
    BY <2>23 DEF vars
  <2>24. QED
    BY <2>1, <2>2, <2>3, <2>4, <2>5, <2>6, <2>7, <2>8, <2>9, <2>10, <2>11,
       <2>12, <2>13, <2>14, <2>15, <2>16, <2>17, <2>18, <2>19, <2>20, <2>21,
       <2>22, <2>23 DEF Next, Call, Proceed, motor_thread_entry
<1>3. QED
  BY <1>1, <1>2, MotorsTypeCorrect, PTL DEF Spec

\* Until a stop no queued move is forgotten, for any number of motors and callers,
\* although motor_sem counts to 1 only (motors.c:312, 331-334).
THEOREM WakeupKept == Spec => []NoLostWakeup
<1>1. WakeInv => NoLostWakeup
  BY DEF WakeInv, NoLostWakeup
<1>2. QED
  BY <1>1, WakeInvariant, PTL

-----------------------------------------------------------------------------
(* BusyIsTrue and ServiceSpec. *)

\* The thread has copied the command of its slot and not yet cleared it.
Executing == m_pc \in {"spi_lock", "step", "done_lock", "clear"}

\* Until a stop, callers and commands match: a command in use has a caller that
\* waits; so has a completion that is about to be given, and another one if its
\* slot is in use again; no unit of a completion is left over.
Matched ==
    /\ \A m \in Motors : completion_sem[m] = 0
    /\ \A m \in Motors : in_use[m] => Clients(m) # {}
    /\ Executing => in_use[slot]
    /\ m_pc \in {"done_lock", "clear"} => todo = 0
    /\ \A m \in Motors : m_pc = "give" /\ slot = m =>
          /\ Clients(m) # {}
          /\ in_use[m] => \E c, d \in Clients(m) : c # d
    /\ \A c \in Callers : op[c] = "publish" => ~in_use[req[c].id]

ServiceInv == stops = 0 => Matched

\* The steps in which no caller comes to wait, and none is woken.
LEMMA ClientsStay ==
  ASSUME TypeOK, NEW c \in Callers,
         \/ MoveStart(c) \/ InitStart(c) \/ StopStart(c) \/ MoveLock(c) \/ MoveCheck(c)
         \/ MoveBusy(c) \/ MoveReturn(c) \/ InitLock(c) \/ InitConfigure(c) \/ StopLock(c)
  PROVE  \A m \in Motors : Clients(m)' = Clients(m)
<1> USE DEF Clients
<1>0. op \in [Callers -> Ops] /\ req \in [Callers -> [id : Int, steps : Int, speed_hz : Nat]]
  BY DEF TypeOK
<1>1. CASE MoveStart(c)
  BY <1>0, <1>1 DEF MoveStart, CallerAt
<1>2. CASE InitStart(c)
  BY <1>0, <1>2 DEF InitStart, CallerAt
<1>3. CASE StopStart(c)
  BY <1>0, <1>3 DEF StopStart, CallerAt
<1>4. CASE MoveLock(c)
  BY <1>0, <1>4 DEF MoveLock, CallerAt
<1>5. CASE MoveCheck(c)
  BY <1>0, <1>5 DEF MoveCheck, CallerAt
<1>6. CASE MoveBusy(c)
  BY <1>0, <1>6 DEF MoveBusy, Returns
<1>7. CASE MoveReturn(c)
  BY <1>0, <1>7 DEF MoveReturn, Returns
<1>8. CASE InitLock(c)
  BY <1>0, <1>8 DEF InitLock, CallerAt
<1>9. CASE InitConfigure(c)
  BY <1>0, <1>9 DEF InitConfigure, Returns
<1>10. CASE StopLock(c)
  BY <1>0, <1>10 DEF StopLock, CallerAt
<1>11. QED
  BY <1>1, <1>2, <1>3, <1>4, <1>5, <1>6, <1>7, <1>8, <1>9, <1>10

\* While nobody wants the processor, who waits for a completion is pended on it.
LEMMA ClientsPended ==
  ASSUME CallersOff, NEW m \in Motors
  PROVE  Clients(m) = Waiting(m)
  BY DEF CallersOff, Clients, Waiting

\* The thread's give takes one caller away from those of its slot, no other.
LEMMA GiveServes ==
  ASSUME TypeOK, Matched, ThreadGive
  PROVE  /\ \E c \in Clients(slot) : \A m \in Motors :
               Clients(m)' = IF m = slot THEN Clients(m) \ {c} ELSE Clients(m)
         /\ completion_sem' = completion_sem
         /\ req' = req
         /\ \A d \in Callers : op'[d] \in {op[d], "woken"}
<1>1. slot \in Motors /\ op \in [Callers -> Ops] /\ completion_sem \in [Motors -> {0, 1}]
  BY DEF TypeOK
<1>2. Waiting(slot) # {} /\ Clients(slot) = Waiting(slot)
  <2>1. PICK m \in Motors : slot = m
    BY <1>1
  <2>2. Clients(m) # {} /\ Clients(m) = Waiting(m)
    BY <2>1, ClientsPended DEF ThreadGive, Matched
  <2>3. QED
    BY <2>1, <2>2
<1>3. PICK woken \in SUBSET UNION {Waiting(m) : m \in {slot}} :
         /\ \E c \in woken : woken \cap Waiting(slot) = {c}
         /\ op' = [c \in Callers |-> IF c \in woken THEN "woken" ELSE op[c]]
         /\ completion_sem' = [m \in Motors |->
               IF m \in {slot} /\ Waiting(m) = {} THEN 1 ELSE completion_sem[m]]
  BY <1>2 DEF ThreadGive, GiveCompletions
<1>4. PICK c \in Waiting(slot) : woken = {c}
  BY <1>3
<1>5. op' = [d \in Callers |-> IF d = c THEN "woken" ELSE op[d]] /\ req' = req
  BY <1>3, <1>4 DEF ThreadGive
<1>6. c \in Callers /\ op[c] = "pended" /\ req[c].id = slot
  BY <1>4 DEF Waiting
<1>7. \A m \in Motors : Clients(m)' = IF m = slot THEN Clients(m) \ {c} ELSE Clients(m)
  BY <1>5, <1>6 DEF Clients
<1>8. completion_sem' = completion_sem
  BY <1>1, <1>2, <1>3
<1>9. QED
  BY <1>2, <1>4, <1>5, <1>7, <1>8

\* A command that is published adds its caller to those of its motor, no other.
LEMMA PublishAdds ==
  ASSUME TypeOK, NEW c \in Callers, MovePublish(c)
  PROVE  /\ req[c].id \in Motors /\ req[c].steps \in Int
         /\ \A m \in Motors :
               /\ c \notin Clients(m)
               /\ Clients(m)' = IF m = req[c].id THEN Clients(m) \union {c} ELSE Clients(m)
<1>1. op[c] = "publish" /\ op' = [op EXCEPT ![c] = "wait"] /\ req' = req
  BY DEF MovePublish, CallerAt
<1>2. op \in [Callers -> Ops] /\ req[c] \in [id : Int, steps : Int, speed_hz : Nat]
  BY DEF TypeOK
<1>3. req[c].id \in Motors
  BY <1>1 DEF TypeOK
<1>4. QED
  BY <1>1, <1>2, <1>3 DEF Clients

\* A caller that starts to wait while no unit is left over goes on waiting.
LEMMA WaitKeeps ==
  ASSUME TypeOK, Matched, NEW c \in Callers, MoveWait(c)
  PROVE  /\ \A m \in Motors : Clients(m)' = Clients(m)
         /\ completion_sem' = completion_sem
         /\ req' = req
         /\ op' = [op EXCEPT ![c] = "pended"]
<1>1. op[c] = "wait" /\ req[c].id \in Motors /\ op \in [Callers -> Ops]
  BY DEF TypeOK, MoveWait
<1>2. completion_sem[req[c].id] = 0
  BY <1>1 DEF Matched
<1>3. op' = [op EXCEPT ![c] = "pended"] /\ req' = req /\ completion_sem' = completion_sem
  BY <1>2 DEF MoveWait, CallerAt
<1>4. QED
  BY <1>1, <1>3 DEF Clients

\* A caller's step that leaves commands, thread and clients alone keeps them matched.
LEMMA MatchedStays ==
  ASSUME TypeOK, Matched, NEW c \in Callers,
         UNCHANGED <<in_use, completion_sem, m_pc, slot, todo>>,
         \A m \in Motors : Clients(m)' = Clients(m),
         \A d \in Callers : op'[d] = "publish" =>
            \/ op[d] = "publish" /\ req'[d] = req[d]
            \/ ~in_use[req'[d].id]
  PROVE  Matched'
<1>1. slot \in Motors
  BY DEF TypeOK
<1>2. \A m \in Motors : completion_sem'[m] = 0 /\ (in_use'[m] => Clients(m)' # {})
  BY DEF Matched
<1>3. Executing' => in_use'[slot']
  BY DEF Matched, Executing
<1>4. \A m \in Motors : m_pc' = "give" /\ slot' = m =>
         /\ Clients(m)' # {}
         /\ in_use'[m] => \E d, e \in Clients(m)' : d # e
  BY <1>1 DEF Matched
<1>5. \A d \in Callers : op'[d] = "publish" => ~in_use'[req'[d].id]
  BY DEF Matched
<1>6. m_pc' \in {"done_lock", "clear"} => todo' = 0
  BY DEF Matched
<1>7. QED
  BY <1>1, <1>2, <1>3, <1>4, <1>5, <1>6 DEF Matched

\* ServiceInv is an invariant: what callers and thread leave to each other matches
\* until a stop comes in between (motors.c:295-319, 336-396).
LEMMA ServiceInvariant == Spec => []ServiceInv
<1>1. Init => ServiceInv
  BY DEF Init, ServiceInv, Matched, Executing
<1>2. TypeOK /\ MutexInv /\ ServiceInv /\ [Next]_vars => ServiceInv'
  <2> SUFFICES ASSUME TypeOK, MutexInv, ServiceInv, [Next]_vars PROVE ServiceInv'
    OBVIOUS
  <2> USE DEF ServiceInv
  <2>0. /\ op \in [Callers -> Ops]
        /\ in_use \in [Motors -> BOOLEAN]
        /\ slot \in Motors
        /\ \A c \in Callers : op[c] = "publish" => req[c].id \in Motors
    BY DEF TypeOK
  <2>1. ASSUME NEW c \in Callers, MoveStart(c) PROVE ServiceInv'
    <3>1. UNCHANGED <<in_use, completion_sem, m_pc, slot, todo, stops>>
      BY <2>1 DEF MoveStart
    <3>2. \A d \in Callers : op'[d] = "publish" => op[d] = "publish" /\ req'[d] = req[d]
      BY <2>0, <2>1 DEF MoveStart, CallerAt
    <3>3. QED
      BY <2>1, <3>1, <3>2, ClientsStay, MatchedStays
  <2>2. ASSUME NEW c \in Callers, InitStart(c) PROVE ServiceInv'
    <3>1. UNCHANGED <<in_use, completion_sem, m_pc, slot, todo, stops>>
      BY <2>2 DEF InitStart
    <3>2. \A d \in Callers : op'[d] = "publish" => op[d] = "publish" /\ req'[d] = req[d]
      BY <2>0, <2>2 DEF InitStart, CallerAt
    <3>3. QED
      BY <2>2, <3>1, <3>2, ClientsStay, MatchedStays
  <2>3. ASSUME NEW c \in Callers, StopStart(c) PROVE ServiceInv'
    BY <2>0, <2>3, ClientsStay, MatchedStays DEF StopStart, CallerAt
  <2>4. ASSUME NEW c \in Callers, MoveLock(c) PROVE ServiceInv'
    BY <2>0, <2>4, ClientsStay, MatchedStays DEF MoveLock, CallerAt
  <2>5. ASSUME NEW c \in Callers, MoveCheck(c) PROVE ServiceInv'
    BY <2>0, <2>5, ClientsStay, MatchedStays DEF MoveCheck, CallerAt
  <2>6. ASSUME NEW c \in Callers, MoveBusy(c) PROVE ServiceInv'
    <3>1. UNCHANGED <<in_use, completion_sem, m_pc, slot, todo, stops>>
      BY <2>6 DEF MoveBusy
    <3>2. \A d \in Callers : op'[d] = "publish" => op[d] = "publish" /\ req'[d] = req[d]
      BY <2>0, <2>6 DEF MoveBusy, Returns
    <3>3. QED
      BY <2>6, <3>1, <3>2, ClientsStay, MatchedStays
  <2>7. ASSUME NEW c \in Callers, MoveReturn(c) PROVE ServiceInv'
    <3>1. UNCHANGED <<in_use, completion_sem, m_pc, slot, todo, stops>>
      BY <2>7 DEF MoveReturn
    <3>2. \A d \in Callers : op'[d] = "publish" => op[d] = "publish" /\ req'[d] = req[d]
      BY <2>0, <2>7 DEF MoveReturn, Returns
    <3>3. QED
      BY <2>7, <3>1, <3>2, ClientsStay, MatchedStays
  <2>8. ASSUME NEW c \in Callers, InitLock(c) PROVE ServiceInv'
    BY <2>0, <2>8, ClientsStay, MatchedStays DEF InitLock, CallerAt
  <2>9. ASSUME NEW c \in Callers, InitConfigure(c) PROVE ServiceInv'
    <3>1. UNCHANGED <<in_use, completion_sem, m_pc, slot, todo, stops>>
      BY <2>9 DEF InitConfigure
    <3>2. \A d \in Callers : op'[d] = "publish" => op[d] = "publish" /\ req'[d] = req[d]
      BY <2>0, <2>9 DEF InitConfigure, Returns
    <3>3. QED
      BY <2>9, <3>1, <3>2, ClientsStay, MatchedStays
  <2>10. ASSUME NEW c \in Callers, StopLock(c) PROVE ServiceInv'
    BY <2>0, <2>10, ClientsStay, MatchedStays DEF StopLock, CallerAt
  <2>11. ASSUME NEW c \in Callers, MoveWait(c) PROVE ServiceInv'
    <3> SUFFICES ASSUME stops = 0 PROVE Matched'
      BY <2>11 DEF MoveWait
    <3>1. UNCHANGED <<in_use, completion_sem, m_pc, slot, todo, req>>
      BY <2>11, WaitKeeps DEF MoveWait
    <3>2. \A d \in Callers : op'[d] = "publish" => op[d] = "publish"
      BY <2>0, <2>11, WaitKeeps
    <3>3. QED
      BY <2>11, <3>1, <3>2, WaitKeeps, MatchedStays
  <2>12. ASSUME NEW c \in Callers, MovePublish(c) PROVE ServiceInv'
    <3> SUFFICES ASSUME stops = 0, Matched PROVE Matched'
      BY <2>12 DEF MovePublish
    <3>0. PICK m \in Motors : m = req[c].id
      BY <2>12, PublishAdds
    <3>1. /\ op[c] = "publish" /\ op'[c] = "wait" /\ req' = req
          /\ \A d \in Callers \ {c} : op'[d] = op[d]
          /\ in_use' = [in_use EXCEPT ![m] = TRUE]
          /\ UNCHANGED <<completion_sem, m_pc, slot, todo>>
      BY <2>0, <2>12, <3>0 DEF MovePublish, CallerAt
    <3>2. ~in_use[m]
      BY <3>0, <3>1 DEF Matched
    <3>3. \A n \in Motors :
             /\ c \notin Clients(n)
             /\ Clients(n)' = IF n = m THEN Clients(n) \union {c} ELSE Clients(n)
      BY <2>12, <3>0, PublishAdds
    <3>4. \A n \in Motors : completion_sem'[n] = 0 /\ (in_use'[n] => Clients(n)' # {})
      BY <2>0, <3>1, <3>2, <3>3 DEF Matched
    <3>5. Executing' => in_use'[slot']
      BY <2>0, <3>1, <3>2 DEF Matched, Executing
    <3>6. ASSUME NEW n \in Motors, m_pc' = "give", slot' = n
          PROVE  Clients(n)' # {} /\ (in_use'[n] => \E d, e \in Clients(n)' : d # e)
      <4>1. Clients(n) # {} /\ (in_use[n] => \E d, e \in Clients(n) : d # e)
        BY <3>1, <3>6 DEF Matched
      <4>2. CASE n = m
        BY <3>3, <4>1, <4>2
      <4>3. CASE n # m
        BY <2>0, <3>1, <3>3, <4>1, <4>3
      <4>4. QED
        BY <4>2, <4>3
    <3>7. \A d \in Callers : op'[d] = "publish" => ~in_use'[req'[d].id]
      BY <3>1, Names DEF MutexInv
    <3>8. m_pc' \in {"done_lock", "clear"} => todo' = 0
      BY <3>1 DEF Matched
    <3>9. QED
      BY <3>4, <3>5, <3>6, <3>7, <3>8 DEF Matched
  <2>13. ASSUME NEW c \in Callers, StopClear(c) PROVE ServiceInv'
    BY <2>13 DEF StopClear, TypeOK
  <2>14. CASE ThreadTake
    BY <2>0, <2>14 DEF ThreadTake, ThreadAt, Matched, Executing, Clients
  <2>15. CASE ThreadLock
    BY <2>0, <2>15 DEF ThreadLock, ThreadAt, Matched, Executing, Clients
  <2>16. CASE ThreadDir
    BY <2>0, <2>16 DEF ThreadDir, ThreadAt, Matched, Executing, Clients
  <2>17. CASE ThreadStep
    BY <2>0, <2>17 DEF ThreadStep, ThreadAt, Matched, Executing, Clients
  <2>18. CASE ThreadStepped
    BY <2>0, <2>18 DEF ThreadStepped, ThreadAt, Matched, Executing, Clients
  <2>19. CASE ThreadDoneLock
    BY <2>0, <2>19 DEF ThreadDoneLock, ThreadAt, Matched, Executing, Clients
  <2>20. CASE ThreadLook
    BY <2>0, <2>20 DEF ThreadLook, NextSlot, Matched, Executing, Clients
  <2>21. CASE ThreadClear
    <3> SUFFICES ASSUME stops = 0, Matched PROVE Matched'
      BY <2>21 DEF ThreadClear
    <3>1. in_use[slot] /\ in_use' = [in_use EXCEPT ![slot] = FALSE] /\ m_pc' = "give"
      BY <2>0, <2>21 DEF ThreadClear, ThreadAt, Matched, Executing
    <3>2. QED
      BY <2>0, <2>21, <3>1 DEF ThreadClear, Matched, Executing, Clients
  <2>22. CASE ThreadGive
    <3> SUFFICES ASSUME stops = 0, Matched PROVE Matched'
      BY <2>22 DEF ThreadGive
    <3>1. m_pc = "give" /\ in_use' = in_use /\ m_pc' \in {"take", "lock"}
      BY <2>22 DEF ThreadGive, NextSlot
    <3>2. \A m \in Motors : in_use'[m] => Clients(m)' # {}
      BY <2>22, <3>1, GiveServes DEF Matched
    <3>3. \A d \in Callers : op'[d] = "publish" => op[d] = "publish" /\ req'[d] = req[d]
      BY <2>22, GiveServes
    <3>4. completion_sem' = completion_sem
      BY <2>22, GiveServes
    <3>5. QED
      BY <3>1, <3>2, <3>3, <3>4 DEF Matched, Executing
  <2>23. CASE UNCHANGED vars
    BY <2>23 DEF vars, Matched, Executing, Clients
  <2>24. QED
    BY <2>1, <2>2, <2>3, <2>4, <2>5, <2>6, <2>7, <2>8, <2>9, <2>10, <2>11,
       <2>12, <2>13, <2>14, <2>15, <2>16, <2>17, <2>18, <2>19, <2>20, <2>21,
       <2>22, <2>23 DEF Next, Call, Proceed, motor_thread_entry
<1>3. QED
  BY <1>1, <1>2, MotorsTypeCorrect, MutexInvariant, PTL DEF Spec

\* Until a stop, -EBUSY tells the truth: another caller's move of that motor is
\* under way (motors.c:295-300).
THEOREM BusyTrue == Spec => BusyIsTrue
<1>1. ASSUME TypeOK, ServiceInv, NEW c \in Callers, MoveBusy(c), stops = 0
      PROVE  Clients(req[c].id) # {}
  <2>1. op[c] = "check" /\ in_use[req[c].id]
    BY <1>1 DEF MoveBusy
  <2>2. PICK m \in Motors : m = req[c].id
    BY <1>1, <2>1 DEF TypeOK
  <2>3. QED
    BY <1>1, <2>1, <2>2 DEF ServiceInv, Matched
<1>2. TypeOK /\ ServiceInv =>
        [\A c \in Callers : MoveBusy(c) /\ stops = 0 => Clients(req[c].id) # {}]_vars
  BY <1>1
<1>3. QED
  BY <1>2, MotorsTypeCorrect, ServiceInvariant, PTL DEF BusyIsTrue

\* Until a stop a motor has steps to make only while somebody waits in motor_move
\* for them: "blocks main state machine until motors are finished"
\* (motors.c:318-319).
THEOREM MovesOnlyForCallers ==
  Spec => [](stops = 0 => \A m \in Motors : Owed(m) # 0 => Clients(m) # {})
<1>1. ServiceInv => (stops = 0 => \A m \in Motors : Owed(m) # 0 => Clients(m) # {})
  BY DEF ServiceInv, Matched, Owed, Executing
<1>2. QED
  BY <1>1, ServiceInvariant, PTL

\* Steps of the abstract service, in the terms of motors.c.
LEMMA ServiceStutters ==
  ASSUME NEW m \in Motors,
         Clients(m)' = Clients(m), Owed(m)' = Owed(m), pos'[m] = pos[m], stops' = stops
  PROVE  [Service(m)!Next]_(Service(m)!vars)
  BY DEF Service!vars

\* After a stop, or with one, any step will do.
LEMMA ServiceVoid ==
  ASSUME NEW m \in Motors, stops' > 0
  PROVE  [Service(m)!Next]_(Service(m)!vars)
  BY DEF Service!Next, Service!Stop

\* A published command is an accepted move.
LEMMA PublishAccepts ==
  ASSUME TypeOK, Matched, stops = 0, NEW c \in Callers, MovePublish(c), NEW m \in Motors
  PROVE  [Service(m)!Next]_(Service(m)!vars)
<1>1. /\ op[c] = "publish"
      /\ in_use' = [in_use EXCEPT ![req[c].id] = TRUE]
      /\ steps' = [steps EXCEPT ![req[c].id] = req[c].steps]
      /\ UNCHANGED <<m_pc, slot, todo, pos, stops>>
  BY DEF MovePublish, CallerAt
<1>2. /\ req[c].id \in Motors /\ req[c].steps \in Int /\ ~in_use[req[c].id]
      /\ c \notin Clients(m)
      /\ Clients(m)' = IF m = req[c].id THEN Clients(m) \union {c} ELSE Clients(m)
  BY <1>1, PublishAdds DEF Matched
<1>3. CASE m = req[c].id
  <2>1. ~(slot = m /\ m_pc \in {"spi_lock", "step", "done_lock", "clear"})
    BY <1>2, <1>3 DEF Matched, Executing
  <2>2. Owed(m) = 0
    BY <1>2, <1>3, <2>1 DEF Owed
  <2>3. Owed(m)' \in Int
    BY <1>1, <1>2, <1>3, <2>1 DEF Owed, TypeOK
  <2>4. Service(m)!Accept
    BY <1>1, <1>2, <1>3, <2>2, <2>3 DEF Service!Accept
  <2>5. QED
    BY <2>4 DEF Service!Next
<1>4. CASE m # req[c].id
  <2>1. Owed(m)' = Owed(m)
    BY <1>1, <1>2, <1>4 DEF Owed, TypeOK
  <2>2. QED
    BY <1>1, <1>2, <1>4, <2>1, ServiceStutters
<1>5. QED
  BY <1>3, <1>4

\* A step of a driver is part of the move of the thread's slot, in its direction.
LEMMA StepTurns ==
  ASSUME TypeOK, stops = 0, ThreadStep, NEW m \in Motors
  PROVE  [Service(m)!Next]_(Service(m)!vars)
<1>1. PICK ok \in Outcome("spi") :
         pos' = [pos EXCEPT ![slot] = IF ~ok THEN @ ELSE IF todo > 0 THEN @ + 1 ELSE @ - 1]
  BY DEF ThreadStep
<1>2. /\ todo # 0 /\ todo' = (IF todo > 0 THEN todo - 1 ELSE todo + 1)
      /\ m_pc = "step" /\ m_pc' = "step"
      /\ UNCHANGED <<op, req, in_use, steps, slot, stops>>
  BY DEF ThreadStep, ThreadAt
<1>3. Clients(m)' = Clients(m)
  BY <1>2 DEF Clients
<1>4. CASE m = slot
  <2>1. Owed(m) = todo /\ Owed(m)' = todo'
    BY <1>2, <1>4 DEF Owed
  <2>2. todo \in Int /\ pos[m] \in Int
        /\ pos'[m] = IF ~ok THEN pos[m] ELSE IF todo > 0 THEN pos[m] + 1 ELSE pos[m] - 1
    BY <1>1, <1>4 DEF TypeOK
  <2>3. "spi" \notin Faults => ok = TRUE
    BY <1>1 DEF Outcome
  <2>4. Service(m)!Between(Owed(m)', Owed(m))
    BY <1>2, <2>1, <2>2 DEF Service!Between
  <2>5. "spi" \notin Faults => pos'[m] - pos[m] = Owed(m) - Owed(m)'
    BY <1>2, <2>1, <2>2, <2>3
  <2>6. Service(m)!Between(pos'[m] - pos[m], Owed(m) - Owed(m)')
    BY <1>2, <2>1, <2>2 DEF Service!Between
  <2>7. Service(m)!Turn
    BY <1>2, <1>3, <2>4, <2>5, <2>6 DEF Service!Turn
  <2>8. QED
    BY <2>7 DEF Service!Next
<1>5. CASE m # slot
  <2>1. Owed(m)' = Owed(m) /\ pos'[m] = pos[m]
    BY <1>1, <1>2, <1>5 DEF Owed, TypeOK
  <2>2. QED
    BY <1>2, <1>3, <2>1, ServiceStutters
<1>6. QED
  BY <1>4, <1>5

\* The completion that is given lets one caller leave; the last leaves a motor
\* that owes nothing.
LEMMA GiveReturns ==
  ASSUME TypeOK, Matched, stops = 0, ThreadGive, NEW m \in Motors
  PROVE  [Service(m)!Next]_(Service(m)!vars)
<1>1. /\ m_pc = "give" /\ m_pc' \in {"take", "lock"}
      /\ UNCHANGED <<in_use, steps, pos, stops>>
  BY DEF ThreadGive, NextSlot
<1>2. Owed(m) = (IF in_use[m] THEN steps[m] ELSE 0) /\ Owed(m)' = Owed(m)
  BY <1>1 DEF Owed
<1>3. PICK c \in Clients(slot) : \A n \in Motors :
         Clients(n)' = IF n = slot THEN Clients(n) \ {c} ELSE Clients(n)
  BY GiveServes
<1>4. CASE m = slot
  <2>1. c \in Clients(m) /\ Clients(m)' = Clients(m) \ {c}
    BY <1>3, <1>4
  <2>2. Owed(m) = 0 \/ Clients(m)' # {}
    BY <1>1, <1>2, <1>4, <2>1 DEF Matched
  <2>3. Service(m)!Return
    BY <1>1, <1>2, <2>1, <2>2 DEF Service!Return
  <2>4. QED
    BY <2>3 DEF Service!Next
<1>5. CASE m # slot
  BY <1>1, <1>2, <1>3, <1>5, ServiceStutters
<1>6. QED
  BY <1>4, <1>5

\* The steps that leave every motor's service as it is.
LEMMA QuietStep ==
  ASSUME NEW m \in Motors,
         UNCHANGED <<in_use, steps, m_pc, slot, todo, pos, stops>>,
         Clients(m)' = Clients(m)
  PROVE  [Service(m)!Next]_(Service(m)!vars)
<1>1. Owed(m)' = Owed(m)
  BY DEF Owed
<1>2. QED
  BY <1>1, ServiceStutters

\* The thread's steps other than those of the driver and its give leave what every
\* motor owes as it is: a command that is copied is owed as todo, and is cleared
\* when todo is 0.
LEMMA OwedStays ==
  ASSUME TypeOK, Matched, NEW m \in Motors,
         ThreadTake \/ ThreadLock \/ ThreadLook \/ ThreadDir \/ ThreadStepped
            \/ ThreadDoneLock \/ ThreadClear
  PROVE  /\ Owed(m)' = Owed(m)
         /\ UNCHANGED <<op, req, steps, pos, stops>>
<1>1. UNCHANGED <<op, req, steps, pos, stops>>
  BY DEF ThreadTake, ThreadLock, ThreadLook, ThreadDir, ThreadStepped,
         ThreadDoneLock, ThreadClear
<1>2. Owed(m)' = Owed(m)
  <2> USE DEF Owed
  <2>1. CASE ThreadTake
    BY <1>1, <2>1 DEF ThreadTake, ThreadAt
  <2>2. CASE ThreadLock
    BY <1>1, <2>2 DEF ThreadLock, ThreadAt
  <2>3. CASE ThreadLook
    BY <1>1, <2>3 DEF ThreadLook, NextSlot
  <2>4. CASE ThreadDir
    BY <1>1, <2>4 DEF ThreadDir, ThreadAt
  <2>5. CASE ThreadStepped
    BY <1>1, <2>5 DEF ThreadStepped, ThreadAt
  <2>6. CASE ThreadDoneLock
    BY <1>1, <2>6 DEF ThreadDoneLock, ThreadAt
  <2>7. CASE ThreadClear
    BY <1>1, <2>7 DEF ThreadClear, ThreadAt, Matched, TypeOK
  <2>8. QED
    BY <2>1, <2>2, <2>3, <2>4, <2>5, <2>6, <2>7
<1>3. QED
  BY <1>1, <1>2

\* So they leave its service as it is.
LEMMA ThreadQuiet ==
  ASSUME TypeOK, Matched, NEW m \in Motors,
         ThreadTake \/ ThreadLock \/ ThreadLook \/ ThreadDir \/ ThreadStepped
            \/ ThreadDoneLock \/ ThreadClear
  PROVE  [Service(m)!Next]_(Service(m)!vars)
<1>1. Owed(m)' = Owed(m) /\ UNCHANGED <<op, req, pos, stops>>
  BY OwedStays
<1>2. Clients(m)' = Clients(m)
  BY <1>1 DEF Clients
<1>3. QED
  BY <1>1, <1>2, ServiceStutters

\* motors.c implements the abstract service of each motor, for any callers, any
\* requests and any number of motors: a move is made once and in full (or loses
\* steps to a bus that fails, and never makes one too many), and the last caller
\* of a motor does not return before its move is over (motors.c:278-402).
THEOREM ServiceImplemented == Spec => ServiceSpec
<1>1. Init => \A m \in Motors : Service(m)!Init
  <2> SUFFICES ASSUME Init, NEW m \in Motors PROVE Service(m)!Init
    OBVIOUS
  <2>1. Clients(m) = {} /\ Owed(m) = 0
    BY DEF Init, Clients, Owed
  <2>2. QED
    BY <2>1 DEF Init, Service!Init
<1>2. TypeOK /\ ServiceInv /\ [Next]_vars
         => [\A m \in Motors : [Service(m)!Next]_(Service(m)!vars)]_vars
  <2> SUFFICES ASSUME TypeOK, ServiceInv, Next, NEW m \in Motors
               PROVE  [Service(m)!Next]_(Service(m)!vars)
    OBVIOUS
  <2>1. stops \in Nat /\ stops' \in {stops, stops + 1}
    <3>1. stops \in Nat
      BY DEF TypeOK
    <3>2. stops' \in {stops, stops + 1}
      BY DEF Next, Call, Proceed, motor_thread_entry, MoveStart, InitStart, StopStart,
         MoveLock, MoveCheck, MoveBusy, MovePublish, MoveWait, MoveReturn, InitLock,
         InitConfigure, StopLock, StopClear, ThreadTake, ThreadLock, ThreadLook,
         ThreadDir, ThreadStep, ThreadStepped, ThreadDoneLock, ThreadClear, ThreadGive
    <3>3. QED
      BY <3>1, <3>2
  <2>2. CASE stops' # 0
    BY <2>1, <2>2, ServiceVoid
  <2>3. CASE stops' = 0
    <3>1. stops = 0 /\ Matched
      BY <2>1, <2>3 DEF ServiceInv
    <3>2. ASSUME NEW c \in Callers, Call(c) \/ Proceed(c)
          PROVE  [Service(m)!Next]_(Service(m)!vars)
      <4>1. CASE MovePublish(c)
        BY <3>1, <4>1, PublishAccepts
      <4>2. CASE MoveWait(c)
        <5>1. UNCHANGED <<in_use, steps, m_pc, slot, todo, pos, stops>>
          BY <4>2 DEF MoveWait
        <5>2. Clients(m)' = Clients(m)
          BY <3>1, <4>2, WaitKeeps
        <5>3. QED
          BY <5>1, <5>2, QuietStep
      <4>3. CASE StopClear(c)
        BY <2>1, <2>3, <3>1, <4>3 DEF StopClear
      <4>4. CASE \/ MoveStart(c) \/ InitStart(c) \/ StopStart(c) \/ MoveLock(c)
                 \/ MoveCheck(c) \/ MoveBusy(c) \/ MoveReturn(c) \/ InitLock(c)
                 \/ InitConfigure(c) \/ StopLock(c)
        <5>1. UNCHANGED <<in_use, steps, m_pc, slot, todo, pos, stops>>
          BY <4>4 DEF MoveStart, InitStart, StopStart, MoveLock, MoveCheck, MoveBusy,
                      MoveReturn, InitLock, InitConfigure, StopLock
        <5>2. Clients(m)' = Clients(m)
          BY <4>4, ClientsStay
        <5>3. QED
          BY <5>1, <5>2, QuietStep
      <4>5. QED
        BY <3>2, <4>1, <4>2, <4>3, <4>4 DEF Call, Proceed
    <3>3. CASE motor_thread_entry
      <4>1. CASE ThreadStep
        BY <3>1, <4>1, StepTurns
      <4>2. CASE ThreadGive
        BY <3>1, <4>2, GiveReturns
      <4>3. CASE ThreadTake \/ ThreadLock \/ ThreadLook \/ ThreadDir \/ ThreadStepped
                    \/ ThreadDoneLock \/ ThreadClear
        BY <3>1, <4>3, ThreadQuiet
      <4>4. QED
        BY <3>3, <4>1, <4>2, <4>3 DEF motor_thread_entry
    <3>4. QED
      BY <3>2, <3>3 DEF Next
  <2>4. QED
    BY <2>2, <2>3
<1>3. QED
  BY <1>1, <1>2, MotorsTypeCorrect, ServiceInvariant, PTL DEF Spec, ServiceSpec

=============================================================================
