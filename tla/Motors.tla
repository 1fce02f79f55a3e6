------------------------------- MODULE Motors -------------------------------
(***************************************************************************)
(* src/src/motors.c: the command slots, the two mutexes, the semaphores,   *)
(* motor_move, stop_all_motors and motor_init_for_spi_stepping as their    *)
(* callers run them, and the motor thread.  MotorRegisters adds what the   *)
(* SPI writes leave in the drivers.                                        *)
(*                                                                         *)
(* The motor thread has priority 5 and every caller a higher one: it takes *)
(* a step only while each caller is asleep, waits, or is not in a call.    *)
(* The callers have priorities of their own and preempt each other at any  *)
(* point.                                                                  *)
(*                                                                         *)
(* Of a driver chip the net steps are kept that it was told to make: a     *)
(* write of STEP is one step in the direction of DIR.  Between two SPI     *)
(* writes of one holder of spi_mutex the callers run, but none of them     *)
(* uses the bus: the writes are one action.                                *)
(***************************************************************************)
EXTENDS Integers, Zephyr

CONSTANTS
    Callers,    \* the threads that call the motor service
    Stoppers,   \* those that call stop_all_motors: none in the build
    NumMotors,  \* 4 in the code
    Requests,   \* the arguments a caller may give to motor_move
    Travel,     \* bound: a caller keeps each motor within -Travel..Travel
    MaxStops    \* bound: how often stop_all_motors is called

Motors == 1..NumMotors
Nobody == "nobody"
Thread == "motor_thread"

ASSUME CallersAssumption == Stoppers \subseteq Callers /\ {Nobody, Thread} \cap Callers = {}
ASSUME NumMotorsAssumption == NumMotors \in Nat \ {0}
ASSUME RequestsAssumption == Requests \subseteq [id : Int, steps : Int, speed_hz : Nat]
ASSUME BoundsAssumption == Travel \in Nat /\ MaxStops \in Nat

VARIABLES
    op,              \* where each caller is
    req,             \* the arguments of its call
    in_use,          \* motor_commands[].in_use
    steps,           \* motor_commands[].steps
    completion_sem,  \* motor_commands[].completion_sem: its count
    motor_sem,       \* its count
    motor_cmd_mutex, \* its owner
    spi_mutex,       \* its owner
    m_pc,            \* where the motor thread is
    slot,            \* i + 1 of its loop
    todo,            \* the steps it has still to make, with their direction
    pos,             \* the net steps each driver was told to make
    stops            \* history: the calls of stop_all_motors so far

callerVars  == <<op, req>>
commandVars == <<in_use, steps>>
threadVars  == <<m_pc, slot, todo>>
vars == <<callerVars, commandVars, completion_sem, motor_sem, motor_cmd_mutex,
          spi_mutex, threadVars, pos, stops>>

\* Where a caller is, in motor_move, motor_init_for_spi_stepping and
\* stop_all_motors.
Ops == {"idle", "lock", "check", "publish", "wait", "pended", "woken",
        "spi_lock", "configure",
        "stop_lock", "stop_clear"}

NoRequest == [id |-> 0, steps |-> 0, speed_hz |-> 0]

\* Once drv8434s_init has returned 0; the motor thread is about to start.
Init ==
    /\ op = [c \in Callers |-> "idle"]
    /\ req = [c \in Callers |-> NoRequest]
    /\ in_use = [m \in Motors |-> FALSE]
    /\ steps = [m \in Motors |-> 0]
    /\ completion_sem = [m \in Motors |-> 0]
    /\ motor_sem = 0
    /\ motor_cmd_mutex = Nobody
    /\ spi_mutex = Nobody
    /\ m_pc = "take"
    /\ slot = 1
    /\ todo = 0
    /\ pos = [m \in Motors |-> 0]
    /\ stops = 0

-----------------------------------------------------------------------------
(* Kernel objects and the bus. *)

k_mutex_lock(mutex, owner) == mutex = Nobody /\ mutex' = owner

\* The callers that wait for the completion of a move of motor m.
Waiting(m) == {c \in Callers : op[c] = "pended" /\ req[c].id = m}

\* k_sem_give on the completion_sem of each motor in M: one caller that waits
\* is made ready, else the count goes to its limit of 1.  The other callers are
\* then where `at` says.
GiveCompletions(M, at) ==
    \E woken \in SUBSET UNION {Waiting(m) : m \in M} :
       /\ \A m \in M : Waiting(m) # {} => \E c \in woken : woken \cap Waiting(m) = {c}
       /\ op' = [c \in Callers |-> IF c \in woken THEN "woken" ELSE at[c]]
       /\ completion_sem' = [m \in Motors |->
             IF m \in M /\ Waiting(m) = {} THEN 1 ELSE completion_sem[m]]

\* Caller c goes on at p.
CallerAt(c, here, p) == op[c] = here /\ op' = [op EXCEPT ![c] = p]

\* Caller c returns.
Returns(c) == op' = [op EXCEPT ![c] = "idle"] /\ req' = [req EXCEPT ![c] = NoRequest]

-----------------------------------------------------------------------------
(* motor_move. *)

Valid(r) == r.id \in Motors /\ r.speed_hz > 0 /\ r.speed_hz <= 10000

\* A call with other arguments returns -1 and changes nothing.
MoveStart(c) ==
    \E r \in Requests :
       /\ Valid(r)
       /\ pos[r.id] + r.steps \in -Travel..Travel
       /\ CallerAt(c, "idle", "lock")
       /\ req' = [req EXCEPT ![c] = r]
       /\ UNCHANGED <<commandVars, completion_sem, motor_sem, motor_cmd_mutex,
                      spi_mutex, threadVars, pos, stops>>

MoveLock(c) ==
    /\ CallerAt(c, "lock", "check")
    /\ k_mutex_lock(motor_cmd_mutex, c)
    /\ UNCHANGED <<req, commandVars, completion_sem, motor_sem, spi_mutex,
                   threadVars, pos, stops>>

\* Mutant: a motor in use is not refused.
MoveCheck_NeverBusy(c) ==
    /\ CallerAt(c, "check", "publish")
    /\ UNCHANGED <<req, commandVars, completion_sem, motor_sem, motor_cmd_mutex,
                   spi_mutex, threadVars, pos, stops>>

MoveCheck(c) ==
    /\ CallerAt(c, "check", "publish")
    /\ ~in_use[req[c].id]
    /\ UNCHANGED <<req, commandVars, completion_sem, motor_sem, motor_cmd_mutex,
                   spi_mutex, threadVars, pos, stops>>

\* Mutant: the refusal keeps the mutex.
MoveBusy_MutexKept(c) ==
    /\ op[c] = "check"
    /\ in_use[req[c].id]
    /\ Returns(c)
    /\ UNCHANGED <<commandVars, completion_sem, motor_sem, motor_cmd_mutex,
                   spi_mutex, threadVars, pos, stops>>

\* The return of -EBUSY.
MoveBusy(c) ==
    /\ op[c] = "check"
    /\ in_use[req[c].id]
    /\ Returns(c)
    /\ motor_cmd_mutex' = Nobody
    /\ UNCHANGED <<commandVars, completion_sem, motor_sem, spi_mutex, threadVars,
                   pos, stops>>

MovePublish(c) ==
    /\ CallerAt(c, "publish", "wait")
    /\ steps' = [steps EXCEPT ![req[c].id] = req[c].steps]
    /\ in_use' = [in_use EXCEPT ![req[c].id] = TRUE]
    /\ motor_cmd_mutex' = Nobody
    /\ UNCHANGED <<req, completion_sem, motor_sem, spi_mutex, threadVars,
                   pos, stops>>

\* k_sem_give of motor_sem, then k_sem_take of the completion, which returns at
\* once if there is a unit to take.
MoveWait(c) ==
    /\ op[c] = "wait"
    /\ motor_sem' = 1
    /\ IF completion_sem[req[c].id] = 0
       THEN CallerAt(c, "wait", "pended") /\ UNCHANGED <<req, completion_sem>>
       ELSE Returns(c) /\ completion_sem' = [completion_sem EXCEPT ![req[c].id] = 0]
    /\ UNCHANGED <<commandVars, motor_cmd_mutex, spi_mutex, threadVars,
                   pos, stops>>

MoveReturn(c) ==
    /\ op[c] = "woken"
    /\ Returns(c)
    /\ UNCHANGED <<commandVars, completion_sem, motor_sem, motor_cmd_mutex,
                   spi_mutex, threadVars, pos, stops>>

-----------------------------------------------------------------------------
(* motor_init_for_spi_stepping. *)

\* Any other motor is refused with -1, and nothing changes.
InitStart(c) ==
    \E m \in Motors :
       /\ CallerAt(c, "idle", "spi_lock")
       /\ req' = [req EXCEPT ![c] = [NoRequest EXCEPT !.id = m]]
       /\ UNCHANGED <<commandVars, completion_sem, motor_sem, motor_cmd_mutex,
                      spi_mutex, threadVars, pos, stops>>

\* Mutant: the bus is not locked.
InitLock_BusNotLocked(c) ==
    /\ CallerAt(c, "spi_lock", "configure")
    /\ UNCHANGED <<req, commandVars, completion_sem, motor_sem, motor_cmd_mutex,
                   spi_mutex, threadVars, pos, stops>>

InitLock(c) ==
    /\ CallerAt(c, "spi_lock", "configure")
    /\ k_mutex_lock(spi_mutex, c)
    /\ UNCHANGED <<req, commandVars, completion_sem, motor_sem, motor_cmd_mutex,
                   threadVars, pos, stops>>

\* Three writes, after each of which the caller sleeps.
InitConfigure(c) ==
    /\ op[c] = "configure"
    /\ Returns(c)
    /\ spi_mutex' = Nobody
    /\ UNCHANGED <<commandVars, completion_sem, motor_sem, motor_cmd_mutex,
                   threadVars, pos, stops>>

-----------------------------------------------------------------------------
(* stop_all_motors. *)

StopStart(c) ==
    /\ c \in Stoppers /\ stops < MaxStops
    /\ CallerAt(c, "idle", "stop_lock")
    /\ UNCHANGED <<req, commandVars, completion_sem, motor_sem, motor_cmd_mutex,
                   spi_mutex, threadVars, pos, stops>>

StopLock(c) ==
    /\ CallerAt(c, "stop_lock", "stop_clear")
    /\ k_mutex_lock(motor_cmd_mutex, c)
    /\ UNCHANGED <<req, commandVars, completion_sem, motor_sem, spi_mutex,
                   threadVars, pos, stops>>

\* Mutant: the commands are cleared and nobody is told.
StopClear_NotSignalled(c) ==
    /\ op[c] = "stop_clear"
    /\ in_use' = [m \in Motors |-> FALSE]
    /\ op' = [op EXCEPT ![c] = "idle"]
    /\ motor_cmd_mutex' = Nobody
    /\ stops' = stops + 1
    /\ UNCHANGED <<req, steps, completion_sem, motor_sem, spi_mutex, threadVars, pos>>

\* The move in progress is not aborted.
StopClear(c) ==
    /\ op[c] = "stop_clear"
    /\ in_use' = [m \in Motors |-> FALSE]
    /\ GiveCompletions(Motors, [op EXCEPT ![c] = "idle"])
    /\ motor_cmd_mutex' = Nobody
    /\ stops' = stops + 1
    /\ UNCHANGED <<req, steps, motor_sem, spi_mutex, threadVars, pos>>

-----------------------------------------------------------------------------
(* motor_thread_entry. *)

\* No caller wants the processor.
CallersOff ==
    \A c \in Callers :
       \/ op[c] \in {"idle", "pended", "configure"}
       \/ op[c] \in {"lock", "stop_lock"} /\ motor_cmd_mutex # Nobody
       \/ op[c] = "spi_lock" /\ spi_mutex # Nobody

ThreadAt(here, p) == CallersOff /\ m_pc = here /\ m_pc' = p

\* Mutant: the last slot is never looked at.
NextSlot_LastLeftOut ==
    IF slot + 1 >= NumMotors THEN m_pc' = "take" /\ slot' = 1
                             ELSE m_pc' = "lock" /\ slot' = slot + 1

\* Mutant: the loop ends one slot too late.
NextSlot_OneTooMany ==
    IF slot > NumMotors THEN m_pc' = "take" /\ slot' = 1
                        ELSE m_pc' = "lock" /\ slot' = slot + 1

\* The thread goes on with the next slot, or waits for the next command.
NextSlot ==
    IF slot = NumMotors THEN m_pc' = "take" /\ slot' = 1
                        ELSE m_pc' = "lock" /\ slot' = slot + 1

ThreadTake ==
    /\ ThreadAt("take", "lock")
    /\ motor_sem = 1
    /\ motor_sem' = 0
    /\ UNCHANGED <<callerVars, commandVars, completion_sem, motor_cmd_mutex,
                   spi_mutex, slot, todo, pos, stops>>

ThreadLock ==
    /\ ThreadAt("lock", "look")
    /\ k_mutex_lock(motor_cmd_mutex, Thread)
    /\ UNCHANGED <<callerVars, commandVars, completion_sem, motor_sem, spi_mutex,
                   slot, todo, pos, stops>>

\* A free slot is skipped; a command is copied.
ThreadLook ==
    /\ CallersOff
    /\ m_pc = "look"
    /\ IF in_use[slot]
       THEN m_pc' = "spi_lock" /\ todo' = steps[slot] /\ UNCHANGED slot
       ELSE NextSlot /\ UNCHANGED todo
    /\ motor_cmd_mutex' = Nobody
    /\ UNCHANGED <<callerVars, commandVars, completion_sem, motor_sem, spi_mutex,
                   pos, stops>>

\* The direction is written before the first step, and again with each.
ThreadDir ==
    /\ ThreadAt("spi_lock", "step")
    /\ k_mutex_lock(spi_mutex, Thread)
    /\ UNCHANGED <<callerVars, commandVars, completion_sem, motor_sem,
                   motor_cmd_mutex, slot, todo, pos, stops>>

\* One round of the stepping loop.  A write that fails is a step lost: its result
\* is not looked at.
ThreadStep ==
    /\ ThreadAt("step", "step")
    /\ todo # 0
    /\ todo' = IF todo > 0 THEN todo - 1 ELSE todo + 1
    /\ \E ok \in Outcome("spi") :
          pos' = [pos EXCEPT ![slot] = IF ~ok THEN @ ELSE IF todo > 0 THEN @ + 1 ELSE @ - 1]
    /\ UNCHANGED <<callerVars, commandVars, completion_sem, motor_sem,
                   motor_cmd_mutex, spi_mutex, slot, stops>>

ThreadStepped ==
    /\ ThreadAt("step", "done_lock")
    /\ todo = 0
    /\ spi_mutex' = Nobody
    /\ UNCHANGED <<callerVars, commandVars, completion_sem, motor_sem,
                   motor_cmd_mutex, slot, todo, pos, stops>>

ThreadDoneLock ==
    /\ ThreadAt("done_lock", "clear")
    /\ k_mutex_lock(motor_cmd_mutex, Thread)
    /\ UNCHANGED <<callerVars, commandVars, completion_sem, motor_sem, spi_mutex,
                   slot, todo, pos, stops>>

\* Mutant: the command is not marked as complete.
ThreadClear_InUseKept ==
    /\ ThreadAt("clear", "give")
    /\ motor_cmd_mutex' = Nobody
    /\ UNCHANGED <<callerVars, commandVars, completion_sem, motor_sem, spi_mutex,
                   slot, todo, pos, stops>>

ThreadClear ==
    /\ ThreadAt("clear", "give")
    /\ in_use' = [in_use EXCEPT ![slot] = FALSE]
    /\ motor_cmd_mutex' = Nobody
    /\ UNCHANGED <<callerVars, steps, completion_sem, motor_sem, spi_mutex, slot,
                   todo, pos, stops>>

\* The completion goes to a caller that waits, maybe not to the one whose move it was.
ThreadGive ==
    /\ CallersOff
    /\ m_pc = "give"
    /\ GiveCompletions({slot}, op)
    /\ NextSlot
    /\ UNCHANGED <<req, commandVars, motor_sem, motor_cmd_mutex, spi_mutex, todo,
                   pos, stops>>

-----------------------------------------------------------------------------
Call(c) == MoveStart(c) \/ InitStart(c) \/ StopStart(c)

\* Caller c goes on with its call.
Proceed(c) ==
    \/ MoveLock(c) \/ MoveCheck(c) \/ MoveBusy(c) \/ MovePublish(c)
    \/ MoveWait(c) \/ MoveReturn(c) \/ InitLock(c) \/ InitConfigure(c)
    \/ StopLock(c) \/ StopClear(c)

motor_thread_entry ==
    \/ ThreadTake \/ ThreadLock \/ ThreadLook \/ ThreadDir
    \/ ThreadStep \/ ThreadStepped \/ ThreadDoneLock \/ ThreadClear \/ ThreadGive

Next == motor_thread_entry \/ \E c \in Callers : Call(c) \/ Proceed(c)

\* A caller that can go on does, and gets a mutex that is released again and
\* again: k_mutex_unlock hands it to a thread that waits.  The callers leave the
\* processor again and again, as threads of a higher priority have to; what is
\* left is the motor thread's.
Fairness ==
    /\ \A c \in Callers : SF_vars(Proceed(c))
    /\ SF_vars(motor_thread_entry)
    /\ []<>CallersOff

Spec == Init /\ [][Next]_vars /\ Fairness

-----------------------------------------------------------------------------
(* What the motor service guarantees. *)

\* The type of every variable; semaphores stay within their limit of 1, the loop
\* of the thread within the slots (motors.c:23, 107, 334).
TypeOK ==
    /\ op \in [Callers -> Ops]
    /\ req \in [Callers -> [id : Int, steps : Int, speed_hz : Nat]]
    /\ \A c \in Callers :
          op[c] \notin {"idle", "stop_lock", "stop_clear"} => req[c].id \in Motors
    /\ in_use \in [Motors -> BOOLEAN]
    /\ steps \in [Motors -> Int]
    /\ completion_sem \in [Motors -> {0, 1}]
    /\ motor_sem \in {0, 1}
    /\ motor_cmd_mutex \in Callers \union {Nobody, Thread}
    /\ spi_mutex \in Callers \union {Nobody, Thread}
    /\ m_pc \in {"take", "lock", "look", "spi_lock", "step", "done_lock", "clear", "give"}
    /\ slot \in Motors
    /\ todo \in Int
    /\ pos \in [Motors -> Int]
    /\ stops \in Nat

\* Who is between lock and unlock of motor_cmd_mutex, and of spi_mutex.
InCommands == {c \in Callers : op[c] \in {"check", "publish", "stop_clear"}}
              \union {t \in {Thread} : m_pc \in {"look", "clear"}}
OnBus == {c \in Callers : op[c] = "configure"}
         \union {t \in {Thread} : m_pc \in {"step"}}

\* The command slots and the SPI bus each have one user at a time, in spite of
\* the sleeps inside a transfer (motors.c:6-7, 18-20).
OneAtATime ==
    /\ \A p, q \in InCommands : p = q
    /\ \A p, q \in OnBus : p = q

\* Until a stop, a move that is queued is not forgotten, though motor_sem counts to
\* 1 only and the thread may be anywhere in its scan: the thread has been or will be
\* signalled, or has not come past the slot (motors.c:312, 331-334).  After a stop
\* a move may be: a command that is queued while the thread still steps that motor
\* is cleared with the one that the stop had cleared before (motors.c:391).
NoLostWakeup ==
    stops = 0 =>
       \A m \in Motors :
          in_use[m] => \/ motor_sem = 1
                       \/ \E c \in Callers : op[c] = "wait"
                       \/ m_pc # "take" /\ slot < m
                       \/ m_pc \notin {"take", "give"} /\ slot = m

\* The callers that wait in motor_move for a move of motor m.
Clients(m) == {c \in Callers : op[c] \in {"wait", "pended"} /\ req[c].id = m}

\* Until a stop, -EBUSY is the truth: another caller's move of that motor is
\* under way (motors.c:295-300).
BusyIsTrue ==
    [][\A c \in Callers : MoveBusy(c) /\ stops = 0 => Clients(req[c].id) # {}]_vars

\* A caller that sleeps for the completion of its move has one coming: a command
\* of its motor is queued or being made, or the thread is about to give.  So no
\* interleaving of callers, thread and one stop_all_motors takes the last unit
\* away from under a caller (motors.c:319, 391-396, 410-412).  A second stop is left
\* out: completion_sem counts to 1, and its unit may be lost.
NobodyStranded ==
    stops <= 1 => \A c \in Callers : op[c] = "pended" =>
       in_use[req[c].id] \/ (slot = req[c].id /\ m_pc = "give")

\* The steps of motor m that are still to be made.
Owed(m) ==
    IF slot = m /\ m_pc \in {"spi_lock", "step", "done_lock", "clear"}
    THEN todo ELSE IF in_use[m] THEN steps[m] ELSE 0

Service(m) == INSTANCE MotorService WITH
    Users <- Callers, Lossless <- "spi" \notin Faults,
    clients <- Clients(m), owed <- Owed(m), pos <- pos[m], void <- stops > 0

\* Each motor implements the abstract service: moves are made once and in full,
\* and motor_move does not return to its only caller before (motors.c:278-402).
\* This is \A m \in Motors : Service(m)!Spec, in the form that TLC checks.
ServiceSpec ==
    /\ \A m \in Motors : Service(m)!Init
    /\ [][\A m \in Motors : [Service(m)!Next]_(Service(m)!vars)]_vars

\* Caller c and another wait for moves of the same motor.
Shares(c) == \E d \in Callers \ {c} : {c, d} \subseteq Clients(req[c].id)

\* Every call returns, also when stop_all_motors comes in at any point, unless
\* the caller comes to share the completion of its motor: another one that asks
\* for that motor between ThreadClear and ThreadGive may take its unit, again
\* and again (motors.c:297 "(deadlock)", 319, 391-396, 412).
CallsReturn ==
    \A c \in Callers : op[c] # "idle" ~> (op[c] = "idle" \/ Shares(c))

=============================================================================
