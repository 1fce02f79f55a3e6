------------------------------ MODULE Cooling -------------------------------
(***************************************************************************)
(* src/src/cooling.c: the two fans, start_cooling and stop_cooling, and    *)
(* the thread that holds each fan near OPERATING_SPEED_RPM while the       *)
(* cooling semaphore is up.                                                *)
(*                                                                         *)
(* Main may take over from the tach thread anywhere.  The thread is cut    *)
(* where that can make a difference: before it tests the semaphore, at the *)
(* end of each one-second sample, and before and after it drives the PWM   *)
(* with the duty cycle it has computed.                                    *)
(***************************************************************************)
EXTENDS Integers, Zephyr

\* The fans themselves: revolutions per minute for one percent of duty cycle.
CONSTANT Gains

ASSUME GainsAssumption == Gains \subseteq Nat

VARIABLES
    fan_pwm,       \* duty cycle each fan is driven with, in percent
    current_duty,  \* current_duty_fan1, current_duty_fan2
    cooling_sem,   \* count of the semaphore, at most 1
    tach_pc,       \* where tach_monitoring_thread is
    tach_fan,      \* the fan it is sampling or adjusting
    rpm,           \* its rpm1 and rpm2
    tach_duty,     \* the argument of its set_fan1 or set_fan2
    fan_gain       \* the fans; never changes

coolingVars == <<fan_pwm, current_duty, cooling_sem, tach_pc, tach_fan, rpm,
                 tach_duty, fan_gain>>

Fans == {1, 2}

OPERATING_SPEED_RPM == 2000
\* Mutant: a band narrower than one step of duty.
SPEED_ERROR_RPM_Narrow == 20
SPEED_ERROR_RPM     == 200
DUTY_STEP           == 5
PULSES_PER_REV      == 2
START_DUTY          == 50

CoolingTypeOK ==
    /\ fan_pwm \in [Fans -> 0..100]
    /\ current_duty \in [Fans -> 0..100]
    /\ cooling_sem \in {0, 1}
    /\ tach_pc \in {"take", "pend", "test", "read", "adjust", "pwm", "keep", "pause"}
    /\ tach_fan \in Fans
    /\ rpm \in [Fans -> Nat]
    /\ tach_duty \in 0..100
    /\ fan_gain \in [Fans -> Gains]

CoolingInit ==
    /\ fan_pwm = [f \in Fans |-> 0]
    /\ current_duty = [f \in Fans |-> 0]
    /\ cooling_sem = 0
    /\ tach_pc = "take"
    /\ tach_fan = 1
    /\ rpm = [f \in Fans |-> 0]
    /\ tach_duty = 0
    /\ fan_gain \in [Fans -> Gains]

-----------------------------------------------------------------------------
(* The kernel's semaphore: whoever waits for it is woken first. *)

\* A thread that waits gets the unit; the count rises only when none waits.
k_sem_give ==
    IF tach_pc = "pend"
    THEN tach_pc' = "test" /\ UNCHANGED cooling_sem
    ELSE cooling_sem' = 1 /\ UNCHANGED tach_pc

\* Takes the count to 0 and sends a waiting thread on with -EAGAIN, which
\* tach_monitoring_thread does not look at.
k_sem_reset ==
    /\ cooling_sem' = 0
    /\ tach_pc' = IF tach_pc = "pend" THEN "test" ELSE tach_pc

-----------------------------------------------------------------------------
(* Called by main; oks tells which PWM channels accept the call. *)

\* Both duty cycles are recorded, whether or not the PWM takes them.
start_cooling(oks) ==
    /\ current_duty' = [f \in Fans |-> START_DUTY]
    /\ fan_pwm' = [f \in Fans |-> IF oks[f] THEN START_DUTY ELSE fan_pwm[f]]
    /\ k_sem_give
    /\ UNCHANGED <<tach_fan, rpm, tach_duty, fan_gain>>

\* The records are cleared only when both channels accept.
stop_fans(oks) ==
    /\ fan_pwm' = [f \in Fans |-> IF oks[f] THEN 0 ELSE fan_pwm[f]]
    /\ current_duty' = IF \A f \in Fans : oks[f]
                       THEN [f \in Fans |-> 0] ELSE current_duty

\* ok is whether the PWM and tach devices are ready and take their configuration.
cooling_init(ok, oks) ==
    /\ IF ok THEN stop_fans(oks) ELSE UNCHANGED <<fan_pwm, current_duty>>
    /\ UNCHANGED <<cooling_sem, tach_pc, tach_fan, rpm, tach_duty, fan_gain>>

\* Mutant: the semaphore is not reset.
stop_cooling_SemKept(oks) ==
    /\ stop_fans(oks)
    /\ UNCHANGED <<cooling_sem, tach_pc, tach_fan, rpm, tach_duty, fan_gain>>

stop_cooling(oks) ==
    /\ k_sem_reset
    /\ stop_fans(oks)
    /\ UNCHANGED <<tach_fan, rpm, tach_duty, fan_gain>>

FanOutcomes == [Fans -> Outcome("fan_pwm")]

-----------------------------------------------------------------------------
(* tach_monitoring_thread. *)

\* k_sem_take(.., K_FOREVER).
TachTake ==
    /\ tach_pc = "take"
    /\ IF cooling_sem = 1
       THEN cooling_sem' = 0 /\ tach_pc' = "test"
       ELSE UNCHANGED cooling_sem /\ tach_pc' = "pend"
    /\ UNCHANGED <<fan_pwm, current_duty, tach_fan, rpm, tach_duty, fan_gain>>

\* The condition of the monitoring loop; inside, fan 1 is sampled first.
TachTest ==
    /\ tach_pc = "test"
    /\ tach_pc' = IF cooling_sem > 0 THEN "read" ELSE "take"
    /\ tach_fan' = 1
    /\ UNCHANGED <<fan_pwm, current_duty, cooling_sem, rpm, tach_duty, fan_gain>>

\* Pulses the fan sends in one second at its present duty cycle, and the speed
\* the code makes of them.
Pulses(f)    == (fan_gain[f] * fan_pwm[f] * PULSES_PER_REV) \div 60
RpmOf(count) == (count * 60) \div PULSES_PER_REV

\* The end of a sample of one second.
TachRead ==
    /\ tach_pc = "read"
    /\ rpm' = [rpm EXCEPT ![tach_fan] = RpmOf(Pulses(tach_fan))]
    /\ IF tach_fan = 1
       THEN tach_fan' = 2 /\ UNCHANGED tach_pc
       ELSE tach_fan' = 1 /\ tach_pc' = "adjust"
    /\ UNCHANGED <<fan_pwm, current_duty, cooling_sem, tach_duty, fan_gain>>

TooFast(r) == r > OPERATING_SPEED_RPM + SPEED_ERROR_RPM
TooSlow(r) == r < OPERATING_SPEED_RPM - SPEED_ERROR_RPM

SlowDown(duty) == IF duty > DUTY_STEP THEN duty - DUTY_STEP ELSE 0
\* Mutant: the step is added without a limit.
SpeedUp_NoLimit(duty) == duty + DUTY_STEP
SpeedUp(duty)  == IF duty < 100 - DUTY_STEP THEN duty + DUTY_STEP ELSE 100

\* After one fan comes the other; after fan 2, a pause of 500 ms.
NextFan ==
    /\ tach_fan' = 3 - tach_fan
    /\ tach_pc' = IF tach_fan = 1 THEN "adjust" ELSE "pause"

\* Compares one fan's speed with the band and computes its new duty cycle.
TachAdjust ==
    /\ tach_pc = "adjust"
    /\ LET duty == current_duty[tach_fan]
           new  == IF TooFast(rpm[tach_fan]) THEN SlowDown(duty) ELSE SpeedUp(duty)
       IN  IF TooFast(rpm[tach_fan]) \/ TooSlow(rpm[tach_fan])
           THEN /\ current_duty' = [current_duty EXCEPT ![tach_fan] = new]
                /\ tach_duty' = new
                /\ tach_pc' = "pwm"
                /\ UNCHANGED tach_fan
           ELSE NextFan /\ UNCHANGED <<current_duty, tach_duty>>
    /\ UNCHANGED <<fan_pwm, cooling_sem, rpm, fan_gain>>

\* set_fan1, set_fan2: drives the PWM; on an error returns without recording.
TachPwm ==
    /\ tach_pc = "pwm"
    /\ \E ok \in Outcome("fan_pwm") :
          IF ok
          THEN /\ fan_pwm' = [fan_pwm EXCEPT ![tach_fan] = tach_duty]
               /\ tach_pc' = "keep"
               /\ UNCHANGED tach_fan
          ELSE NextFan /\ UNCHANGED fan_pwm
    /\ UNCHANGED <<current_duty, cooling_sem, rpm, tach_duty, fan_gain>>

\* The last assignment of set_fan1, set_fan2.
TachKeep ==
    /\ tach_pc = "keep"
    /\ current_duty' = [current_duty EXCEPT ![tach_fan] = tach_duty]
    /\ NextFan
    /\ UNCHANGED <<fan_pwm, cooling_sem, rpm, tach_duty, fan_gain>>

TachPause ==
    /\ tach_pc = "pause"
    /\ tach_pc' = "test"
    /\ UNCHANGED <<fan_pwm, current_duty, cooling_sem, tach_fan, rpm,
                   tach_duty, fan_gain>>

TachThread ==
    TachTake \/ TachTest \/ TachRead \/ TachAdjust \/ TachPwm \/ TachKeep
    \/ TachPause

\* The thread sleeps or waits for the semaphore.
TachWaits == tach_pc \in {"pend", "read", "pause"}

=============================================================================
