-------------------------- MODULE CoolingUseProofs --------------------------
(***************************************************************************)
(* Theorems about CoolingUse, for every choice of fans, of failing drivers *)
(* and of the number of calls.                                             *)
(***************************************************************************)
EXTENDS CoolingUse, CoolingProofs

\* TypeOK holds under any sequence of starts and stops, wherever in its loop the
\* tach thread is (src/src/cooling.c:66-92, 158-173, 264-284): a duty cycle never
\* leaves 0..100, so the uint8_t that keeps it neither wraps nor asks for a pulse
\* longer than the period.
THEOREM DutyTypeCorrect == Spec => []TypeOK
<1>1. Init => TypeOK
  BY CoolingInitType, MaxCallsAssumption DEF Init, TypeOK
<1>2. TypeOK /\ [Next]_vars => TypeOK'
  <2> SUFFICES ASSUME TypeOK, [Next]_vars PROVE TypeOK'
    OBVIOUS
  <2>0. CoolingTypeOK
    BY DEF TypeOK
  <2>1. ASSUME NEW name \in {"start", "stop"}, Call(name)
        PROVE  calls' \in 0..MaxCalls /\ last_call' \in {"none", "start", "stop"}
    BY <2>1, MaxCallsAssumption DEF Call, TypeOK
  <2>2. CASE Start
    <3>1. PICK oks \in FanOutcomes : start_cooling(oks)
      BY <2>2 DEF Start
    <3>2. CoolingTypeOK'
      BY <2>0, <3>1, CoolingCallsType
    <3>3. QED
      BY <2>1, <2>2, <3>2 DEF Start, TypeOK
  <2>3. CASE Stop
    <3>1. PICK oks \in FanOutcomes : stop_cooling(oks)
      BY <2>3 DEF Stop
    <3>2. CoolingTypeOK'
      BY <2>0, <3>1, CoolingCallsType
    <3>3. QED
      BY <2>1, <2>3, <3>2 DEF Stop, TypeOK
  <2>4. CASE Thread
    <3>1. CoolingTypeOK'
      BY <2>0, <2>4, TachThreadType DEF Thread
    <3>2. QED
      BY <2>4, <3>1 DEF Thread, TypeOK
  <2>5. CASE UNCHANGED vars
    <3>1. CoolingTypeOK'
      BY <2>5, <2>0 DEF vars, coolingVars, CoolingTypeOK
    <3>2. QED
      BY <2>5, <3>1 DEF vars, TypeOK
  <2>6. QED
    BY <2>2, <2>3, <2>4, <2>5 DEF Next
<1>3. QED
  BY <1>1, <1>2, PTL DEF Spec

-----------------------------------------------------------------------------
(* NoHunting. *)

\* The duty cycle that the thread has computed from a true sample is one step from
\* the present one, towards the band and not across it.
LEMMA ComputedStep ==
  ASSUME CoolingTypeOK, Gains \subseteq 0..84, NEW f \in Fans, NEW new,
         IF TooFast(SpeedOf(f)) THEN new = SlowDown(fan_pwm[f])
                                ELSE TooSlow(SpeedOf(f)) /\ new = SpeedUp(fan_pwm[f])
  PROVE  /\ TooFast(SpeedOf(f)) =>
               /\ new <= fan_pwm[f]
               /\ ~TooSlow(RpmOf((fan_gain[f] * new * PULSES_PER_REV) \div 60))
         /\ TooSlow(SpeedOf(f)) =>
               /\ new >= fan_pwm[f]
               /\ ~TooFast(RpmOf((fan_gain[f] * new * PULSES_PER_REV) \div 60))
<1>1. fan_gain[f] \in 0..84 /\ fan_pwm[f] \in 0..100
  BY DEF CoolingTypeOK
<1>2. SpeedOf(f) = RpmOf((fan_gain[f] * fan_pwm[f] * PULSES_PER_REV) \div 60)
  BY DEF SpeedOf, Pulses
<1>3. SpeedOf(f) \in Nat
  BY SpeedType DEF SpeedOf
<1>4. ~(TooFast(SpeedOf(f)) /\ TooSlow(SpeedOf(f)))
  BY <1>3 DEF TooFast, TooSlow, OPERATING_SPEED_RPM, SPEED_ERROR_RPM
<1>5. new \in 0..100 /\ fan_pwm[f] - new <= DUTY_STEP /\ new - fan_pwm[f] <= DUTY_STEP
      /\ (TooFast(SpeedOf(f)) => new <= fan_pwm[f])
      /\ (TooSlow(SpeedOf(f)) => new >= fan_pwm[f])
  <2>1. CASE TooFast(SpeedOf(f))
    <3>1. new = SlowDown(fan_pwm[f]) /\ new \in 0..100
      BY <1>1, <2>1, DutyInRange
    <3>2. new <= fan_pwm[f] /\ fan_pwm[f] - new <= DUTY_STEP
      BY <1>1, <3>1, DutySteps
    <3>3. QED
      BY <1>1, <1>4, <2>1, <3>1, <3>2 DEF DUTY_STEP
  <2>2. CASE ~TooFast(SpeedOf(f))
    <3>1. new = SpeedUp(fan_pwm[f]) /\ new \in 0..100
      BY <1>1, <2>2, DutyInRange
    <3>2. fan_pwm[f] <= new /\ new - fan_pwm[f] <= DUTY_STEP
      BY <1>1, <3>1, DutySteps
    <3>3. QED
      BY <1>1, <2>2, <3>1, <3>2 DEF DUTY_STEP
  <2>3. QED
    BY <2>1, <2>2
<1>6. QED
  BY <1>1, <1>2, <1>5, StepInBand

\* If the thread's knowledge of a fan is true, so it is after each of its steps.
LEMMA SteadyStays ==
  ASSUME CoolingTypeOK, "fan_pwm" \notin Faults, NEW f \in Fans, Steady(f), Thread
  PROVE  Steady(f)'
<1> USE DEF Steady, Sampled, SpeedOf
<1>0. tach_fan \in {1, 2} /\ f \in {1, 2} /\ current_duty \in [Fans -> 0..100]
      /\ fan_pwm \in [Fans -> 0..100] /\ rpm \in [Fans -> Nat]
  BY DEF CoolingTypeOK, Fans
<1>1. CASE TachTake
  BY <1>0, <1>1 DEF TachTake, Pulses
<1>2. CASE TachTest
  BY <1>0, <1>2 DEF TachTest, Pulses
<1>3. CASE TachRead
  <2>1. Pulses(f)' = Pulses(f)
    BY <1>3 DEF TachRead, Pulses
  <2>2. rpm'[f] = IF f = tach_fan THEN RpmOf(Pulses(f)) ELSE rpm[f]
    BY <1>0, <1>3 DEF TachRead
  <2>3. QED
    BY <1>0, <1>3, <2>1, <2>2 DEF TachRead
<1>4. CASE TachAdjust
  <2>1. Pulses(f)' = Pulses(f) /\ rpm' = rpm /\ fan_pwm' = fan_pwm /\ tach_pc = "adjust"
    BY <1>4 DEF TachAdjust, Pulses
  <2>2. CASE TooFast(rpm[tach_fan]) \/ TooSlow(rpm[tach_fan])
    <3>1. /\ tach_pc' = "pwm" /\ tach_fan' = tach_fan
          /\ \E new : /\ new = IF TooFast(rpm[tach_fan]) THEN SlowDown(current_duty[tach_fan])
                                                    ELSE SpeedUp(current_duty[tach_fan])
                      /\ current_duty' = [current_duty EXCEPT ![tach_fan] = new]
                      /\ tach_duty' = new
      BY <1>4, <2>2 DEF TachAdjust
    <3>2. QED
      BY <1>0, <2>1, <2>2, <3>1
  <2>3. CASE ~(TooFast(rpm[tach_fan]) \/ TooSlow(rpm[tach_fan]))
    <3>1. NextFan /\ current_duty' = current_duty
      BY <1>4, <2>3 DEF TachAdjust
    <3>2. QED
      BY <1>0, <2>1, <3>1 DEF NextFan
  <2>4. QED
    BY <2>2, <2>3
<1>5. CASE TachPwm
  <2>1. /\ tach_pc = "pwm" /\ tach_pc' = "keep" /\ tach_fan' = tach_fan
        /\ fan_pwm' = [fan_pwm EXCEPT ![tach_fan] = tach_duty]
        /\ UNCHANGED <<current_duty, rpm, tach_duty, fan_gain>>
    BY <1>5 DEF TachPwm, Outcome
  <2>2. CASE f = tach_fan
    BY <1>0, <2>1, <2>2
  <2>3. CASE f # tach_fan
    BY <1>0, <2>1, <2>3 DEF Pulses
  <2>4. QED
    BY <2>2, <2>3
<1>6. CASE TachKeep
  BY <1>0, <1>6 DEF TachKeep, NextFan, Pulses
<1>7. CASE TachPause
  BY <1>0, <1>7 DEF TachPause, Pulses
<1>8. QED
  BY <1>1, <1>2, <1>3, <1>4, <1>5, <1>6, <1>7 DEF Thread, TachThread

\* Whatever main calls in between, the thread that knows the truth of a fan goes on
\* knowing it and drives the fan only towards the band, never across: for all fans
\* of 84 rpm or less to the percent and a PWM that takes its settings
\* (cooling.c:264-284).
THEOREM NeverHunts ==
  ASSUME Gains \subseteq 0..84, "fan_pwm" \notin Faults
  PROVE  Spec => NoHunting
<1>1. ASSUME TypeOK, NEW f \in Fans, Thread, Steady(f)
      PROVE  /\ Steady(f)'
             /\ fan_pwm'[f] # fan_pwm[f] => TooFast(SpeedOf(f)) \/ TooSlow(SpeedOf(f))
             /\ TooFast(SpeedOf(f)) => fan_pwm'[f] <= fan_pwm[f] /\ ~TooSlow(SpeedOf(f)')
             /\ TooSlow(SpeedOf(f)) => fan_pwm'[f] >= fan_pwm[f] /\ ~TooFast(SpeedOf(f)')
  <2>0. CoolingTypeOK
    BY <1>1 DEF TypeOK
  <2>1. Steady(f)'
    BY <1>1, <2>0, SteadyStays
  <2>2. CASE TachPwm /\ tach_fan = f
    <3>1. tach_pc = "pwm" /\ fan_pwm'[f] = tach_duty /\ fan_gain' = fan_gain
      BY <2>0, <2>2 DEF TachPwm, Outcome, CoolingTypeOK
    <3>2. IF TooFast(SpeedOf(f)) THEN tach_duty = SlowDown(fan_pwm[f])
                                 ELSE TooSlow(SpeedOf(f)) /\ tach_duty = SpeedUp(fan_pwm[f])
      <4>1. rpm[f] = SpeedOf(f)
        BY <1>1, <2>2, <3>1 DEF Steady, Sampled, Fans
      <4>2. QED
        BY <1>1, <2>2, <3>1, <4>1 DEF Steady
    <3>3. SpeedOf(f)' = RpmOf((fan_gain[f] * tach_duty * PULSES_PER_REV) \div 60)
      BY <3>1 DEF SpeedOf, Pulses
    <3>4. QED
      BY <2>0, <2>1, <3>1, <3>2, <3>3, ComputedStep
  <2>3. CASE ~(TachPwm /\ tach_fan = f)
    <3>1. fan_pwm'[f] = fan_pwm[f] /\ fan_gain' = fan_gain
      BY <1>1, <2>0, <2>3 DEF Thread, TachThread, TachTake, TachTest, TachRead, TachAdjust,
         TachPwm, TachKeep, TachPause, CoolingTypeOK
    <3>2. SpeedOf(f)' = SpeedOf(f) /\ SpeedOf(f) \in Nat /\ fan_pwm[f] \in 0..100
      BY <2>0, <3>1, SpeedType DEF SpeedOf, Pulses, CoolingTypeOK
    <3>3. ~(TooFast(SpeedOf(f)) /\ TooSlow(SpeedOf(f)))
      BY <3>2 DEF TooFast, TooSlow, OPERATING_SPEED_RPM, SPEED_ERROR_RPM
    <3>4. QED
      BY <2>1, <3>1, <3>2, <3>3
  <2>4. QED
    BY <2>2, <2>3
<1>2. TypeOK => [\A f \in Fans : Thread /\ Steady(f) =>
          /\ Steady(f)'
          /\ fan_pwm'[f] # fan_pwm[f] => TooFast(SpeedOf(f)) \/ TooSlow(SpeedOf(f))
          /\ TooFast(SpeedOf(f)) => fan_pwm'[f] <= fan_pwm[f] /\ ~TooSlow(SpeedOf(f)')
          /\ TooSlow(SpeedOf(f)) => fan_pwm'[f] >= fan_pwm[f] /\ ~TooFast(SpeedOf(f)')]_vars
  BY <1>1
<1>3. QED
  BY <1>2, DutyTypeCorrect, PTL DEF NoHunting

\* The thread comes to know the truth: it does when the fans are first started, and
\* any call of main that comes between two of its rounds leaves it so.  What is left
\* are the calls that come in the middle of a round (cooling.c:158-173, 256-286).
THEOREM SteadyFromCalls ==
  ASSUME "fan_pwm" \notin Faults
  PROVE  Spec => [][(Start \/ Stop) /\ tach_pc \in {"take", "pend", "test", "pause"}
                       => \A f \in Fans : Steady(f)']_vars
<1>1. ASSUME TypeOK, Start \/ Stop, tach_pc \in {"take", "pend", "test", "pause"},
             NEW f \in Fans
      PROVE  Steady(f)'
  <2>1. \A oks \in FanOutcomes : \A g \in Fans : oks[g]
    BY DEF FanOutcomes, Outcome
  <2>2. tach_pc' \in {"take", "pend", "test", "pause"}
    BY <1>1 DEF Start, Stop, start_cooling, stop_cooling, k_sem_give, k_sem_reset
  <2>3. current_duty'[f] = fan_pwm'[f]
    <3>1. CASE Start
      BY <2>1, <3>1 DEF Start, start_cooling
    <3>2. CASE Stop
      BY <2>1, <3>2 DEF Stop, stop_cooling, stop_fans
    <3>3. QED
      BY <1>1, <3>1, <3>2
  <2>4. QED
    BY <2>2, <2>3 DEF Steady, Sampled
<1>2. TypeOK => [(Start \/ Stop) /\ tach_pc \in {"take", "pend", "test", "pause"}
                    => \A f \in Fans : Steady(f)']_vars
  BY <1>1
<1>3. QED
  BY <1>2, DutyTypeCorrect, PTL

=============================================================================
