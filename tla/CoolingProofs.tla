--------------------------- MODULE CoolingProofs ----------------------------
(***************************************************************************)
(* Lemmas about Cooling: the types of the fans' state, for every choice of *)
(* fans and of failing drivers.                                            *)
(***************************************************************************)
EXTENDS Cooling, TLAPS

\* The arithmetic of Pulses and RpmOf stays in the natural numbers.
LEMMA SpeedArithmetic ==
  ASSUME NEW g \in Nat, NEW d \in Nat
  PROVE  ((((g * d) * 2) \div 60) * 60) \div 2 \in Nat
<1>1. g * d \in Nat
  OBVIOUS
<1>2. ((g * d) * 2) \div 60 \in Nat
  BY <1>1
<1>3. QED
  BY <1>2

\* A speed made of a count of pulses is a natural number.
LEMMA SpeedType ==
  ASSUME CoolingTypeOK, NEW f \in Fans
  PROVE  RpmOf(Pulses(f)) \in Nat
<1>1. fan_gain[f] \in Nat
  BY GainsAssumption DEF CoolingTypeOK
<1>2. fan_pwm[f] \in Nat
  BY DEF CoolingTypeOK
<1>3. QED
  BY <1>1, <1>2 DEF RpmOf, Pulses, PULSES_PER_REV

\* The two changes of a duty cycle stay between 0 and 100.
LEMMA DutyInRange ==
  ASSUME NEW duty \in 0..100
  PROVE  SlowDown(duty) \in 0..100 /\ SpeedUp(duty) \in 0..100
  BY DEF SlowDown, SpeedUp, DUTY_STEP

\* No step of the tach thread leaves the types of cooling.c's state.
LEMMA TachThreadType == CoolingTypeOK /\ TachThread => CoolingTypeOK'
<1> SUFFICES ASSUME CoolingTypeOK, TachThread PROVE CoolingTypeOK'
  OBVIOUS
<1>1. CASE TachTake
  BY <1>1 DEF TachTake, CoolingTypeOK
<1>2. CASE TachTest
  BY <1>2 DEF TachTest, CoolingTypeOK, Fans
<1>3. CASE TachRead
  <2>1. RpmOf(Pulses(tach_fan)) \in Nat
    BY SpeedType DEF CoolingTypeOK
  <2>2. QED
    BY <1>3, <2>1 DEF TachRead, CoolingTypeOK, Fans
<1>4. CASE TachAdjust
  <2>1. current_duty[tach_fan] \in 0..100
    BY DEF CoolingTypeOK
  <2>2. /\ SlowDown(current_duty[tach_fan]) \in 0..100
        /\ SpeedUp(current_duty[tach_fan]) \in 0..100
    BY <2>1, DutyInRange
  <2>3. QED
    BY <1>4, <2>2 DEF TachAdjust, NextFan, CoolingTypeOK, Fans
<1>5. CASE TachPwm
  BY <1>5 DEF TachPwm, NextFan, CoolingTypeOK, Fans
<1>6. CASE TachKeep
  BY <1>6 DEF TachKeep, NextFan, CoolingTypeOK, Fans
<1>7. CASE TachPause
  BY <1>7 DEF TachPause, CoolingTypeOK
<1>8. QED
  BY <1>1, <1>2, <1>3, <1>4, <1>5, <1>6, <1>7 DEF TachThread

\* Neither do the calls that main makes.
LEMMA CoolingCallsType ==
  ASSUME CoolingTypeOK, NEW oks
  PROVE  /\ start_cooling(oks) => CoolingTypeOK'
         /\ stop_cooling(oks) => CoolingTypeOK'
  BY DEF start_cooling, stop_cooling, stop_fans, k_sem_give, k_sem_reset,
     START_DUTY, CoolingTypeOK

\* The state at power-up has these types.
LEMMA CoolingInitType == CoolingInit => CoolingTypeOK
  BY DEF CoolingInit, CoolingTypeOK, Fans

\* A speed is the fan's own, cut to a multiple of 30 rpm: the pulses of a second are
\* a whole number (cooling.c:131-135).
LEMMA SpeedIsCut ==
  ASSUME NEW n \in Nat
  PROVE  \E q \in Nat : /\ (((n * 2) \div 60) * 60) \div 2 = 30 * q
                        /\ 30 * q <= n /\ n < 30 * q + 30
<1> DEFINE q == (n * 2) \div 60
<1>1. q \in Nat /\ 60 * q <= n * 2 /\ n * 2 < 60 * q + 60
  OBVIOUS
<1>2. (q * 60) \div 2 = 30 * q
  BY <1>1
<1>3. QED
  BY <1>1, <1>2

\* For fans of 84 rpm or less to the percent no step of duty leads across the band.
LEMMA StepInBand ==
  ASSUME NEW g \in 0..84, NEW d \in 0..100, NEW e \in 0..100,
         d - e <= DUTY_STEP, e - d <= DUTY_STEP
  PROVE  /\ TooFast(RpmOf((g * d * PULSES_PER_REV) \div 60))
               => ~TooSlow(RpmOf((g * e * PULSES_PER_REV) \div 60))
         /\ TooSlow(RpmOf((g * d * PULSES_PER_REV) \div 60))
               => ~TooFast(RpmOf((g * e * PULSES_PER_REV) \div 60))
<1> DEFINE n == g * d
           k == g * e
<1>1. n \in Nat /\ k \in Nat
  OBVIOUS
<1>2. n - k <= 420 /\ k - n <= 420
  <2>1. g * (d - e) <= 84 * 5 /\ g * (e - d) <= 84 * 5
    <3>1. \A x \in Int : x <= 5 => g * x <= 84 * 5
      <4> SUFFICES ASSUME NEW x \in Int, x <= 5 PROVE g * x <= 420
        OBVIOUS
      <4>1. CASE x <= 0
        BY <4>1
      <4>2. CASE x \in {1, 2, 3, 4, 5}
        BY <4>2
      <4>3. QED
        BY <4>1, <4>2
    <3>2. d - e \in Int /\ e - d \in Int /\ d - e <= 5 /\ e - d <= 5
      BY DEF DUTY_STEP
    <3>3. QED
      BY <3>1, <3>2
  <2>2. g * (d - e) = n - k /\ g * (e - d) = k - n
    OBVIOUS
  <2>3. QED
    BY <2>1, <2>2
<1> HIDE DEF n, k
<1>3. PICK p \in Nat : RpmOf((n * PULSES_PER_REV) \div 60) = 30 * p
                       /\ 30 * p <= n /\ n < 30 * p + 30
  BY <1>1, SpeedIsCut DEF RpmOf, PULSES_PER_REV
<1>4. PICK q \in Nat : RpmOf((k * PULSES_PER_REV) \div 60) = 30 * q
                       /\ 30 * q <= k /\ k < 30 * q + 30
  BY <1>1, SpeedIsCut DEF RpmOf, PULSES_PER_REV
<1>5. ~(30 * p > 2200 /\ 30 * q < 1800) /\ ~(30 * p < 1800 /\ 30 * q > 2200)
  BY <1>1, <1>2, <1>3, <1>4
<1>6. ~(TooFast(30 * p) /\ TooSlow(30 * q)) /\ ~(TooSlow(30 * p) /\ TooFast(30 * q))
  BY <1>5 DEF TooFast, TooSlow, OPERATING_SPEED_RPM, SPEED_ERROR_RPM
<1>7. QED
  BY <1>3, <1>4, <1>6 DEF n, k

\* The two changes of a duty cycle are one step, in their direction.
LEMMA DutySteps ==
  ASSUME NEW d \in 0..100
  PROVE  /\ SlowDown(d) <= d /\ d - SlowDown(d) <= DUTY_STEP
         /\ d <= SpeedUp(d) /\ SpeedUp(d) - d <= DUTY_STEP
  BY DEF SlowDown, SpeedUp, DUTY_STEP

=============================================================================
