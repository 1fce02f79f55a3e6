---------------------------- MODULE CoolingUse ------------------------------
(***************************************************************************)
(* The fans on their own, under a caller that starts and stops the cooling *)
(* in any order, a bounded number of times.  StateMachine starts it once   *)
(* per candle; here it may be started twice in a row, which is what it     *)
(* takes for the monitoring loop to be entered.                            *)
(***************************************************************************)
EXTENDS Cooling

\* The number of calls the caller makes.
CONSTANT MaxCalls

ASSUME MaxCallsAssumption == MaxCalls \in Nat

VARIABLES
    calls,       \* the calls made so far
    last_call    \* the latest of them

vars == <<coolingVars, calls, last_call>>

Init ==
    /\ CoolingInit
    /\ calls = 0
    /\ last_call = "none"

\* The caller is main, which has the highest priority.
Call(name) ==
    /\ calls < MaxCalls
    /\ calls' = calls + 1
    /\ last_call' = name

Start == Call("start") /\ \E oks \in FanOutcomes : start_cooling(oks)
Stop  == Call("stop")  /\ \E oks \in FanOutcomes : stop_cooling(oks)

Thread == TachThread /\ UNCHANGED <<calls, last_call>>

Next == Start \/ Stop \/ Thread

\* The thread always gets to run; the caller need not call.
Spec == Init /\ [][Next]_vars /\ WF_vars(Thread)

-----------------------------------------------------------------------------
\* The type of every variable; a duty cycle, which the code keeps in a uint8_t,
\* stays between 0 and 100 under any sequence of steps (cooling.c:266, 270).
TypeOK ==
    /\ CoolingTypeOK
    /\ calls \in 0..MaxCalls
    /\ last_call \in {"none", "start", "stop"}

\* What the code would read of fan f now.
SpeedOf(f) == RpmOf(Pulses(f))

\* The fan runs within the band, or as close to it as it can.
Settled(f) ==
    \/ ~TooFast(SpeedOf(f)) /\ ~TooSlow(SpeedOf(f))
    \/ TooSlow(SpeedOf(f)) /\ fan_pwm[f] = 100
    \/ TooFast(SpeedOf(f)) /\ fan_pwm[f] = 0

\* While the loop goes on, the control settles: from some point on both fans
\* stay within the band, with no hunting around it (cooling.c:259-286).
ControlSettles == <>[](cooling_sem = 0 \/ \A f \in Fans : Settled(f))

\* The thread has sampled fan f and not yet driven it again.
Sampled(f) ==
    \/ tach_pc = "read" /\ f < tach_fan
    \/ tach_pc \in {"adjust", "pwm"} /\ tach_fan <= f
    \/ tach_pc = "keep" /\ tach_fan < f

\* What the thread knows of fan f is true: its sample is the fan's speed, and its
\* record the duty cycle that the fan is driven with, or is about to be.  A call of
\* main in the middle of a round makes it untrue until the thread's next sample.
Steady(f) ==
    /\ Sampled(f) => rpm[f] = SpeedOf(f)
    /\ CASE tach_pc = "pwm" /\ tach_fan = f ->
              IF TooFast(rpm[f]) THEN tach_duty = SlowDown(fan_pwm[f])
                                 ELSE TooSlow(rpm[f]) /\ tach_duty = SpeedUp(fan_pwm[f])
         [] tach_pc = "keep" /\ tach_fan = f -> tach_duty = fan_pwm[f]
         [] OTHER -> current_duty[f] = fan_pwm[f]

\* No step of the thread makes this untrue, drives a fan that is in the band, drives
\* it away from the band, or drives it across: the band is wider than one step of
\* duty for every fan of 84 rpm or less to the percent (cooling.c:20-22, 264-284).
NoHunting ==
    [][\A f \in Fans : Thread /\ Steady(f) =>
          /\ Steady(f)'
          /\ fan_pwm'[f] # fan_pwm[f] => TooFast(SpeedOf(f)) \/ TooSlow(SpeedOf(f))
          /\ TooFast(SpeedOf(f)) => fan_pwm'[f] <= fan_pwm[f] /\ ~TooSlow(SpeedOf(f)')
          /\ TooSlow(SpeedOf(f)) => fan_pwm'[f] >= fan_pwm[f] /\ ~TooFast(SpeedOf(f)')]_vars

\* After a last stop the monitoring comes to an end, wherever in its loop the
\* thread was (cooling.c:170, 256-259).
StopEndsMonitoring ==
    (calls = MaxCalls /\ last_call = "stop") ~> (tach_pc = "pend")

\* cooling.h:17-18 "stops the fans (duty cycle -> 0)", which stop_cooling is to
\* do: the fans are still once it has been called and the monitoring is over.
StoppedFansStayOff ==
    last_call = "stop" /\ tach_pc = "pend" => \A f \in Fans : fan_pwm[f] = 0

=============================================================================
