------------------------------ MODULE Sensors -------------------------------
(***************************************************************************)
(* src/src/sensors.c: the start button's interrupt handler, the limit      *)
(* switch of the door, the mode of the status LED.  The user is the        *)
(* environment: the button and the door move as the user likes.            *)
(***************************************************************************)
EXTENDS Integers

\* How long, in ms, the user may hold the button.
CONSTANT PressLengths

ASSUME PressLengthsAssumption == PressLengths \subseteq Nat

VARIABLES
    is_pressed,         \* button_state.is_pressed
    press_duration_ms,  \* button_state.press_duration_ms: last COMPLETED press
    press_len,          \* the user: how long the press in progress is to last
    door_closed,        \* the door, when its switch was last read
    current_led_mode

sensorsVars == <<is_pressed, press_duration_ms, press_len, door_closed,
                 current_led_mode>>

LedModes == {"LED_OFF", "LED_ON", "LED_SLOW_BLINK", "LED_FAST_BLINK"}

SensorsTypeOK ==
    /\ is_pressed \in BOOLEAN
    /\ press_duration_ms \in PressLengths \union {0}
    /\ press_len \in PressLengths \union {0}
    /\ door_closed \in BOOLEAN
    /\ current_led_mode \in LedModes

SensorsInit ==
    /\ is_pressed = FALSE
    /\ press_duration_ms = 0
    /\ press_len = 0
    /\ door_closed = FALSE
    /\ current_led_mode = "LED_OFF"

-----------------------------------------------------------------------------
(* button_isr, on each of the two edges. *)

ButtonPress ==
    /\ ~is_pressed
    /\ is_pressed' = TRUE
    /\ press_len' \in PressLengths
    /\ UNCHANGED <<press_duration_ms, door_closed, current_led_mode>>

ButtonRelease ==
    /\ is_pressed
    /\ is_pressed' = FALSE
    /\ press_duration_ms' = press_len
    /\ press_len' = 0
    /\ UNCHANGED <<door_closed, current_led_mode>>

-----------------------------------------------------------------------------
(* The limit switch. *)

\* The user leaves the door open or shut; it is looked at only here.
SampleDoor == door_closed' \in BOOLEAN

\* The switch pulls its pin low when the door is shut, and the device tree
\* declares the pin GPIO_ACTIVE_LOW: gpio_pin_get_dt returns the LOGICAL level.
gpio_pin_get_dt_limit_switch(closed) == IF closed THEN 1 ELSE 0

\* What the read that samples the door returns.
read_limit_switch == gpio_pin_get_dt_limit_switch(door_closed') = 0

-----------------------------------------------------------------------------
set_status_led_mode(mode) == current_led_mode' = mode

=============================================================================
