----------------------------- MODULE EventLoop -----------------------------
(***************************************************************************)
(* The main loop of the firmware and its timer interrupt                   *)
(* (rtl8367c/src/isr.c): how a raised event reaches its handler, and what  *)
(* timer_100ms_dsr makes of the reset button.                              *)
(*                                                                         *)
(* event_list is a byte of indirect memory: the loop clears a bit in it by *)
(* reading it, masking and writing it back, and an interrupt that comes in *)
(* between is overwritten.  The interrupt itself is not interrupted.  It   *)
(* raises an event every 100 ms and with every TicksPerSecond-th the one   *)
(* of a second; the interrupts between those change nothing here.  A pass  *)
(* of the loop takes any time: it draws web pages and writes the flash.    *)
(***************************************************************************)
EXTENDS Integers

CONSTANTS TicksPerSecond,          \* 100 ms events in CONFIG_TIMER_DIVISOR interrupts
          GPIO_DEBOUNCE_TIME_MAX,
          GPIO_REBOOT_TIME,
          GPIO_RESET_TIME,
          AgeMax                   \* where the model stops counting the age of a press

ASSUME LoopAssumption ==
    /\ TicksPerSecond \in Nat \ {0}
    /\ GPIO_DEBOUNCE_TIME_MAX \in Nat \ {0}
    /\ GPIO_REBOOT_TIME \in Nat
    /\ GPIO_RESET_TIME \in Nat
    /\ AgeMax \in Nat /\ AgeMax >= GPIO_RESET_TIME

VARIABLES event_list,
          tick,          \* timeCount, in units of 100 ms
          pc,            \* where event_dispatch is
          read,          \* what it has read of event_list to mask a bit
          gpio_state, pressedTime, debounceTime,
          button,        \* the level of the input
          outcome,       \* what the button has brought about
          age,           \* 100 ms intervals since the press was first seen
          sec_due        \* a second has passed since the last one handled

loopVars == <<pc, read>>
gpioVars == <<gpio_state, pressedTime, debounceTime, outcome>>
vars == <<event_list, tick, loopVars, gpioVars, button, age, sec_due>>

Event == {"SEC", "100MS"}

Init ==
    /\ event_list = {} /\ tick = 0 /\ pc = "top" /\ read = {}
    /\ gpio_state = "NORMAL" /\ pressedTime = 0 /\ debounceTime = 0
    /\ button = "RELEASED" /\ outcome = "none"
    /\ age = 0 /\ sec_due = FALSE

-----------------------------------------------------------------------------
\* timer_0_isr, at the end of an interval of 100 ms
Raised == {"100MS"} \cup (IF tick + 1 = TicksPerSecond THEN {"SEC"} ELSE {})

Isr ==
    /\ tick' = (tick + 1) % TicksPerSecond
    /\ event_list' = event_list \cup Raised
    /\ sec_due' = (sec_due \/ tick + 1 = TicksPerSecond)
    /\ age' = IF age < AgeMax THEN age + 1 ELSE age
    /\ UNCHANGED <<loopVars, gpioVars, button>>

\* Someone presses or releases the button.
Button ==
    /\ button' \in {"PRESSED", "RELEASED"} \ {button}
    /\ UNCHANGED <<event_list, tick, loopVars, gpioVars, age, sec_due>>

-----------------------------------------------------------------------------
(* event_dispatch                                                          *)

\* It looks for event e and begins to clear it, or goes on.
Look(here, e, clear, next) ==
    /\ pc = here
    /\ IF e \in event_list
       THEN pc' = clear /\ read' = event_list
       ELSE pc' = next /\ UNCHANGED read
    /\ UNCHANGED <<event_list, tick, gpioVars, button, age, sec_due>>

ClearSec_ClearsAll ==  \* Seeded bug: clears the other event with it.
    /\ pc = "sec_clear" /\ pc' = "rx"
    /\ event_list' = {}
    /\ sec_due' = FALSE
    /\ UNCHANGED <<tick, read, gpioVars, button, age>>

ClearSec_Forgets ==  \* Seeded bug: does not clear the event.
    /\ pc = "sec_clear" /\ pc' = "rx"
    /\ event_list' = read
    /\ sec_due' = FALSE
    /\ UNCHANGED <<tick, read, gpioVars, button, age>>

\* timer_sec_dsr clears the event and runs the timers of the protocols.
ClearSec ==
    /\ pc = "sec_clear" /\ pc' = "rx"
    /\ event_list' = read \ {"SEC"}
    /\ sec_due' = FALSE
    /\ UNCHANGED <<tick, read, gpioVars, button, age>>

\* nic_rx_dsr handles what frames there are.
Rx ==
    /\ pc = "rx" /\ pc' = "rx_done"
    /\ UNCHANGED <<event_list, tick, read, gpioVars, button, age, sec_due>>

Clear100ms ==
    /\ pc = "100ms_clear" /\ pc' = "sample"
    /\ event_list' = read \ {"100MS"}
    /\ UNCHANGED <<tick, read, gpioVars, button, age, sec_due>>

\* The rest of the pass: dhcpc_routine, the link status, the serial port.
Rest ==
    /\ pc = "rest" /\ pc' = "top"
    /\ UNCHANGED <<event_list, tick, read, gpioVars, button, age, sec_due>>

-----------------------------------------------------------------------------
(* The button, in timer_100ms_dsr                                          *)

SeePress ==
    /\ gpio_state = "NORMAL"
    /\ IF button = "PRESSED"
       THEN gpio_state' = "PRESSED" /\ pressedTime' = 0 /\ age' = 0
       ELSE UNCHANGED <<gpio_state, pressedTime, age>>
    /\ UNCHANGED <<debounceTime, outcome>>

Pressed_ChecksFirst ==  \* Seeded bug: looks at the time one interval too early.
    /\ gpio_state = "PRESSED"
    /\ pressedTime' = pressedTime + 1
    /\ IF button = "RELEASED"
       THEN gpio_state' = "RELEASED" /\ debounceTime' = 0
       ELSE UNCHANGED <<gpio_state, debounceTime>>
    /\ outcome' = IF pressedTime' + 1 > GPIO_RESET_TIME THEN "reset" ELSE outcome
    /\ UNCHANGED age

Pressed ==
    /\ gpio_state = "PRESSED"
    /\ pressedTime' = pressedTime + 1
    /\ IF button = "RELEASED"
       THEN gpio_state' = "RELEASED" /\ debounceTime' = 0
       ELSE UNCHANGED <<gpio_state, debounceTime>>
    /\ outcome' = IF pressedTime' > GPIO_RESET_TIME THEN "reset" ELSE outcome
    /\ UNCHANGED age

Released_NotCounted ==  \* Seeded bug: takes off time it has not added.
    /\ gpio_state = "RELEASED"
    /\ IF button = "PRESSED"
       THEN /\ gpio_state' = "PRESSED" /\ pressedTime' = pressedTime + 1
            /\ UNCHANGED <<debounceTime, outcome>>
       ELSE /\ debounceTime' = debounceTime + 1
            /\ IF debounceTime' < GPIO_DEBOUNCE_TIME_MAX
               THEN UNCHANGED <<gpio_state, pressedTime, outcome>>
               ELSE /\ gpio_state' = "NORMAL"
                    /\ pressedTime' = pressedTime - GPIO_DEBOUNCE_TIME_MAX
                    /\ outcome' = IF pressedTime' < GPIO_REBOOT_TIME THEN "reboot" ELSE outcome
    /\ UNCHANGED age

\* The release is believed after GPIO_DEBOUNCE_TIME_MAX samples, and the time
\* those took is taken off again.
Released ==
    /\ gpio_state = "RELEASED"
    /\ IF button = "PRESSED"
       THEN /\ gpio_state' = "PRESSED" /\ pressedTime' = pressedTime + 1
            /\ UNCHANGED <<debounceTime, outcome>>
       ELSE /\ debounceTime' = debounceTime + 1
            /\ IF debounceTime' < GPIO_DEBOUNCE_TIME_MAX
               THEN pressedTime' = pressedTime + 1 /\ UNCHANGED <<gpio_state, outcome>>
               ELSE /\ gpio_state' = "NORMAL"
                    /\ pressedTime' = pressedTime + 1 - GPIO_DEBOUNCE_TIME_MAX
                    /\ outcome' = IF pressedTime' < GPIO_REBOOT_TIME THEN "reboot" ELSE outcome
    /\ UNCHANGED age

Sample ==
    /\ pc = "sample" /\ pc' = "rest"
    /\ SeePress \/ Pressed \/ Released
    /\ UNCHANGED <<event_list, tick, read, button, sec_due>>

\* The chip restarts, with the button as it is.
Restart ==
    /\ outcome # "none"
    /\ event_list' = {} /\ tick' = 0 /\ pc' = "top" /\ read' = {}
    /\ gpio_state' = "NORMAL" /\ pressedTime' = 0 /\ debounceTime' = 0
    /\ outcome' = "none" /\ age' = 0 /\ sec_due' = FALSE
    /\ UNCHANGED button

-----------------------------------------------------------------------------
Pass ==
    /\ outcome = "none"
    /\ \/ Look("top", "SEC", "sec_clear", "rx")
       \/ ClearSec
       \/ Rx
       \/ Look("rx_done", "100MS", "100ms_clear", "rest")
       \/ Clear100ms
       \/ Sample
       \/ Rest

Next == Isr \/ Button \/ Pass \/ Restart

Spec == Init /\ [][Next]_vars

\* The clock runs, the loop does not stop, a restart takes effect.
FairSpec == Spec /\ WF_vars(Isr) /\ WF_vars(Pass) /\ WF_vars(Restart)

-----------------------------------------------------------------------------
TypeOK ==
    /\ event_list \subseteq Event /\ read \subseteq Event
    /\ tick \in 0 .. TicksPerSecond - 1
    /\ pc \in {"top", "sec_clear", "rx", "rx_done", "100ms_clear", "sample", "rest"}
    /\ gpio_state \in {"NORMAL", "PRESSED", "RELEASED"}
    /\ button \in {"PRESSED", "RELEASED"} /\ outcome \in {"none", "reset", "reboot"}
    /\ pressedTime \in Nat /\ debounceTime \in Nat
    /\ age \in 0 .. AgeMax /\ sec_due \in BOOLEAN

\* The configuration is wiped only when the button has been seen down for
\* three seconds, but for an interval of sampling: the loop may run late and
\* lose events, but it never counts an interval twice.
ResetMeansLongPress == outcome = "reset" => age >= GPIO_RESET_TIME

\* timer_sec_dsr never runs twice for one second: the timers of the protocols
\* may run late, never fast.
EachSecondOnce == pc = "sec_clear" => sec_due

\* A button that stays down resets the switch, however the interrupts hit the
\* loop: the events of 100 ms are not all lost.
HeldButtonResets == <>[](button = "PRESSED") => <>(outcome = "reset")

=============================================================================
