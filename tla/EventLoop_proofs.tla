-------------------------- MODULE EventLoop_proofs --------------------------
(***************************************************************************)
(* Proofs about EventLoop, for any times of the button and any schedule of *)
(* the interrupts.  The loop counts an interval of 100 ms only when an     *)
(* event was raised for it, and each raised event once.                    *)
(***************************************************************************)
EXTENDS EventLoop, TLAPS

\* What the loop is about to write back is still set: interrupts only add.
ReadStillSet ==
    /\ pc = "sec_clear" => "SEC" \in read /\ read \subseteq event_list
    /\ pc = "100ms_clear" => "100MS" \in read /\ read \subseteq event_list

SecRaisedIsDue == "SEC" \in event_list => sec_due

\* The events of 100 ms that the button has not seen yet
Owed == (IF "100MS" \in event_list THEN 1 ELSE 0) + (IF pc = "sample" THEN 1 ELSE 0)

\* The button's time with the intervals still to be counted is at most one
\* ahead of the clock.
CountedOnce == gpio_state # "NORMAL" /\ age < AgeMax => pressedTime + Owed <= age + 1

\* The samples of a release are part of the time from which they are taken off.
ReleaseCounted == gpio_state = "RELEASED" =>
    /\ debounceTime < GPIO_DEBOUNCE_TIME_MAX
    /\ debounceTime < pressedTime

\* The inductive invariant
IInv ==
    /\ TypeOK
    /\ ReadStillSet
    /\ SecRaisedIsDue
    /\ CountedOnce
    /\ ReleaseCounted
    /\ ResetMeansLongPress

LEMMA InitInv == Init => IInv
<1> SUFFICES ASSUME Init PROVE IInv
  OBVIOUS
<1>1. 0 \in 0 .. TicksPerSecond - 1 /\ 0 \in 0 .. AgeMax
  BY LoopAssumption
<1>2. TypeOK
  BY <1>1 DEF Init, TypeOK
<1> QED
  BY <1>2 DEF Init, IInv, ReadStillSet, SecRaisedIsDue, CountedOnce, ReleaseCounted,
              ResetMeansLongPress

LEMMA IsrInv == IInv /\ Isr => IInv'
<1> SUFFICES ASSUME IInv, Isr PROVE IInv'
  OBVIOUS
<1>1. Raised \subseteq Event /\ ("SEC" \in Raised <=> tick + 1 = TicksPerSecond)
  BY DEF Raised, Event
<1>2. tick' \in 0 .. TicksPerSecond - 1
  BY LoopAssumption DEF Isr, IInv, TypeOK
<1>3. age' \in 0 .. AgeMax /\ age' >= age /\ (age' < AgeMax => age < AgeMax /\ age' = age + 1)
  BY LoopAssumption DEF Isr, IInv, TypeOK
<1>4. /\ UNCHANGED <<pc, read, gpio_state, pressedTime, debounceTime, outcome, button>>
      /\ event_list' = event_list \cup Raised
      /\ sec_due' = (sec_due \/ tick + 1 = TicksPerSecond)
      /\ TypeOK /\ pressedTime \in Nat /\ age \in Nat
  BY DEF Isr, loopVars, gpioVars, IInv, TypeOK
<1>5. TypeOK'
  BY <1>1, <1>2, <1>3, <1>4 DEF TypeOK
<1>6. ReadStillSet' /\ ReleaseCounted' /\ SecRaisedIsDue'
  BY <1>1, <1>4 DEF IInv, TypeOK, ReadStillSet, ReleaseCounted, SecRaisedIsDue
<1>7. Owed \in {0, 1, 2} /\ Owed' \in {0, 1, 2} /\ Owed' <= Owed + 1
  BY <1>4 DEF Owed
<1>8. CountedOnce'
  <2> SUFFICES ASSUME gpio_state' # "NORMAL", age' < AgeMax
               PROVE  pressedTime' + Owed' <= age' + 1
    BY DEF CountedOnce
  <2>1. pressedTime + Owed <= age + 1
    BY <1>3, <1>4 DEF IInv, CountedOnce
  <2>2. Owed \in Nat /\ Owed' \in Nat /\ Owed' <= Owed + 1
    BY <1>7
  <2>3. pressedTime' = pressedTime /\ pressedTime \in Nat /\ age \in Nat /\ age' = age + 1
    BY <1>3, <1>4
  <2> QED
    BY <2>1, <2>2, <2>3 DEF Owed
<1>9. ResetMeansLongPress'
  BY <1>3, <1>4, LoopAssumption DEF IInv, ResetMeansLongPress
<1> QED
  BY <1>5, <1>6, <1>8, <1>9 DEF IInv

LEMMA ButtonInv == IInv /\ Button => IInv'
BY DEF Button, loopVars, gpioVars, IInv, TypeOK, ReadStillSet, SecRaisedIsDue, CountedOnce,
       Owed, ReleaseCounted, ResetMeansLongPress

\* The steps of a pass that leave the button alone only ever owe it less.
LEMMA PassiveInv ==
    ASSUME IInv, UNCHANGED <<tick, gpioVars, button, age>>,
           event_list' \subseteq event_list, read' \subseteq Event,
           pc' \in {"top", "sec_clear", "rx", "rx_done", "100ms_clear", "sample", "rest"},
           pc' = "sample" => pc = "sample" \/ (pc = "100ms_clear" /\ "100MS" \notin event_list'),
           sec_due' \in BOOLEAN, SecRaisedIsDue', ReadStillSet'
    PROVE  IInv'
<1>1. /\ UNCHANGED <<gpio_state, pressedTime, debounceTime, outcome>>
      /\ TypeOK /\ pressedTime \in Nat /\ age \in Nat
  BY DEF gpioVars, IInv, TypeOK
<1>2. TypeOK'
  BY <1>1 DEF TypeOK
<1>3. pc = "100ms_clear" => "100MS" \in event_list
  BY DEF IInv, ReadStillSet
<1>4. Owed \in {0, 1, 2} /\ Owed' \in {0, 1, 2} /\ Owed' <= Owed
  BY <1>3 DEF Owed
<1>5. CountedOnce'
  <2> SUFFICES ASSUME gpio_state' # "NORMAL", age' < AgeMax
               PROVE  pressedTime' + Owed' <= age' + 1
    BY DEF CountedOnce
  <2>1. pressedTime + Owed <= age + 1
    BY <1>1 DEF IInv, CountedOnce
  <2>2. Owed \in Nat /\ Owed' \in Nat /\ Owed' <= Owed
    BY <1>4
  <2>3. pressedTime' = pressedTime /\ pressedTime \in Nat /\ age \in Nat /\ age' = age
    BY <1>1
  <2> QED
    BY <2>1, <2>2, <2>3 DEF Owed
<1> QED
  BY <1>1, <1>2, <1>5 DEF IInv, ReleaseCounted, ResetMeansLongPress

LEMMA LookInv ==
    ASSUME IInv,
           \/ Look("top", "SEC", "sec_clear", "rx")
           \/ Look("rx_done", "100MS", "100ms_clear", "rest")
    PROVE  IInv'
<1>1. /\ UNCHANGED <<event_list, tick, gpioVars, button, age, sec_due>>
      /\ pc' \in {"sec_clear", "rx", "100ms_clear", "rest"}
      /\ read' \in {read, event_list}
  BY DEF Look
<1>2. read' \subseteq Event /\ event_list' \subseteq event_list /\ sec_due' \in BOOLEAN
  BY <1>1 DEF IInv, TypeOK
<1>3. ReadStillSet'
  BY <1>1 DEF Look, ReadStillSet
<1>4. SecRaisedIsDue'
  BY <1>1 DEF IInv, SecRaisedIsDue
<1> QED
  BY <1>1, <1>2, <1>3, <1>4, PassiveInv

LEMMA ClearInv == IInv /\ (ClearSec \/ Clear100ms) => IInv'
<1> SUFFICES ASSUME IInv, ClearSec \/ Clear100ms PROVE IInv'
  OBVIOUS
<1>1. CASE ClearSec
  <2>1. event_list' = read \ {"SEC"} /\ event_list' \subseteq event_list /\ read' \subseteq Event
    BY <1>1 DEF ClearSec, IInv, TypeOK, ReadStillSet
  <2>2. SecRaisedIsDue' /\ ReadStillSet' /\ pc' = "rx" /\ sec_due' \in BOOLEAN
    BY <1>1, <2>1 DEF ClearSec, SecRaisedIsDue, ReadStillSet
  <2> QED
    BY <1>1, <2>1, <2>2, PassiveInv DEF ClearSec
<1>2. CASE Clear100ms
  <2>1. /\ event_list' = read \ {"100MS"} /\ event_list' \subseteq event_list
        /\ read' \subseteq Event /\ sec_due' = sec_due /\ pc = "100ms_clear" /\ pc' = "sample"
    BY <1>2 DEF Clear100ms, IInv, TypeOK, ReadStillSet
  <2>2. SecRaisedIsDue' /\ ReadStillSet' /\ sec_due' \in BOOLEAN
    BY <2>1 DEF IInv, TypeOK, SecRaisedIsDue, ReadStillSet
  <2> QED
    BY <1>2, <2>1, <2>2, PassiveInv DEF Clear100ms
<1> QED
  BY <1>1, <1>2

LEMMA RxRestInv == IInv /\ (Rx \/ Rest) => IInv'
<1> SUFFICES ASSUME IInv, Rx \/ Rest PROVE IInv'
  OBVIOUS
<1>1. /\ UNCHANGED <<event_list, tick, read, gpioVars, button, age, sec_due>>
      /\ pc' \in {"rx_done", "top"}
  BY DEF Rx, Rest
<1>2. SecRaisedIsDue' /\ ReadStillSet'
  BY <1>1 DEF IInv, SecRaisedIsDue, ReadStillSet
<1>3. read' \subseteq Event /\ event_list' \subseteq event_list /\ sec_due' \in BOOLEAN
  BY <1>1 DEF IInv, TypeOK
<1> QED
  BY <1>1, <1>2, <1>3, PassiveInv

LEMMA SampleInv == IInv /\ outcome = "none" /\ Sample => IInv'
<1> SUFFICES ASSUME IInv, outcome = "none", Sample PROVE IInv'
  OBVIOUS
<1> USE DEF Sample
<1>1. /\ pc = "sample" /\ pc' = "rest" /\ event_list' = event_list /\ TypeOK
      /\ pressedTime \in Nat /\ debounceTime \in Nat /\ age \in Nat
  BY DEF IInv, TypeOK
<1>2. ReadStillSet' /\ SecRaisedIsDue'
  BY <1>1 DEF IInv, ReadStillSet, SecRaisedIsDue
<1>3. Owed' = Owed - 1 /\ Owed \in {1, 2} /\ CountedOnce
  BY <1>1 DEF IInv, Owed
<1>4. CASE SeePress
  <2>1. TypeOK'
    BY <1>1, <1>4, LoopAssumption DEF SeePress, TypeOK
  <2>2. CountedOnce'
    BY <1>3, <1>4 DEF SeePress, CountedOnce
  <2>3. ReleaseCounted' /\ ResetMeansLongPress'
    BY <1>1, <1>4, LoopAssumption DEF SeePress, IInv, ReleaseCounted, ResetMeansLongPress
  <2> QED
    BY <1>2, <2>1, <2>2, <2>3 DEF IInv
<1>5. CASE Pressed
  <2>1. TypeOK'
    BY <1>1, <1>5 DEF Pressed, TypeOK
  <2>2. age < AgeMax => pressedTime + Owed <= age + 1
    BY <1>5 DEF Pressed, IInv, CountedOnce
  <2>3. CountedOnce'
    BY <1>1, <1>3, <1>5, <2>2 DEF Pressed, CountedOnce
  <2>4. ReleaseCounted'
    BY <1>1, <1>5, LoopAssumption DEF Pressed, ReleaseCounted
  <2>5. age < AgeMax => pressedTime <= age
    BY <1>1, <1>3, <2>2
  <2>6. ResetMeansLongPress'
    BY <1>1, <1>5, <2>5, LoopAssumption DEF Pressed, IInv, TypeOK, ResetMeansLongPress
  <2> QED
    BY <1>2, <2>1, <2>3, <2>4, <2>6 DEF IInv
<1>6. CASE Released
  <2>1. debounceTime < GPIO_DEBOUNCE_TIME_MAX /\ debounceTime < pressedTime
    BY <1>6 DEF Released, IInv, ReleaseCounted
  <2>2. /\ pressedTime' \in Nat /\ debounceTime' \in Nat /\ pressedTime' <= pressedTime + 1
        /\ gpio_state' \in {"NORMAL", "PRESSED", "RELEASED"}
        /\ outcome' \in {outcome, "reboot"} /\ UNCHANGED age
    BY <1>1, <1>6, <2>1, LoopAssumption DEF Released
  <2>3. TypeOK'
    BY <1>1, <2>2 DEF TypeOK
  <2>4. CountedOnce'
    <3> SUFFICES ASSUME gpio_state' # "NORMAL", age' < AgeMax
                 PROVE  pressedTime' + Owed' <= age' + 1
      BY DEF CountedOnce
    <3>1. pressedTime + Owed <= age + 1
      BY <1>3, <1>6, <2>2 DEF Released, CountedOnce
    <3>2. Owed \in Nat /\ Owed' \in Nat /\ Owed' = Owed - 1
      BY <1>3
    <3>3. pressedTime' \in Nat /\ pressedTime \in Nat /\ pressedTime' <= pressedTime + 1
      BY <1>1, <2>2
    <3>4. age \in Nat /\ age' = age
      BY <1>1, <2>2
    <3>5. PICK o \in Nat : o = Owed'
      BY <3>2
    <3>6. pressedTime + o + 1 <= age + 1
      <4>1. PICK o1 \in Nat : o1 = Owed
        BY <3>2
      <4>2. o = o1 - 1 /\ pressedTime + o1 <= age + 1
        BY <3>1, <3>2, <3>5, <4>1
      <4> QED
        BY <3>3, <3>4, <4>2
    <3>7. pressedTime' + o <= age' + 1
      <4>1. \A p, p2, a \in Nat : p2 <= p + 1 /\ p + o + 1 <= a + 1 => p2 + o <= a + 1
        OBVIOUS
      <4> QED
        BY <3>3, <3>4, <3>6, <4>1
    <3> QED
      BY <3>5, <3>7
  <2>5. ReleaseCounted'
    BY <1>1, <1>6, <2>1, LoopAssumption DEF Released, ReleaseCounted
  <2>6. ResetMeansLongPress'
    BY <2>2 DEF IInv, ResetMeansLongPress
  <2> QED
    BY <1>2, <2>3, <2>4, <2>5, <2>6 DEF IInv
<1> QED
  BY <1>4, <1>5, <1>6

LEMMA RestartInv == IInv /\ Restart => IInv'
<1> SUFFICES ASSUME IInv, Restart PROVE IInv'
  OBVIOUS
<1>1. 0 \in 0 .. TicksPerSecond - 1 /\ 0 \in 0 .. AgeMax
  BY LoopAssumption
<1>2. TypeOK'
  BY <1>1 DEF Restart, IInv, TypeOK
<1> QED
  BY <1>2 DEF Restart, IInv, ReadStillSet, SecRaisedIsDue, CountedOnce, ReleaseCounted,
              ResetMeansLongPress

LEMMA NextInv == IInv /\ [Next]_vars => IInv'
<1>1. IInv /\ UNCHANGED vars => IInv'
  BY DEF vars, loopVars, gpioVars, IInv, TypeOK, ReadStillSet, SecRaisedIsDue, CountedOnce,
         Owed, ReleaseCounted, ResetMeansLongPress
<1>2. IInv /\ Pass => IInv'
  BY LookInv, ClearInv, RxRestInv, SampleInv DEF Pass
<1> QED
  BY <1>1, <1>2, IsrInv, ButtonInv, RestartInv DEF Next

LEMMA Inductive == Spec => []IInv
BY InitInv, NextInv, PTL DEF Spec

\* The button's counters stay in range: the debounce time taken off the
\* pressed time was part of it, so the unsigned pressedTime does not wrap.
THEOREM ButtonTypeCorrect == Spec => []TypeOK
<1>1. IInv => TypeOK
  BY DEF IInv
<1> QED
  BY <1>1, Inductive, PTL

\* The configuration is reset only GPIO_RESET_TIME intervals of the real clock
\* after the press was seen, whatever the loop and the interrupts do.
THEOREM ResetIsDeliberate == Spec => []ResetMeansLongPress
<1>1. IInv => ResetMeansLongPress
  BY DEF IInv
<1> QED
  BY <1>1, Inductive, PTL

\* timer_sec_dsr runs at most once for each second that has passed.
THEOREM SecondsNotInvented == Spec => []EachSecondOnce
<1>1. IInv => EachSecondOnce
  BY DEF IInv, ReadStillSet, SecRaisedIsDue, EachSecondOnce
<1> QED
  BY <1>1, Inductive, PTL

=============================================================================
