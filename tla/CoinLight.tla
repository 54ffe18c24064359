------------------------------ MODULE CoinLight ------------------------------
(***************************************************************************)
(* The key fob's LED, src/coin/src/io.c, and the kernel's forced power     *)
(* state, which both io.c and main.c set.  Time is counted in units of     *)
(* 125 ms, of which every period of io.c and main.c is a multiple.         *)
(***************************************************************************)
EXTENDS Integers

VARIABLES
  LED,            \* the pin, which keeps its level in deep sleep
  sos_index,
  blink_counter,  \* modulo 2
  blink_left,     \* time left of blink_timer, or Stopped
  blink_period,   \* its period, 0 if it fires once
  forced          \* sys_pm_force_power_state(DEEP_SLEEP_1) has been called

timerVars == <<blink_left, blink_period>>
lightVars == <<LED, sos_index, blink_counter, timerVars>>

Stopped == -1

\* Three short, three long, three short, twice, the second after a second's
\* pause: even entries are on, odd ones off.
SosLength    == 36
sos_sequence == [i \in 0..SosLength - 1 |->
                   IF i = 17 THEN 8
                   ELSE IF i % 2 = 1 THEN 1
                   ELSE IF i \div 6 \in {1, 4} THEN 4 ELSE 2]

Periods == [BI_AGGRESSIVE |-> 1, BI_QUICK |-> 2, BI_SLOW |-> 4]

LightInit ==
  /\ LED = 0 /\ sos_index = -1 /\ blink_counter = 0
  /\ blink_left = Stopped /\ blink_period = 0
  /\ forced = FALSE

\* The RAM of io.c after a reset, which does not touch the pin.
LightReset ==
  /\ sos_index' = -1 /\ blink_counter' = 0
  /\ blink_left' = Stopped /\ blink_period' = 0
  /\ forced' = FALSE /\ UNCHANGED LED

\* k_timer_start and k_timer_stop.
k_timer_start(delay, period) == blink_left' = delay /\ blink_period' = period
k_timer_stop == blink_left' = Stopped /\ UNCHANGED blink_period

\* The distress signal is not given up for anything, not even for BI_OFF.
Distress == sos_index > -1

set_blink_intensity(intensity) ==
  IF Distress THEN UNCHANGED lightVars
  ELSE /\ UNCHANGED blink_counter
       /\ \/ /\ intensity = "BI_ON"
             /\ LED' = 1 /\ k_timer_stop
             /\ UNCHANGED sos_index
          \/ /\ intensity \in DOMAIN Periods
             /\ k_timer_start(Periods[intensity], Periods[intensity])
             /\ UNCHANGED <<LED, sos_index>>
          \/ /\ intensity = "BI_SOS"
             /\ LED' = 1 /\ sos_index' = 0
             /\ k_timer_start(sos_sequence[0], 0)
          \/ /\ intensity = "BI_OFF"
             /\ LED' = 0 /\ k_timer_stop
             /\ UNCHANGED sos_index

\* After its last entry the signal ends the coin's day.
SosEnd == LED' = 0 /\ blink_left' = Stopped /\ forced' = TRUE

\* Mutant of Counted: the modulo is dropped.
CountedOn(n) == n + 1

Counted(n) == (n + 1) % 2

blink_expiry_function ==
  /\ blink_left = 0
  /\ UNCHANGED blink_period
  /\ \/ /\ Distress
        /\ sos_index' = sos_index + 1
        /\ UNCHANGED blink_counter
        /\ \/ /\ sos_index' < SosLength
              /\ LED' = 1 - (sos_index' % 2)
              /\ blink_left' = sos_sequence[sos_index']
              /\ UNCHANGED forced
           \/ sos_index' = SosLength /\ SosEnd
     \/ /\ ~Distress
        /\ LED' = blink_counter
        /\ blink_counter' = Counted(blink_counter)
        /\ blink_left' = blink_period
        /\ UNCHANGED <<sos_index, forced>>

LightTypeOK ==
  /\ LED \in 0..1 /\ sos_index \in -1..SosLength /\ blink_counter \in 0..1
  /\ blink_left \in Stopped..8 /\ blink_period \in {0, 1, 2, 4}

=============================================================================
