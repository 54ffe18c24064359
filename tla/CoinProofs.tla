----------------------------- MODULE CoinProofs -----------------------------
(***************************************************************************)
(* Proofs about Coin, for every choice of faults and every BootMax that    *)
(* leaves the distress signal the time it takes.                           *)
(*                                                                         *)
(* IInv is inductive: each action is shown to preserve it, and every       *)
(* safety property is a part or a consequence of it.                       *)
(***************************************************************************)
EXTENDS Coin, TLAPS

USE DEF Stopped, SosLength, K_SECONDS, ShutdownDelay

\* The entries of the distress signal follow one another without a gap and
\* are over after 73 units (sos_sequence).
LEMMA Entry ==
  ASSUME NEW i \in 0..35
  PROVE  /\ sos_sequence[i] \in 1..8
         /\ SosBegin(i + 1) = SosBegin(i) + sos_sequence[i]
         /\ SosBegin(i + 1) \in 1..73
<1>1. \/ i \in 0..4 \/ i = 5 \/ i \in 6..10 \/ i = 11 \/ i \in 12..16 \/ i = 17
      \/ i \in 18..22 \/ i = 23 \/ i \in 24..28 \/ i = 29 \/ i \in 30..34 \/ i = 35
  OBVIOUS
<1> QED BY <1>1 DEF sos_sequence, SosBegin, Entries

\* The first entry.
LEMMA FirstEntry == sos_sequence[0] = 2 /\ SosBegin(1) = 2
  BY DEF sos_sequence, SosBegin, Entries

\* The pictures main.c asks for.
Pictures == {"BI_ON", "BI_AGGRESSIVE", "BI_SOS", "BI_OFF"}

\* What a request for a picture does to the LED (set_blink_intensity).
LEMMA Picture ==
  ASSUME LightTypeOK, NEW x \in Pictures, set_blink_intensity(x)
  PROVE  /\ LED' \in 0..1 /\ sos_index' \in -1..SosLength /\ blink_counter' = blink_counter
         /\ blink_left' \in Stopped..8 /\ blink_period' \in {0, 1, 2, 4}
         /\ x # "BI_SOS" \/ Distress => sos_index' = sos_index
         /\ x = "BI_SOS" /\ ~Distress => sos_index' = 0 /\ blink_left' = 2
         /\ x = "BI_OFF" /\ ~Distress => LED' = 0
         /\ Distress => LED' = LED /\ blink_left' = blink_left
<1>1. Periods.BI_AGGRESSIVE = 1 /\ DOMAIN Periods \cap Pictures = {"BI_AGGRESSIVE"}
  BY DEF Periods, Pictures
<1>2. CASE Distress
  BY <1>2 DEF set_blink_intensity, lightVars, timerVars, LightTypeOK
<1>3. CASE ~Distress /\ x = "BI_AGGRESSIVE"
  <2>1. x \in DOMAIN Periods /\ Periods[x] = 1
    BY <1>1, <1>3
  <2> QED BY <1>3, <2>1 DEF set_blink_intensity, k_timer_start, LightTypeOK
<1>4. CASE ~Distress /\ x # "BI_AGGRESSIVE"
  <2>1. x \notin DOMAIN Periods
    BY <1>1, <1>4
  <2> QED
    BY <1>4, <2>1, FirstEntry
       DEF set_blink_intensity, k_timer_start, k_timer_stop, LightTypeOK
<1> QED BY <1>2, <1>3, <1>4

-----------------------------------------------------------------------------
(* The invariant.                                                          *)

\* A coin that sleeps since the battery was put in satisfies it.
LEMMA InitIInv == Init => IInv
<1> SUFFICES ASSUME Init PROVE IInv
  OBVIOUS
<1> USE DEF Init, LightInit
<1>1. LightTypeOK
  BY DEF LightTypeOK
<1>2. StateTypeOK
  BY DEF StateTypeOK
<1>3. FlagTypeOK
  BY DEF FlagTypeOK
<1>4. OwnsConnection
  BY DEF OwnsConnection
<1>5. BootInv
  BY DEF BootInv, Distress
<1>6. SosInv
  BY DEF SosInv, Distress
<1>7. TimeoutAnswered
  BY DEF TimeoutAnswered
<1>8. LedOffAsleep
  BY DEF LedOffAsleep
<1> QED
  BY <1>1, <1>2, <1>3, <1>4, <1>5, <1>6, <1>7, <1>8 DEF IInv, TypeOK

\* Every step preserves it.
LEMMA NextIInv == IInv /\ [Next]_vars => IInv'
<1> SUFFICES ASSUME IInv, [Next]_vars PROVE IInv'
  OBVIOUS
<1> USE DEF IInv, TypeOK
<1>1. CASE wake_up
  <2>1. LightTypeOK'
    BY <1>1 DEF LightTypeOK, wake_up, LightReset
  <2>2. StateTypeOK'
    BY <1>1 DEF StateTypeOK, OwnsConnection, wake_up
  <2>3. FlagTypeOK'
    BY <1>1 DEF FlagTypeOK, wake_up, LightReset
  <2>4. OwnsConnection'
    BY <1>1
       DEF FlagTypeOK, StateTypeOK, OwnsConnection, BootInv, wake_up
  <2>5. BootInv'
    BY <1>1, BootAssumption
       DEF StateTypeOK, BootInv, Booting, Distress, OwnsConnection,
           wake_up, LightReset
  <2>6. SosInv'
    BY <1>1, BootAssumption, FirstEntry, Entry
       DEF StateTypeOK, LightTypeOK, SosInv, Distress, BootInv, Booting,
           wake_up, LightReset
  <2>7. TimeoutAnswered'
    BY <1>1 DEF TimeoutAnswered, Awake, OwnsConnection, BootInv, wake_up
  <2>8. LedOffAsleep'
    BY <1>1
       DEF StateTypeOK, LedOffAsleep, Awake, SosInv, Distress, wake_up
  <2> QED BY <2>1, <2>2, <2>3, <2>4, <2>5, <2>6, <2>7, <2>8
<1>2. CASE main_start
  <2>0. set_blink_intensity("BI_ON") =>
       /\ LED' \in 0..1 /\ sos_index' \in -1..SosLength /\ blink_counter' = blink_counter
       /\ blink_left' \in Stopped..8 /\ blink_period' \in {0, 1, 2, 4}
       /\ sos_index' = sos_index
       /\ Distress => LED' = LED /\ blink_left' = blink_left
    BY Picture DEF Pictures
  <2>1. LightTypeOK'
    BY <1>2, <2>0 DEF LightTypeOK, main_start
  <2>2. StateTypeOK'
    BY <1>2, <2>0 DEF StateTypeOK, OwnsConnection, main_start, linkVars
  <2>3. FlagTypeOK'
    BY <1>2, <2>0 DEF FlagTypeOK, main_start, linkVars
  <2>4. OwnsConnection'
    BY <1>2, <2>0
       DEF FlagTypeOK, StateTypeOK, OwnsConnection, BootInv, main_start,
           linkVars
  <2>5. BootInv'
    BY <1>2, <2>0, BootAssumption
       DEF StateTypeOK, BootInv, Booting, Distress, OwnsConnection,
           main_start, linkVars
  <2>6. SosInv'
    BY <1>2, <2>0, BootAssumption, FirstEntry, Entry
       DEF StateTypeOK, LightTypeOK, SosInv, Distress, BootInv, Booting,
           main_start
  <2>7. TimeoutAnswered'
    BY <1>2, <2>0
       DEF TimeoutAnswered, Awake, OwnsConnection, BootInv, main_start
  <2>8. LedOffAsleep'
    BY <1>2, <2>0
       DEF StateTypeOK, LedOffAsleep, Awake, SosInv, Distress, main_start
  <2> QED BY <2>1, <2>2, <2>3, <2>4, <2>5, <2>6, <2>7, <2>8
<1>3. CASE main_enable
  <2>0. set_blink_intensity("BI_SOS") =>
       /\ LED' \in 0..1 /\ sos_index' \in -1..SosLength /\ blink_counter' = blink_counter
       /\ blink_left' \in Stopped..8 /\ blink_period' \in {0, 1, 2, 4}
       /\ Distress => sos_index' = sos_index /\ LED' = LED /\ blink_left' = blink_left
       /\ ~Distress => sos_index' = 0 /\ blink_left' = 2
    BY Picture DEF Pictures
  <2>1. LightTypeOK'
    BY <1>3, <2>0 DEF LightTypeOK, main_enable, linkVars, lightVars, timerVars
  <2>2. StateTypeOK'
    BY <1>3, <2>0 DEF StateTypeOK, OwnsConnection, main_enable, linkVars
  <2>3. FlagTypeOK'
    BY <1>3, <2>0 DEF FlagTypeOK, main_enable, linkVars
  <2>4. OwnsConnection'
    BY <1>3, <2>0
       DEF FlagTypeOK, StateTypeOK, OwnsConnection, BootInv, main_enable,
           linkVars
  <2>5. BootInv'
    BY <1>3, <2>0, BootAssumption
       DEF StateTypeOK, BootInv, Booting, Distress, OwnsConnection,
           main_enable, linkVars, lightVars
  <2>6. SosInv'
    BY <1>3, <2>0, BootAssumption, FirstEntry, Entry
       DEF StateTypeOK, LightTypeOK, SosInv, Distress, BootInv, Booting,
           main_enable, linkVars, lightVars
  <2>7. TimeoutAnswered'
    BY <1>3, <2>0
       DEF TimeoutAnswered, Awake, OwnsConnection, BootInv, Booting,
           main_enable
  <2>8. LedOffAsleep'
    BY <1>3, <2>0
       DEF StateTypeOK, LedOffAsleep, Awake, SosInv, Distress, BootInv,
           main_enable
  <2> QED BY <2>1, <2>2, <2>3, <2>4, <2>5, <2>6, <2>7, <2>8
<1>4. CASE main_register
  <2>1. LightTypeOK'
    BY <1>4 DEF LightTypeOK, main_register, linkVars, lightVars, timerVars
  <2>2. StateTypeOK'
    BY <1>4 DEF StateTypeOK, OwnsConnection, main_register, linkVars
  <2>3. FlagTypeOK'
    BY <1>4 DEF FlagTypeOK, main_register, linkVars
  <2>4. OwnsConnection'
    BY <1>4
       DEF FlagTypeOK, StateTypeOK, OwnsConnection, BootInv, main_register,
           linkVars
  <2>5. BootInv'
    BY <1>4, BootAssumption
       DEF StateTypeOK, BootInv, Booting, Distress, OwnsConnection,
           main_register, linkVars, lightVars
  <2>6. SosInv'
    BY <1>4, BootAssumption, FirstEntry, Entry
       DEF StateTypeOK, LightTypeOK, SosInv, Distress, BootInv, Booting,
           main_register, linkVars, lightVars, timerVars
  <2>7. TimeoutAnswered'
    BY <1>4
       DEF TimeoutAnswered, Awake, OwnsConnection, BootInv, Booting,
           main_register
  <2>8. LedOffAsleep'
    BY <1>4
       DEF StateTypeOK, LedOffAsleep, Awake, SosInv, Distress, BootInv,
           main_register
  <2> QED BY <2>1, <2>2, <2>3, <2>4, <2>5, <2>6, <2>7, <2>8
<1>5. CASE bt_ready
  <2>0. set_blink_intensity("BI_SOS") =>
       /\ LED' \in 0..1 /\ sos_index' \in -1..SosLength /\ blink_counter' = blink_counter
       /\ blink_left' \in Stopped..8 /\ blink_period' \in {0, 1, 2, 4}
       /\ Distress => sos_index' = sos_index /\ LED' = LED /\ blink_left' = blink_left
       /\ ~Distress => sos_index' = 0 /\ blink_left' = 2
    BY Picture DEF Pictures
  <2>1. LightTypeOK'
    BY <1>5, <2>0
       DEF LightTypeOK, bt_ready, MayFail, linkVars, lightVars, timerVars
  <2>2. StateTypeOK'
    BY <1>5, <2>0 DEF StateTypeOK, OwnsConnection, bt_ready, MayFail, linkVars
  <2>3. FlagTypeOK'
    BY <1>5, <2>0 DEF FlagTypeOK, bt_ready, MayFail, linkVars
  <2>4. OwnsConnection'
    BY <1>5, <2>0
       DEF FlagTypeOK, StateTypeOK, OwnsConnection, BootInv, bt_ready,
           MayFail, linkVars
  <2>5. BootInv'
    <3>1. bt' \in {"failed", "ready"} /\ main # "start" /\ main # "started"
      BY <1>5 DEF bt_ready, BootInv
    <3>2. advertising' => bt' = "ready" /\ ~(Distress')
      BY <1>5, <2>0 DEF bt_ready, BootInv, Distress, lightVars
    <3>3. UNCHANGED <<forced, main, registered, link, shutdown_timer>>
      BY <1>5 DEF bt_ready, linkVars
    <3>4. advertising = FALSE /\ link = "none"
      BY <1>5 DEF bt_ready, BootInv
    <3> QED BY <3>1, <3>2, <3>3, <3>4 DEF BootInv, Booting
  <2>6. SosInv'
    <3>1. ~Distress /\ ~forced /\ forced' = forced /\ shutdown_timer' = shutdown_timer
          /\ shutdown_timer >= ShutdownDelay - BootMax
      BY <1>5 DEF bt_ready, BootInv, Booting
    <3>2. CASE UNCHANGED lightVars
      BY <3>1, <3>2 DEF SosInv, Distress, lightVars
    <3>3. CASE set_blink_intensity("BI_SOS")
      BY <2>0, <3>1, <3>3, FirstEntry DEF SosInv, StateTypeOK
    <3> QED BY <1>5, <3>2, <3>3 DEF bt_ready
  <2>7. TimeoutAnswered'
    BY <1>5, <2>0
       DEF TimeoutAnswered, Awake, OwnsConnection, BootInv, Booting, bt_ready,
           MayFail
  <2>8. LedOffAsleep'
    BY <1>5, <2>0
       DEF StateTypeOK, LedOffAsleep, Awake, SosInv, Distress, BootInv,
           bt_ready, MayFail
  <2> QED BY <2>1, <2>2, <2>3, <2>4, <2>5, <2>6, <2>7, <2>8
<1>6. CASE connected_err
  <2>1. LightTypeOK'
    BY <1>6
       DEF LightTypeOK, connected_err, disconnected, Unref, bootVars,
           lightVars, timerVars
  <2>2. StateTypeOK'
    BY <1>6
       DEF StateTypeOK, OwnsConnection, connected_err, disconnected, Unref,
           bootVars
  <2>3. FlagTypeOK'
    BY <1>6 DEF FlagTypeOK, connected_err, disconnected, Unref, bootVars
  <2>4. OwnsConnection'
    BY <1>6
       DEF FlagTypeOK, StateTypeOK, OwnsConnection, BootInv, connected_err,
           disconnected, Unref, bootVars
  <2>5. BootInv'
    BY <1>6, BootAssumption
       DEF StateTypeOK, BootInv, Booting, Distress, OwnsConnection,
           connected_err, disconnected, Unref, bootVars, lightVars
  <2>6. SosInv'
    BY <1>6, BootAssumption, FirstEntry, Entry
       DEF StateTypeOK, LightTypeOK, SosInv, Distress, BootInv, Booting,
           connected_err, disconnected, Unref, bootVars, lightVars
  <2>7. TimeoutAnswered'
    BY <1>6
       DEF TimeoutAnswered, Awake, OwnsConnection, BootInv, Booting,
           connected_err, disconnected, Unref
  <2>8. LedOffAsleep'
    BY <1>6
       DEF StateTypeOK, LedOffAsleep, Awake, SosInv, Distress, BootInv,
           connected_err, disconnected, Unref
  <2> QED BY <2>1, <2>2, <2>3, <2>4, <2>5, <2>6, <2>7, <2>8
<1>7. CASE connected
  <2>0. set_blink_intensity("BI_AGGRESSIVE") =>
       /\ LED' \in 0..1 /\ sos_index' \in -1..SosLength /\ blink_counter' = blink_counter
       /\ blink_left' \in Stopped..8 /\ blink_period' \in {0, 1, 2, 4}
       /\ sos_index' = sos_index
       /\ Distress => LED' = LED /\ blink_left' = blink_left
    BY Picture DEF Pictures
  <2>1. LightTypeOK'
    BY <1>7, <2>0
       DEF LightTypeOK, connected, MayFail, Disconnected, bootVars, lightVars,
           timerVars
  <2>2. StateTypeOK'
    <3>1. link' \in {"none", "up", "closing"}
      BY <1>7 DEF connected, Disconnected
    <3>2. refs' \in Int
      BY <1>7 DEF connected, StateTypeOK
    <3> QED BY <1>7, <3>1, <3>2 DEF connected, StateTypeOK, bootVars
  <2>3. FlagTypeOK'
    BY <1>7, <2>0 DEF FlagTypeOK, connected, MayFail, Disconnected, bootVars
  <2>4. OwnsConnection'
    <3>1. ~default_conn /\ refs = 0
      BY <1>7 DEF connected, OwnsConnection
    <3>2. link' # "none"
      BY <1>7 DEF connected, Disconnected
    <3>3. CASE registered
      <4>1. default_conn' = TRUE /\ refs' = 1 /\ registered' = TRUE
        BY <1>7, <3>1, <3>3 DEF connected, bootVars
      <4> QED BY <3>2, <4>1 DEF OwnsConnection
    <3>4. CASE ~registered
      <4>1. default_conn' = default_conn /\ refs' = 0
        BY <1>7, <3>1, <3>4 DEF connected
      <4> QED BY <3>1, <4>1 DEF OwnsConnection
    <3> QED BY <3>3, <3>4
  <2>5. BootInv'
    BY <1>7, <2>0, BootAssumption
       DEF StateTypeOK, BootInv, Booting, Distress, OwnsConnection, connected,
           MayFail, Disconnected, bootVars, lightVars
  <2>6. SosInv'
    BY <1>7, <2>0, BootAssumption, FirstEntry, Entry
       DEF StateTypeOK, LightTypeOK, SosInv, Distress, BootInv, Booting,
           connected, MayFail, Disconnected, bootVars, lightVars
  <2>7. TimeoutAnswered'
    <3>1. ~default_conn /\ link = "none"
      BY <1>7 DEF connected, OwnsConnection
    <3>2. forced => forced'
      BY <1>7 DEF connected
    <3>3. UNCHANGED <<power, main, shutdown_timer>>
      BY <1>7 DEF connected, bootVars
    <3> QED BY <3>1, <3>2, <3>3 DEF TimeoutAnswered, Awake
  <2>8. LedOffAsleep'
    BY <1>7, <2>0
       DEF StateTypeOK, LedOffAsleep, Awake, SosInv, Distress, BootInv,
           connected, MayFail, Disconnected
  <2> QED BY <2>1, <2>2, <2>3, <2>4, <2>5, <2>6, <2>7, <2>8
<1>8. CASE disconnected_cb
  <2>1. LightTypeOK'
    BY <1>8
       DEF LightTypeOK, disconnected_cb, disconnected, Unref, bootVars,
           lightVars, timerVars
  <2>2. StateTypeOK'
    BY <1>8
       DEF StateTypeOK, OwnsConnection, disconnected_cb, disconnected, Unref,
           bootVars
  <2>3. FlagTypeOK'
    BY <1>8 DEF FlagTypeOK, disconnected_cb, disconnected, Unref, bootVars
  <2>4. OwnsConnection'
    BY <1>8
       DEF FlagTypeOK, StateTypeOK, OwnsConnection, BootInv, disconnected_cb,
           disconnected, Unref, bootVars
  <2>5. BootInv'
    BY <1>8, BootAssumption
       DEF StateTypeOK, BootInv, Booting, Distress, OwnsConnection,
           disconnected_cb, disconnected, Unref, bootVars, lightVars
  <2>6. SosInv'
    BY <1>8, BootAssumption, FirstEntry, Entry
       DEF StateTypeOK, LightTypeOK, SosInv, Distress, BootInv, Booting,
           disconnected_cb, disconnected, Unref, bootVars, lightVars
  <2>7. TimeoutAnswered'
    BY <1>8
       DEF TimeoutAnswered, Awake, OwnsConnection, BootInv, Booting,
           disconnected_cb, disconnected, Unref
  <2>8. LedOffAsleep'
    BY <1>8
       DEF StateTypeOK, LedOffAsleep, Awake, SosInv, Distress, BootInv,
           disconnected_cb, disconnected, Unref
  <2> QED BY <2>1, <2>2, <2>3, <2>4, <2>5, <2>6, <2>7, <2>8
<1>9. CASE shutdown
  <2>1. LightTypeOK'
    BY <1>9
       DEF LightTypeOK, shutdown, Disconnected, disconnected, Unref, bootVars,
           lightVars, timerVars
  <2>2. StateTypeOK'
    BY <1>9
       DEF StateTypeOK, OwnsConnection, shutdown, Disconnected, disconnected,
           Unref, bootVars
  <2>3. FlagTypeOK'
    BY <1>9
       DEF FlagTypeOK, shutdown, Disconnected, disconnected, Unref, bootVars
  <2>4. OwnsConnection'
    BY <1>9
       DEF FlagTypeOK, StateTypeOK, OwnsConnection, BootInv, shutdown,
           Disconnected, disconnected, Unref, bootVars
  <2>5. BootInv'
    BY <1>9, BootAssumption
       DEF StateTypeOK, BootInv, Booting, Distress, OwnsConnection, shutdown,
           Disconnected, disconnected, Unref, bootVars, lightVars
  <2>6. SosInv'
    <3>1. ~Distress \/ sos_index = SosLength
      <4> SUFFICES ASSUME Distress, sos_index # SosLength PROVE FALSE
        OBVIOUS
      <4>1. sos_index \in 0..35 /\ shutdown_timer = 0 /\ blink_left \in Nat
            /\ SosBegin(sos_index + 1) - blink_left >= ShutdownDelay - BootMax
        <5>1. sos_index \in 0..35
          BY DEF LightTypeOK, Distress
        <5>2. SosBegin(sos_index + 1) \in Int /\ sos_sequence[sos_index] \in Nat
          BY <5>1, Entry
        <5>3. shutdown_timer = 0
          BY <1>9 DEF shutdown
        <5> QED BY <5>1, <5>2, <5>3 DEF SosInv
      <4>2. SosBegin(sos_index + 1) \in 1..73
        BY <4>1, Entry
      <4> QED BY <4>1, <4>2, BootAssumption
    <3>2. UNCHANGED lightVars
      BY <1>9 DEF shutdown
    <3> QED BY <3>1, <3>2 DEF SosInv, Distress, lightVars, timerVars
  <2>7. TimeoutAnswered'
    <3>1. default_conn => registered /\ link \in {"up", "closing"}
      BY DEF OwnsConnection, StateTypeOK
    <3>2. "disconnect" \in Faults \/ forced' \/ link' = "closing"
      <4>1. CASE default_conn
        BY <1>9, <3>1, <4>1 DEF shutdown, Disconnected
      <4>2. CASE ~default_conn
        BY <1>9, <4>2 DEF shutdown, disconnected
      <4> QED BY <4>1, <4>2
    <3> QED BY <3>2 DEF TimeoutAnswered
  <2>8. LedOffAsleep'
    BY <1>9
       DEF StateTypeOK, LedOffAsleep, Awake, SosInv, Distress, BootInv,
           shutdown, Disconnected, disconnected, Unref
  <2> QED BY <2>1, <2>2, <2>3, <2>4, <2>5, <2>6, <2>7, <2>8
<1>10. CASE Blink
  <2>1. LightTypeOK'
    <3>1. CASE ~Distress
      BY <1>10, <3>1 DEF LightTypeOK, Blink, blink_expiry_function, Counted
    <3>2. CASE Distress /\ sos_index' = SosLength
      BY <1>10, <3>2 DEF LightTypeOK, Blink, blink_expiry_function, SosEnd
    <3>3. CASE Distress /\ sos_index' # SosLength
      <4>1. sos_index' \in 0..35 /\ blink_left' = sos_sequence[sos_index']
            /\ LED' = 1 - (sos_index' % 2)
            /\ UNCHANGED <<blink_counter, blink_period>>
        BY <1>10, <3>3 DEF LightTypeOK, Blink, blink_expiry_function
      <4>2. sos_sequence[sos_index'] \in 1..8
        BY <4>1, Entry
      <4>3. blink_left' \in Stopped..8
        BY <4>1, <4>2
      <4>4. LED' \in 0..1
        <5>1. \A n \in Nat : n % 2 \in 0..1
          OBVIOUS
        <5>2. sos_index' \in Nat
          BY <4>1
        <5>3. sos_index' % 2 \in 0..1
          BY <5>1, <5>2
        <5>4. PICK r \in 0..1 : r = sos_index' % 2
          BY <5>3
        <5>5. LED' = 1 - r
          BY <4>1, <5>4
        <5> QED BY <5>5
      <4>5. sos_index' \in -1..SosLength
        BY <4>1
      <4> QED BY <4>1, <4>3, <4>4, <4>5 DEF LightTypeOK
    <3> QED BY <3>1, <3>2, <3>3
  <2>2. StateTypeOK'
    BY <1>10
       DEF StateTypeOK, OwnsConnection, Blink, blink_expiry_function, SosEnd,
           bootVars, linkVars
  <2>3. FlagTypeOK'
    BY <1>10
       DEF FlagTypeOK, Blink, blink_expiry_function, SosEnd, bootVars,
           linkVars
  <2>4. OwnsConnection'
    BY <1>10
       DEF FlagTypeOK, StateTypeOK, OwnsConnection, BootInv, Blink,
           blink_expiry_function, SosEnd, bootVars, linkVars
  <2>5. BootInv'
    BY <1>10, BootAssumption
       DEF StateTypeOK, BootInv, Booting, Distress, OwnsConnection, Blink,
           blink_expiry_function, SosEnd, bootVars, linkVars
  <2>6. SosInv'
    <3>1. CASE ~Distress
      BY <1>10, <3>1 DEF SosInv, Distress, Blink, blink_expiry_function
    <3>2. CASE Distress /\ sos_index' = SosLength
      BY <1>10, <3>2 DEF SosInv, Blink, blink_expiry_function, SosEnd
    <3>3. CASE Distress /\ sos_index' # SosLength
      <4>1. /\ sos_index \in 0..34 /\ sos_index' = sos_index + 1 /\ blink_left = 0
            /\ blink_left' = sos_sequence[sos_index']
            /\ forced' = forced /\ shutdown_timer' = shutdown_timer
        BY <1>10, <3>3 DEF LightTypeOK, Blink, blink_expiry_function, Distress
      <4>2. ~forced /\ SosBegin(sos_index + 1) + shutdown_timer >= ShutdownDelay - BootMax
        <5>1. SosBegin(sos_index + 1) \in Int /\ sos_index # SosLength
          BY <4>1, Entry
        <5> QED BY <3>3, <4>1, <5>1 DEF SosInv
      <4>3. /\ sos_sequence[sos_index'] \in 1..8
            /\ SosBegin(sos_index' + 1) = SosBegin(sos_index') + sos_sequence[sos_index']
            /\ SosBegin(sos_index + 1) \in Int /\ SosBegin(sos_index' + 1) \in Int
        BY <4>1, Entry
      <4> DEFINE B == SosBegin(sos_index' + 1)
      <4>4. B - blink_left' + shutdown_timer' >= ShutdownDelay - BootMax
        BY <4>1, <4>2, <4>3
      <4>5. blink_left' \in 0..sos_sequence[sos_index'] /\ sos_index' # SosLength
        BY <4>1, <4>3
      <4> QED BY <4>1, <4>2, <4>4, <4>5 DEF SosInv
    <3> QED BY <3>1, <3>2, <3>3
  <2>7. TimeoutAnswered'
    BY <1>10
       DEF TimeoutAnswered, Awake, OwnsConnection, BootInv, Booting, Blink,
           blink_expiry_function, SosEnd, bootVars, linkVars
  <2>8. LedOffAsleep'
    BY <1>10
       DEF StateTypeOK, LedOffAsleep, Awake, SosInv, Distress, BootInv, Blink,
           blink_expiry_function
  <2> QED BY <2>1, <2>2, <2>3, <2>4, <2>5, <2>6, <2>7, <2>8
<1>11. CASE Sleep
  <2>0. set_blink_intensity("BI_OFF") =>
       /\ LED' \in 0..1 /\ sos_index' \in -1..SosLength /\ blink_counter' = blink_counter
       /\ blink_left' \in Stopped..8 /\ blink_period' \in {0, 1, 2, 4}
       /\ sos_index' = sos_index
       /\ Distress => LED' = LED /\ blink_left' = blink_left
       /\ ~Distress => LED' = 0
    BY Picture DEF Pictures
  <2>1. LightTypeOK'
    BY <1>11, <2>0 DEF LightTypeOK, Sleep, sys_pm_notify_power_state_entry
  <2>2. StateTypeOK'
    BY <1>11, <2>0
       DEF StateTypeOK, OwnsConnection, Sleep,
           sys_pm_notify_power_state_entry, bootVars, linkVars
  <2>3. FlagTypeOK'
    BY <1>11, <2>0
       DEF FlagTypeOK, Sleep, sys_pm_notify_power_state_entry, bootVars,
           linkVars
  <2>4. OwnsConnection'
    BY <1>11, <2>0
       DEF FlagTypeOK, StateTypeOK, OwnsConnection, BootInv, Sleep,
           sys_pm_notify_power_state_entry, bootVars, linkVars
  <2>5. BootInv'
    BY <1>11, <2>0, BootAssumption
       DEF StateTypeOK, BootInv, Booting, Distress, OwnsConnection, Sleep,
           sys_pm_notify_power_state_entry, bootVars, linkVars
  <2>6. SosInv'
    BY <1>11, <2>0, BootAssumption, FirstEntry, Entry
       DEF StateTypeOK, LightTypeOK, SosInv, Distress, BootInv, Booting,
           Sleep, sys_pm_notify_power_state_entry
  <2>7. TimeoutAnswered'
    BY <1>11, <2>0
       DEF TimeoutAnswered, Awake, OwnsConnection, BootInv, Booting, Sleep
  <2>8. LedOffAsleep'
    BY <1>11, <2>0
       DEF StateTypeOK, LedOffAsleep, Awake, SosInv, Distress, BootInv, Sleep,
           sys_pm_notify_power_state_entry
  <2> QED BY <2>1, <2>2, <2>3, <2>4, <2>5, <2>6, <2>7, <2>8
<1>12. CASE Tick
  <2>1. LightTypeOK'
    BY <1>12 DEF LightTypeOK, Tick, Ran
  <2>2. StateTypeOK'
    BY <1>12 DEF StateTypeOK, OwnsConnection, Tick, Ran, bootVars, linkVars
  <2>3. FlagTypeOK'
    BY <1>12 DEF FlagTypeOK, Tick, Ran, bootVars, linkVars
  <2>4. OwnsConnection'
    BY <1>12
       DEF FlagTypeOK, StateTypeOK, OwnsConnection, BootInv, Tick, Ran,
           bootVars, linkVars
  <2>5. BootInv'
    BY <1>12, BootAssumption
       DEF StateTypeOK, BootInv, Booting, Distress, OwnsConnection, Tick, Ran,
           bootVars, linkVars
  <2>6. SosInv'
    <3> SUFFICES ASSUME Distress PROVE SosInv'
      BY <1>12 DEF SosInv, Distress, Tick
    <3>1. UNCHANGED <<LED, sos_index, forced>> /\ shutdown_timer # 0 /\ blink_left # 0
          /\ blink_left' = Ran(blink_left) /\ shutdown_timer' = Ran(shutdown_timer)
      BY <1>12 DEF Tick
    <3>2. CASE sos_index = SosLength
      BY <3>1, <3>2 DEF SosInv, Ran
    <3>3. CASE sos_index # SosLength
      <4>1. sos_index \in 0..35
        BY <3>3 DEF LightTypeOK, Distress
      <4>2. SosBegin(sos_index + 1) \in 1..73 /\ sos_sequence[sos_index] \in 1..8
        BY <4>1, Entry
      <4>3. /\ ~forced /\ blink_left \in 0..sos_sequence[sos_index]
            /\ SosBegin(sos_index + 1) - blink_left + shutdown_timer >= ShutdownDelay - BootMax
        BY <3>3 DEF SosInv
      <4>4. blink_left' = blink_left - 1 /\ shutdown_timer' = shutdown_timer - 1
        BY <3>1, <4>2, <4>3, BootAssumption DEF Ran
      <4>5. blink_left' \in 0..sos_sequence[sos_index]
        BY <3>1, <4>2, <4>3, <4>4
      <4>6. SosBegin(sos_index + 1) - blink_left' + shutdown_timer' >= ShutdownDelay - BootMax
        BY <4>2, <4>3, <4>4 DEF StateTypeOK
      <4> QED BY <3>1, <3>3, <4>3, <4>5, <4>6 DEF SosInv
    <3> QED BY <3>2, <3>3
  <2>7. TimeoutAnswered'
    BY <1>12
       DEF TimeoutAnswered, Awake, OwnsConnection, BootInv, Booting, Tick,
           Ran, linkVars
  <2>8. LedOffAsleep'
    BY <1>12
       DEF StateTypeOK, LedOffAsleep, Awake, SosInv, Distress, BootInv, Tick
  <2> QED BY <2>1, <2>2, <2>3, <2>4, <2>5, <2>6, <2>7, <2>8
<1>13. CASE UNCHANGED vars
  BY <1>13
     DEF IInv, TypeOK, LightTypeOK, StateTypeOK, FlagTypeOK, OwnsConnection,
         BootInv, Booting, SosInv, Distress, TimeoutAnswered, Awake,
         LedOffAsleep, vars, lightVars, timerVars, bootVars, linkVars
<1> QED
  BY <1>1, <1>2, <1>3, <1>4, <1>5, <1>6, <1>7, <1>8, <1>9, <1>10, <1>11,
     <1>12, <1>13
     DEF Next

-----------------------------------------------------------------------------
(* Theorems.                                                               *)

\* IInv holds in every reachable state: how far the start is, how far the
\* distress signal is, and who holds the connection fit together.
THEOREM Invariance == Spec => []IInv
  BY InitIInv, NextIInv, PTL DEF Spec

\* Every variable keeps its range.
THEOREM TypeCorrect == Spec => []TypeOK
<1>1. IInv => TypeOK
  BY DEF IInv
<1> QED BY <1>1, Invariance, PTL

\* No reference is leaked or given back twice, and default_conn is a
\* connection the stack has (connected, disconnected, shutdown).
THEOREM ConnectionOwned == Spec => []OwnsConnection
<1>1. IInv => OwnsConnection
  BY DEF IInv
<1> QED BY <1>1, Invariance, PTL

\* Once the one-shot shutdown_timer has fired, the coin is about to sleep or
\* its connection about to end.
THEOREM TimeoutIsAnswered == Spec => []TimeoutAnswered
<1>1. IInv => TimeoutAnswered
  BY DEF IInv
<1> QED BY <1>1, Invariance, PTL

\* The LED of a sleeping coin is dark (sys_pm_notify_power_state_entry),
\* although the distress signal ignores BI_OFF.
THEOREM DarkAsleep == Spec => []LedOffAsleep
<1>1. IInv => LedOffAsleep
  BY DEF IInv
<1> QED BY <1>1, Invariance, PTL

\* The distress signal is shown to its end before the coin sleeps: the 73
\* units it takes fit between BootMax and the 80 of shutdown_timer.
THEOREM SignalComplete == Spec => SosShown
<1> DEFINE Shown == Sleep /\ Distress => sos_index = SosLength
<1>1. IInv => Shown
  BY DEF IInv, SosInv, Sleep
<1>2. IInv => [Shown]_vars
  BY <1>1
<1> HIDE DEF Shown
<1>3. Spec => [][Shown]_vars
  BY <1>2, Invariance, PTL DEF Spec
<1> QED
  BY <1>3 DEF Shown, SosShown

=============================================================================
