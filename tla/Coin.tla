-------------------------------- MODULE Coin --------------------------------
(***************************************************************************)
(* A key fob from the press of its button to deep sleep: src/coin/src/     *)
(* main.c with the LED of CoinLight.                                       *)
(*                                                                         *)
(* main runs in a preemptible thread, bt_ready and shutdown in the work    *)
(* queue, connected and disconnected in the stack's receive thread,        *)
(* blink_expiry_function in the clock's interrupt, and the idle thread     *)
(* puts the chip to sleep when a power state is forced.  The stack, the    *)
(* radio and the base station are external.                                *)
(***************************************************************************)
EXTENDS CoinLight

CONSTANTS
  BootMax,        \* main and the stack's start take at most this time
  Faults          \* the calls that may fail

Calls == {"bt_enable", "bt_ready", "settings_load", "adv_start",
          "connection", "security", "disconnect"}

ASSUME FaultAssumption == Faults \subseteq Calls

K_SECONDS(n) == 8 * n

\* The distress signal takes 73 units: begun in time it is over when
\* shutdown_timer expires.
ASSUME BootAssumption == BootMax \in Nat /\ BootMax + 73 < K_SECONDS(10)

VARIABLES
  power,          \* "off": deep sleep, of which the button is the only way out
  main,           \* how far main is: "start", "started",
                  \* "enabled", "returned"
  registered,     \* the stack knows conn_callbacks
  bt,             \* the stack's start
  advertising,    \* bt_le_adv_start has succeeded: the stack advertises
                  \* whenever it has no connection
  link,           \* the stack's connection object
  default_conn,   \* it is not NULL
  refs,           \* references the application holds on connection objects
  shutdown_timer  \* time left, or Stopped

bootVars == <<main, registered, bt, advertising>>
linkVars == <<link, default_conn, refs>>
vars     == <<lightVars, forced, power, bootVars, linkVars, shutdown_timer>>

-----------------------------------------------------------------------------
Init ==
  /\ LightInit /\ power = "off"
  /\ main = "start" /\ registered = FALSE /\ bt = "off" /\ advertising = FALSE
  /\ link = "none" /\ default_conn = FALSE /\ refs = 0
  /\ shutdown_timer = Stopped

MayFail(call) == IF call \in Faults THEN BOOLEAN ELSE {FALSE}
Awake == power = "on"

\* The button of a sleeping coin resets the chip.
wake_up ==
  /\ ~Awake
  /\ LightReset /\ power' = "on"
  /\ main' = "start" /\ registered' = FALSE /\ bt' = "off" /\ advertising' = FALSE
  /\ link' = "none" /\ default_conn' = FALSE /\ refs' = 0
  /\ shutdown_timer' = Stopped

\* Mutant of ShutdownDelay: a second less.
ShorterDelay == K_SECONDS(9)

ShutdownDelay == K_SECONDS(10)

\* main up to the stack's start: io_init switches the LED on.
main_start ==
  /\ Awake /\ main = "start"
  /\ main' = "started"
  /\ shutdown_timer' = ShutdownDelay
  /\ set_blink_intensity("BI_ON")
  /\ UNCHANGED <<forced, power, registered, bt, advertising, linkVars>>

main_enable ==
  /\ Awake /\ main = "started"
  /\ \/ /\ "bt_enable" \in Faults
        /\ main' = "returned" /\ bt' = "failed"
        /\ set_blink_intensity("BI_SOS")
     \/ /\ main' = "enabled" /\ bt' = "init"
        /\ UNCHANGED lightVars
  /\ UNCHANGED <<forced, power, registered, advertising, linkVars, shutdown_timer>>

\* The rest of main, which may be preempted by all that bt_enable began.
main_register ==
  /\ Awake /\ main = "enabled"
  /\ main' = "returned" /\ registered' = TRUE
  /\ UNCHANGED <<lightVars, forced, power, bt, advertising, linkVars, shutdown_timer>>

\* Mutant of bt_ready: it goes on after settings_load failed.
bt_ready_unloaded ==
  /\ Awake /\ bt = "init"
  /\ bt' = "ready"
  /\ \/ "settings_load" \in Faults /\ set_blink_intensity("BI_SOS")
     \/ UNCHANGED lightVars
  /\ \E failed \in MayFail("adv_start") : advertising' = ~failed
  /\ UNCHANGED <<forced, power, main, registered, linkVars, shutdown_timer>>

bt_ready ==
  /\ Awake /\ bt = "init"
  /\ \/ /\ "bt_ready" \in Faults
        /\ bt' = "failed"
        /\ UNCHANGED <<lightVars, advertising>>
     \/ /\ "settings_load" \in Faults
        /\ bt' = "ready"
        /\ set_blink_intensity("BI_SOS")
        /\ UNCHANGED advertising
     \/ /\ bt' = "ready"
        /\ \E failed \in MayFail("adv_start") : advertising' = ~failed
        /\ UNCHANGED lightVars
  /\ UNCHANGED <<forced, power, main, registered, linkVars, shutdown_timer>>

-----------------------------------------------------------------------------
(* Connections.                                                            *)

\* bt_conn_disconnect, whose result is ignored.
Disconnected(l) ==
  IF l # "up" THEN {l} ELSE {"closing"} \cup (IF "disconnect" \in Faults THEN {l} ELSE {})

\* Mutant of Unref: disconnected only clears the pointer.
UnrefForgotten == UNCHANGED refs

Unref == refs' = IF default_conn THEN refs - 1 ELSE refs

\* Mutant of disconnected: a coin without a connection stays awake.
disconnected_awake ==
  Unref /\ default_conn' = FALSE /\ forced' = (forced \/ default_conn)

disconnected == Unref /\ default_conn' = FALSE /\ forced' = TRUE

\* connected, called with an error.
connected_err ==
  /\ Awake /\ advertising /\ link = "none" /\ "connection" \in Faults
  /\ IF registered THEN disconnected ELSE UNCHANGED <<refs, default_conn, forced>>
  /\ UNCHANGED <<lightVars, power, bootVars, link, shutdown_timer>>

\* connected, called with a new connection.  An old one is given back twice,
\* and the coin goes to sleep at once: the stack never has two.
connected ==
  /\ Awake /\ advertising /\ link = "none"
  /\ \/ /\ registered
        /\ default_conn' = TRUE
        /\ refs' = refs + (IF default_conn THEN -1 ELSE 1)
        /\ forced' = (forced \/ default_conn)
        /\ \E failed \in MayFail("security") :
             link' \in IF failed THEN Disconnected("up") ELSE {"up"}
        /\ set_blink_intensity("BI_AGGRESSIVE")
     \/ /\ ~registered
        /\ link' = "up"
        /\ UNCHANGED <<default_conn, refs, forced, lightVars>>
  /\ UNCHANGED <<power, bootVars, shutdown_timer>>

\* The stack reports the end of a connection: the base station's doing, the
\* radio's, or the one requested here.
disconnected_cb ==
  /\ Awake /\ link # "none"
  /\ link' = "none"
  /\ IF registered THEN disconnected ELSE UNCHANGED <<refs, default_conn, forced>>
  /\ UNCHANGED <<lightVars, power, bootVars, shutdown_timer>>

-----------------------------------------------------------------------------
(* Going to sleep.                                                         *)

shutdown ==
  /\ Awake /\ shutdown_timer = 0
  /\ shutdown_timer' = Stopped
  /\ \/ /\ default_conn
        /\ link' \in Disconnected(link)
        /\ UNCHANGED <<refs, default_conn, forced>>
     \/ /\ ~default_conn
        /\ disconnected
        /\ UNCHANGED link
  /\ UNCHANGED <<lightVars, power, bootVars>>

\* Mutant of sys_pm_notify_power_state_entry: the LED is left alone.
notify_nothing == UNCHANGED lightVars

sys_pm_notify_power_state_entry == set_blink_intensity("BI_OFF")

\* The idle thread enters the forced state.  What is in RAM then is lost, but
\* the pin keeps its level.
Sleep ==
  /\ Awake /\ forced
  /\ power' = "off"
  /\ sys_pm_notify_power_state_entry
  /\ UNCHANGED <<forced, bootVars, linkVars, shutdown_timer>>

Booting == main # "returned" \/ bt = "init"

Ran(t) == IF t > 0 THEN t - 1 ELSE t

\* Time passes when no timer is due, and while the coin boots at most BootMax.
Tick ==
  /\ Awake /\ main # "start"
  /\ blink_left # 0 /\ shutdown_timer # 0
  /\ Booting => shutdown_timer > ShutdownDelay - BootMax
  /\ blink_left' = Ran(blink_left) /\ shutdown_timer' = Ran(shutdown_timer)
  /\ UNCHANGED <<LED, sos_index, blink_counter, blink_period, forced, power,
                 bootVars, linkVars>>

Blink ==
  /\ Awake /\ blink_expiry_function
  /\ UNCHANGED <<power, bootVars, linkVars, shutdown_timer>>

Next ==
  \/ wake_up
  \/ main_start
  \/ main_enable
  \/ main_register
  \/ bt_ready
  \/ connected_err
  \/ connected
  \/ disconnected_cb
  \/ shutdown
  \/ Blink
  \/ Sleep
  \/ Tick

Spec == Init /\ [][Next]_vars

-----------------------------------------------------------------------------
(* Properties.                                                             *)

StateTypeOK ==
  /\ power \in {"on", "off"}
  /\ main \in {"start", "started", "enabled", "returned"}
  /\ bt \in {"off", "init", "ready", "failed"}
  /\ link \in {"none", "up", "closing"} /\ refs \in Int
  /\ shutdown_timer \in Stopped..ShutdownDelay

FlagTypeOK == {forced, registered, advertising, default_conn} \subseteq BOOLEAN

\* Every variable keeps its range.
TypeOK == LightTypeOK /\ StateTypeOK /\ FlagTypeOK

\* No reference is leaked or given back twice, whichever of the stack and
\* shutdown comes first, and default_conn is a connection the stack has:
\* connected never meets an old one.
OwnsConnection ==
  /\ refs = IF default_conn THEN 1 ELSE 0
  /\ default_conn => registered /\ link # "none"

\* "turning the LED off before sleep" (main.c:22): a sleeping coin's LED is
\* dark, even though the distress signal ignores BI_OFF.
LedOffAsleep == ~Awake => LED = 0

\* The distress signal of io.c is shown to its end: shutdown_timer, which runs
\* since the button was pressed, does not cut it short.
SosShown == [][Sleep /\ Distress => sos_index = SosLength]_vars

\* shutdown_timer fires once only, and that is enough: from then on the coin
\* is about to sleep or its connection about to end.
TimeoutAnswered ==
  Awake /\ main # "start" /\ shutdown_timer = Stopped /\ "disconnect" \notin Faults =>
    forced \/ link = "closing"

-----------------------------------------------------------------------------
(* The inductive invariant of CoinProofs.                                  *)

\* How far the start is, and that nothing runs ahead of it.
BootInv ==
  /\ main \in {"start", "started"} => bt = "off"
  /\ main \in {"start", "started"} \/ bt = "init" => ~Distress /\ ~forced
  /\ registered => main = "returned"
  /\ advertising => bt = "ready" /\ ~Distress
  /\ link # "none" => advertising
  /\ link = "closing" => registered
  /\ IF main = "start" THEN shutdown_timer = Stopped
     ELSE Booting => shutdown_timer >= ShutdownDelay - BootMax

\* When entry i of the distress signal begins.
Entries(n, length) == (n \div 2) * (length + 1) + (n % 2) * length
SosBegin(i) ==
  IF      i < 6  THEN Entries(i, 2)
  ELSE IF i < 12 THEN 9 + Entries(i - 6, 4)
  ELSE IF i < 18 THEN 24 + Entries(i - 12, 2)
  ELSE IF i < 24 THEN 40 + Entries(i - 18, 2)
  ELSE IF i < 30 THEN 49 + Entries(i - 24, 4)
  ELSE IF i < 36 THEN 64 + Entries(i - 30, 2) ELSE 73

\* A distress signal began before BootMax, runs without a gap, and the coin
\* does not fall asleep before its end, which is dark.
SosInv ==
  Distress =>
    IF sos_index = SosLength
    THEN LED = 0 /\ blink_left = Stopped
    ELSE /\ ~forced
         /\ blink_left \in 0..sos_sequence[sos_index]
         /\ SosBegin(sos_index + 1) - blink_left + shutdown_timer >=
              ShutdownDelay - BootMax

IInv ==
  TypeOK /\ OwnsConnection /\ BootInv /\ SosInv /\ TimeoutAnswered /\ LedOffAsleep

-----------------------------------------------------------------------------
(* Progress.                                                               *)

\* The threads run, time passes, and the stack ends a connection it was asked
\* to end.  Nobody has to press the button, to connect or to disconnect.
Fairness ==
  /\ WF_vars(main_start) /\ WF_vars(main_enable) /\ WF_vars(main_register)
  /\ WF_vars(bt_ready) /\ WF_vars(shutdown) /\ WF_vars(Blink) /\ WF_vars(Sleep)
  /\ WF_vars(Tick) /\ WF_vars(link = "closing" /\ disconnected_cb)

FairSpec == Spec /\ Fairness

\* Whatever the base station does, and whatever fails but the disconnection,
\* the battery is not drained: the coin goes back to sleep.
GoesToSleep == Awake ~> ~Awake

=============================================================================
