------------------------------ MODULE Central ------------------------------
(***************************************************************************)
(* The door's base station: src/central-onchip/src/main.c.                 *)
(*                                                                         *)
(* The BLE stack calls the handlers of main.c one at a time (its receive   *)
(* thread and the system work queue are cooperative), so each handler is   *)
(* one action.  The stack itself, the radio and the coin at the other end  *)
(* are external: their part of the state is what main.c can observe of     *)
(* them.  A call into the stack fails only if its name is in Faults.       *)
(***************************************************************************)
EXTENDS Integers, Sequences, FiniteSets

CONSTANTS
  Coins,          \* Bluetooth addresses of the key fobs
  NoCoin,         \* NULL in default_conn
  Bonded,         \* coins the loaded bond store knows
  Keys, NoKey,    \* space keys; NoKey: no slot of the key table has the address,
                  \* and the zeroed key of a coin without one
  SpaceKey,       \* the central's key for each coin
  CoinKey,        \* the key each coin was flashed with; NoKey: with none
  RespLen,        \* size of a response, in blocks
  FeedPeriod,     \* period of watchdog_timer, in ticks    (2500 ms)
  WdtWindow,      \* watchdog window, in ticks             (5000 ms)
  ConnTimeout,    \* delay of timeout_timer, in ticks      (5 s)
  Faults          \* the stack calls that may fail

Calls == {"bt_enable", "bt_ready", "scan_start", "create", "security",
          "discover", "subscribe", "rand", "write", "read", "disconnect"}

ASSUME CoinAssumption  == NoCoin \notin Coins /\ Bonded \subseteq Coins
ASSUME KeyAssumption   == /\ NoKey \notin Keys
                          /\ SpaceKey \in [Coins -> Keys \cup {NoKey}]
                          /\ CoinKey \in [Coins -> Keys \cup {NoKey}]
ASSUME LenAssumption   == RespLen \in Nat \ {0}
ASSUME TimeAssumption  == /\ FeedPeriod \in Nat \ {0}
                          /\ WdtWindow \in Nat /\ FeedPeriod < WdtWindow
                          /\ ConnTimeout \in Nat /\ WdtWindow <= ConnTimeout
ASSUME FaultAssumption == Faults \subseteq Calls

VARIABLES
  ble_stack_running,     \* helper.c: the configuration commands are locked out
  bt,                    \* state of the stack's initialisation
  registered,            \* conn_callbacks are known to the stack
  scanning,              \* the stack is scanning and calls device_found
  default_conn,          \* the connection the application works on
  refs,                  \* references the application holds on connection objects
  conn,                  \* the connection object of the stack (it has one only)
  link,                  \* the state of that object
  unreported,            \* history: no callback was called for what has become of
                         \* default_conn, it was established or lost too early
  enc,                   \* the security level this connection was reported at
  security_established,
  timer,                 \* ticks left of timeout_timer, or Off
  uuid,                  \* discover_params.uuid
  att,                   \* ATT requests the stack has yet to answer, in order
  sub,                   \* the peer subscribe_params is registered for
  challenge,             \* whose draw the buffer holds: see Age
  response,              \* the digest each block of the buffer comes from
  offset,                \* read_params.single.offset
  served,                \* the coin's response buffer in this connection
  indicated,             \* the coin has indicated that response
  leds,
  i_want_to_die,
  feed,                  \* ticks left of watchdog_timer
  wdt                    \* ticks left of the watchdog

stackVars == <<ble_stack_running, bt, registered>>
connVars  == <<scanning, default_conn, refs, conn, unreported>>
secVars   == <<enc, security_established>>
gattVars  == <<uuid, att, sub, offset>>
authVars  == <<challenge, response>>
coinVars  == <<served, indicated>>
clockVars == <<feed, wdt>>
baseVars  == <<stackVars, connVars, timer, i_want_to_die, clockVars>>
talkVars  == <<secVars, gattVars, authVars, coinVars, leds>>
vars      == <<baseVars, link, talkVars>>

-----------------------------------------------------------------------------
Off == -1

\* Random numbers are told apart by their age only: zeroed, drawn in this
\* connection, or left over from an earlier draw.
Age      == {"zero", "fresh", "stale"}
Old(age) == IF age = "fresh" THEN "stale" ELSE age

\* A digest is the pair of what blake2s was given.
Digest       == (Keys \cup {NoKey}) \X Age
NoDigest     == <<NoKey, "zero">>
OldDigest(d) == <<d[1], Old(d[2])>>
Zeroed       == [i \in 1..RespLen |-> NoDigest]

Requests == {"discover", "subscribe", "write", "read"}
Uuids    == {"null", "service", "challenge", "response", "ccc"}
NextUuid == [u \in {"service", "challenge", "response"} |->
               CASE u = "service"   -> "challenge"
                 [] u = "challenge" -> "response"
                 [] u = "response"  -> "ccc"]

Init ==
  /\ ble_stack_running = FALSE /\ bt = "off"
  /\ registered = FALSE /\ unreported = FALSE
  /\ scanning = FALSE /\ default_conn = NoCoin /\ refs = 0
  /\ conn = NoCoin /\ link = "none"
  /\ enc = "none" /\ security_established = FALSE
  /\ timer = Off
  /\ uuid = "null" /\ att = <<>> /\ sub = NoCoin /\ offset = 0
  /\ challenge = "zero" /\ response = Zeroed
  /\ served = NoDigest /\ indicated = FALSE
  /\ leds = "off"
  /\ i_want_to_die = FALSE /\ feed = FeedPeriod /\ wdt = WdtWindow

-----------------------------------------------------------------------------
(* The calls into the stack.                                               *)

MayFail(call) == IF call \in Faults THEN BOOLEAN ELSE {FALSE}

\* A GATT call on a connection that is being torn down returns -ENOTCONN.
GattMayFail(call) == IF link = "up" THEN MayFail(call) ELSE {TRUE}

\* Mutant of ScanStart: the call is forgotten.
ScanForgotten(before) == scanning' = before

\* bt_le_scan_start; before: was the scanner running when it is called?
ScanStart(before) ==
  scanning' \in IF "scan_start" \in Faults THEN {before, TRUE} ELSE {TRUE}

\* bt_conn_disconnect requests the end of a connection whose state is l.
AfterDisconnect(l) ==
  IF l # "up" THEN {l}
  ELSE IF "disconnect" \in Faults THEN {"up", "closing"} ELSE {"closing"}

Linked == link \in {"up", "closing"}

\* Mutants of Unref: the reference leaks, or is given back twice.
UnrefForgotten == refs' = refs
UnrefTwice     == refs' = IF default_conn # NoCoin THEN refs - 2 ELSE refs

\* bt_conn_unref, on the connection objects the application references.
Unref == refs' = IF default_conn # NoCoin THEN refs - 1 ELSE refs

\* Mutant of Validate: the test of spaceauth_validate's result is inverted.
ValidateInverted(c, ch, resp) ==
  ~(SpaceKey[c] # NoKey /\ \A i \in 1..RespLen : resp[i] = <<SpaceKey[c], ch>>)

\* spaceauth_validate compares with the digest of the challenge buffer.
Validate(c, ch, resp) ==
  /\ SpaceKey[c] # NoKey
  /\ \A i \in 1..RespLen : resp[i] = <<SpaceKey[c], ch>>

\* Mutant of Written: the copy starts one block early.
WrittenShifted(resp, from, len, d) ==
  [i \in 1..RespLen |-> IF from <= i /\ i < from + len THEN d ELSE resp[i]]

\* The copy of len blocks to the given offset of the response buffer.
Written(resp, from, len, d) ==
  [i \in 1..RespLen |-> IF from < i /\ i <= from + len THEN d ELSE resp[i]]

-----------------------------------------------------------------------------
(* Start-up, scanning and connecting.                                      *)

helper_ble_running == ble_stack_running' = TRUE

cmd_ble_start ==
  /\ bt = "off"
  /\ helper_ble_running
  /\ \E failed \in MayFail("bt_enable") : bt' = IF failed THEN "off" ELSE "init"
  /\ UNCHANGED <<registered, connVars, link, timer, i_want_to_die, clockVars, talkVars>>

\* The rest of cmd_ble_start.  Between the two calls the threads of the stack
\* can do any amount of work: the shell's thread has the lowest priority.
bt_conn_cb_register ==
  /\ bt # "off" /\ ~registered
  /\ registered' = TRUE
  /\ UNCHANGED <<ble_stack_running, bt, connVars, link, timer, i_want_to_die,
                 clockVars, talkVars>>

\* Until then main.c hears neither of a new connection nor of its end.
missed_callback ==
  /\ ~registered
  /\ \/ link = "creating" /\ link' = "up" /\ UNCHANGED conn
     \/ link # "none" /\ link' = "none" /\ conn' = NoCoin
  /\ unreported' = TRUE
  /\ UNCHANGED <<stackVars, scanning, default_conn, refs, timer, i_want_to_die,
                 clockVars, talkVars>>

bt_ready_cb ==
  /\ bt = "init"
  /\ \E err \in MayFail("bt_ready") :
       IF err THEN bt' = "failed" /\ UNCHANGED scanning
              ELSE bt' = "ready"  /\ ScanStart(scanning)
  /\ UNCHANGED <<ble_stack_running, registered, default_conn, refs, conn, unreported,
                 link, timer, i_want_to_die, clockVars, talkVars>>

\* A failing bt_le_scan_stop leaves the scanner running: nothing changes.
\* bt_conn_create_le has one connection object to give.
device_found(c) ==
  /\ scanning /\ default_conn = NoCoin /\ c \in Bonded
  /\ \E failed \in IF link # "none" \/ refs > 0 THEN {TRUE} ELSE MayFail("create") :
       IF failed
       THEN ScanStart(FALSE) /\ UNCHANGED <<default_conn, refs, conn, link>>
       ELSE /\ scanning' = FALSE
            /\ default_conn' = c /\ refs' = refs + 1
            /\ conn' = c /\ link' = "creating"
  /\ UNCHANGED <<stackVars, unreported, timer, i_want_to_die, clockVars, talkVars>>

connected_err ==
  /\ registered /\ link = "creating"
  /\ security_established' = FALSE
  /\ link' = "none" /\ conn' = NoCoin
  /\ Unref /\ default_conn' = NoCoin
  /\ ScanStart(scanning)
  /\ UNCHANGED <<stackVars, unreported, enc, timer, gattVars, authVars, coinVars,
                 leds, i_want_to_die, clockVars>>

\* Mutants of the two calls on timeout_timer: the call is forgotten.
SubmitForgotten == UNCHANGED timer
CancelForgotten == UNCHANGED timer

k_delayed_work_submit == timer' = ConnTimeout
k_delayed_work_cancel == timer' = Off

\* What the buffers hold from earlier connections is stale from here on.
connected_cb ==
  /\ registered /\ link = "creating"
  /\ security_established' = FALSE
  /\ challenge' = Old(challenge)
  /\ response' = [i \in 1..RespLen |-> OldDigest(response[i])]
  /\ IF conn = default_conn
     THEN /\ leds' = "busy" /\ k_delayed_work_submit
          /\ \E failed \in MayFail("security") :
               link' \in IF failed THEN AfterDisconnect("up") ELSE {"up"}
     ELSE link' = "up" /\ UNCHANGED <<leds, timer>>
  /\ UNCHANGED <<stackVars, connVars, enc, gattVars, coinVars, i_want_to_die,
                 clockVars>>

\* Mutants of StartsDiscovery: without the latch, and for any level.
WithoutLatch(level)    == conn = default_conn /\ level = "L4"
WithoutLevel(level)    == ~security_established /\ conn = default_conn

StartsDiscovery(level) ==
  ~security_established /\ conn = default_conn /\ level = "L4"

\* An encrypted connection stays encrypted: a report that follows level 4 is of
\* an attempt that changed nothing.
security_changed_cb(level) ==
  /\ registered /\ Linked
  /\ enc' = IF enc = "L4" THEN enc ELSE level
  /\ IF StartsDiscovery(level)
     THEN /\ security_established' = TRUE
          /\ uuid' = "service"
          /\ \E failed \in GattMayFail("discover") :
               att' = IF failed THEN att ELSE Append(att, "discover")
     ELSE UNCHANGED <<security_established, uuid, att>>
  /\ UNCHANGED <<baseVars, link, sub, offset, authVars, coinVars, leds>>

-----------------------------------------------------------------------------
(* Discovery, subscription and the challenge.                              *)

Pending(request) == Linked /\ att # <<>> /\ Head(att) = request

\* The service or one of the characteristics is found: search the next one.
discover_next ==
  /\ Pending("discover") /\ uuid \in DOMAIN NextUuid
  /\ uuid' = NextUuid[uuid]
  /\ \E failed \in GattMayFail("discover") :
       IF failed
       THEN att' = Tail(att) /\ link' \in AfterDisconnect(link)
       ELSE att' = Append(Tail(att), "discover") /\ UNCHANGED link
  /\ UNCHANGED <<baseVars, secVars, sub, offset, authVars, coinVars, leds>>

SubscribeFailed ==
  /\ att' = Tail(att)
  /\ link' \in AfterDisconnect(link)
  /\ UNCHANGED <<uuid, sub, authVars, served>>

\* bt_rand, then bt_gatt_write behind the requests already queued.
DrawAndWrite(queued) ==
  \/ /\ TRUE \in MayFail("rand")
     /\ att' = queued
     /\ link' \in AfterDisconnect(link)
     /\ UNCHANGED <<authVars, served>>
  \/ /\ challenge' = "fresh"
     /\ response' = [i \in 1..RespLen |-> OldDigest(response[i])]
     /\ served' = OldDigest(served)
     /\ \E failed \in GattMayFail("write") :
          IF failed
          THEN att' = queued /\ link' \in AfterDisconnect(link)
          ELSE att' = Append(queued, "write") /\ UNCHANGED link

\* The CCC descriptor is found.  -EALREADY, for parameters still registered,
\* counts as success although no request is sent to this peer.
discover_ccc ==
  /\ Pending("discover") /\ uuid = "ccc"
  /\ \E failed \in GattMayFail("subscribe") :
       IF failed
       THEN SubscribeFailed
       ELSE /\ uuid' = "null"
            /\ IF sub = NoCoin
               THEN sub' = conn /\ DrawAndWrite(Append(Tail(att), "subscribe"))
               ELSE UNCHANGED sub /\ DrawAndWrite(Tail(att))
  /\ UNCHANGED <<baseVars, secVars, offset, indicated, leds>>

\* Answers no handler acts on: discover_func without an attribute, the end of
\* the subscription, write_completed_func, and read_completed_func without data.
write_completed_func ==
  /\ Linked /\ att # <<>>
  /\ att' = Tail(att)
  /\ UNCHANGED <<baseVars, link, secVars, uuid, sub, offset, authVars, coinVars,
                 leds>>

\* The coin has received the whole challenge (coin: write_challenge).
write_challenge ==
  /\ Pending("write") /\ served = NoDigest
  /\ served' = <<CoinKey[conn], challenge>>
  /\ UNCHANGED <<baseVars, link, secVars, gattVars, authVars, indicated,
                 leds>>

-----------------------------------------------------------------------------
(* The response and its check.                                             *)

\* Mutant of check_response: the buffers are not cleared.
CheckWithoutClearing(resp) ==
  /\ leds' = IF Validate(conn, challenge, resp) THEN "open" ELSE leds
  /\ UNCHANGED challenge /\ response' = resp
  /\ link' \in AfterDisconnect(link)

check_response(resp) ==
  /\ leds' = IF Validate(conn, challenge, resp) THEN "open" ELSE leds
  /\ challenge' = "zero" /\ response' = Zeroed
  /\ link' \in AfterDisconnect(link)

\* What the stack does when notify_func returns BT_GATT_ITER_STOP: it sends the
\* end of the subscription, if the connection is not being torn down already.
bt_gatt_unsubscribe ==
  IF link' = "up"
  THEN /\ sub' = NoCoin
       /\ \E failed \in MayFail("subscribe") :
            att' = IF failed THEN att ELSE Append(att, "subscribe")
  ELSE UNCHANGED <<sub, att>>

\* len blocks are indicated, the first ones of the coin's response.
notify_func(len) ==
  /\ Linked /\ sub = conn
  /\ indicated' = TRUE
  /\ LET resp == Written(response, 0, len, served) IN
     \/ /\ len < RespLen
        /\ response' = resp /\ offset' = len
        /\ UNCHANGED <<challenge, leds, sub>>
        /\ \E failed \in GattMayFail("read") :
             IF failed
             THEN UNCHANGED att /\ link' \in AfterDisconnect(link)
             ELSE att' = Append(att, "read") /\ UNCHANGED link
     \/ /\ len = RespLen
        /\ check_response(resp)
        /\ bt_gatt_unsubscribe
        /\ UNCHANGED offset
     \/ /\ len > RespLen
        /\ UNCHANGED <<att, offset, sub, authVars, leds, link>>
  /\ UNCHANGED <<baseVars, secVars, uuid, served>>

\* The assumption on the coin: it indicates its response when it has digested
\* the challenge, and once in a connection.  notify_func has no test of it;
\* Keyfob shows it of the code of the repository's coin.
coin_indicates(len) ==
  /\ served # NoDigest /\ ~indicated
  /\ notify_func(len)

\* While blocks are missing the stack itself asks for the next ones.
read_completed_func(len) ==
  /\ Pending("read")
  /\ LET resp == Written(response, offset, len, served)
         end  == offset + len IN
     \/ /\ end < RespLen
        /\ response' = resp /\ offset' = end
        /\ \E failed \in GattMayFail("read") :
             att' = IF failed THEN Tail(att) ELSE Append(Tail(att), "read")
        /\ UNCHANGED <<challenge, leds, link>>
     \/ /\ end = RespLen
        /\ check_response(resp)
        /\ offset' = 0 /\ att' = Tail(att)
     \/ /\ end > RespLen
        /\ link' \in AfterDisconnect(link)
        /\ offset' = 0 /\ att' = Tail(att)
        /\ UNCHANGED <<authVars, leds>>
  /\ UNCHANGED <<baseVars, secVars, uuid, sub, coinVars>>

-----------------------------------------------------------------------------
(* The end of a connection, time and resets.                               *)

\* The peer leaves, the link is lost or the requested disconnection is done.
\* The stack drops what was outstanding and may keep the subscription.
disconnected_cb ==
  /\ registered /\ Linked
  /\ leds' = "off" /\ i_want_to_die' = TRUE
  /\ IF conn = default_conn
     THEN /\ k_delayed_work_cancel
          /\ Unref /\ default_conn' = NoCoin
          /\ ScanStart(scanning)
     ELSE UNCHANGED <<timer, refs, default_conn, scanning>>
  /\ link' = "none" /\ conn' = NoCoin /\ unreported' = FALSE
  /\ enc' = "none" /\ att' = <<>>
  /\ sub' \in {sub, NoCoin}
  /\ served' = NoDigest /\ indicated' = FALSE
  /\ UNCHANGED <<stackVars, security_established, uuid, offset, authVars,
                 clockVars>>

timeout ==
  /\ timer = 0
  /\ timer' = Off
  /\ IF default_conn # NoCoin THEN link' \in AfterDisconnect(link)
                              ELSE UNCHANGED link
  /\ UNCHANGED <<stackVars, connVars, i_want_to_die, clockVars, talkVars>>

\* Mutants of Fed: i_want_to_die is ignored, or tested the wrong way round.
FedAlways    == WdtWindow
FedWhenDying == IF i_want_to_die THEN WdtWindow ELSE wdt

\* What is left of the watchdog's window after the callback.
Fed == IF i_want_to_die THEN wdt ELSE WdtWindow

watchdog_timer_expiry_function ==
  /\ feed = 0 /\ wdt > 0
  /\ feed' = FeedPeriod
  /\ wdt' = Fed
  /\ UNCHANGED <<stackVars, connVars, link, timer, i_want_to_die, talkVars>>

\* Time does not pass over a timer that has expired.
Tick ==
  /\ feed > 0 /\ wdt > 0 /\ timer # 0
  /\ feed' = feed - 1 /\ wdt' = wdt - 1
  /\ timer' = IF timer = Off THEN Off ELSE timer - 1
  /\ UNCHANGED <<stackVars, connVars, link, i_want_to_die, talkVars>>

\* A reset clears the RAM and main starts again: Init holds afterwards.
Boot ==
  /\ ble_stack_running' = FALSE /\ bt' = "off"
  /\ registered' = FALSE /\ unreported' = FALSE
  /\ scanning' = FALSE /\ default_conn' = NoCoin /\ refs' = 0
  /\ conn' = NoCoin /\ link' = "none"
  /\ enc' = "none" /\ security_established' = FALSE
  /\ timer' = Off
  /\ uuid' = "null" /\ att' = <<>> /\ sub' = NoCoin /\ offset' = 0
  /\ challenge' = "zero" /\ response' = Zeroed
  /\ served' = NoDigest /\ indicated' = FALSE
  /\ leds' = "off"
  /\ i_want_to_die' = FALSE /\ feed' = FeedPeriod /\ wdt' = WdtWindow

WatchdogReset == wdt = 0 /\ Boot

\* The shell has one thread, and it may still be in cmd_ble_start.
cmd_reboot == (bt = "off" \/ registered) /\ Boot

\* Everything but the operator's reboot.
Unattended ==
  \/ cmd_ble_start
  \/ bt_conn_cb_register
  \/ missed_callback
  \/ bt_ready_cb
  \/ \E c \in Coins : device_found(c)
  \/ connected_err
  \/ connected_cb
  \/ \E level \in {"failed", "weak", "L4"} : security_changed_cb(level)
  \/ discover_next
  \/ discover_ccc
  \/ write_completed_func
  \/ write_challenge
  \/ \E len \in 1..RespLen + 1 : coin_indicates(len)
  \/ \E len \in 1..RespLen : read_completed_func(len)
  \/ disconnected_cb
  \/ timeout
  \/ watchdog_timer_expiry_function
  \/ Tick
  \/ WatchdogReset

Next == Unattended \/ cmd_reboot

Spec == Init /\ [][Next]_vars

-----------------------------------------------------------------------------
(* What the base station guarantees.                                       *)

\* Every variable stays in the range the handlers of main.c give it.
TypeOK ==
  /\ ble_stack_running \in BOOLEAN
  /\ bt \in {"off", "init", "ready", "failed"}
  /\ registered \in BOOLEAN /\ unreported \in BOOLEAN
  /\ scanning \in BOOLEAN
  /\ default_conn \in Coins \cup {NoCoin} /\ conn \in Coins \cup {NoCoin}
  /\ refs \in 0..1
  /\ link \in {"none", "creating", "up", "closing"}
  /\ enc \in {"none", "failed", "weak", "L4"} /\ security_established \in BOOLEAN
  /\ timer \in Off..ConnTimeout
  /\ uuid \in Uuids /\ att \in Seq(Requests)
  /\ sub \in Coins \cup {NoCoin} /\ offset \in 0..RespLen
  /\ challenge \in Age /\ response \in [1..RespLen -> Digest]
  /\ served \in Digest /\ indicated \in BOOLEAN
  /\ leds \in {"off", "busy", "open"} /\ i_want_to_die \in BOOLEAN
  /\ feed \in 0..FeedPeriod /\ wdt \in 0..WdtWindow

\* The handlers' bookkeeping matches the stack's: the connection the stack
\* works on is default_conn, and the application holds exactly one reference
\* on it, and none when it has no connection.  A leaked reference would keep
\* the only connection object busy for ever (device_found, disconnected_cb).
\* Only a connection lost before bt_conn_cb_register leaves default_conn
\* behind.
OwnsConnection ==
  /\ conn # NoCoin => conn = default_conn
  /\ conn = NoCoin <=> link = "none"
  /\ refs = IF default_conn = NoCoin THEN 0 ELSE 1
  /\ conn # default_conn => unreported

\* Once the stack is ready the station is either scanning or has a connection
\* in default_conn, never neither and never both (every path of device_found,
\* connected_cb and disconnected_cb that gives up a connection scans again).
NeverIdle ==
  bt = "ready" /\ "scan_start" \notin Faults =>
    (scanning <=> default_conn = NoCoin)

\* timeout_timer belongs to the connection it was started for: it is never
\* armed outside an established connection, where it would cut the next one
\* short, and while disconnections succeed no connection that connected_cb
\* was called for is without it.
TimerOwned ==
  /\ timer # Off => Linked
  /\ link = "up" /\ "disconnect" \notin Faults => timer # Off \/ unreported

\* Each of discover_params, subscribe_params, write_params and read_params is
\* handed to the stack again only after its last use has been answered, and
\* discover_func never compares a null UUID (the memset of line 394).
ParamsExclusive ==
  /\ \A i, j \in DOMAIN att : att[i] = att[j] => i = j
  /\ \A i \in DOMAIN att : att[i] = "discover" => uuid # "null"

\* Nothing is asked of a coin, and no coin has answered, before this very
\* connection was reported as encrypted at level 4 (security_changed_cb).
EncryptedFirst == att # <<>> \/ served # NoDigest => Linked /\ enc = "L4"

\* The door is signalled open only in a connection whose coin has digested,
\* with the key the table holds for its address, the challenge drawn in this
\* connection: left-overs of earlier connections in the static buffers never
\* open it (check_response).
DoorNeedsAnswer ==
  leds = "open" => /\ Linked
                   /\ SpaceKey[default_conn] # NoKey
                   /\ served = <<SpaceKey[default_conn], "fresh">>

\* The watchdog runs out only after a connection has ended: as long as
\* i_want_to_die is unset, the timer's period keeps it fed in time.
WatchdogOnlyIfDying == wdt = 0 => i_want_to_die

\* After the first disconnection the reset comes before any later
\* connection's own timeout could: that connection lives on borrowed time.
DyingCutsFirst == i_want_to_die /\ timer # Off => wdt <= timer

\* The station implements DoorLock: one judgement per connection and per
\* challenge, which opens the door exactly for a coin that has our key.
stage == IF ~Linked THEN "idle"
         ELSE IF challenge = "fresh" THEN "challenged"
         ELSE IF security_established /\ uuid = "null" THEN "spent"
         ELSE "admitted"

Lock == INSTANCE DoorLock
  WITH Genuine <- {c \in Coins : SpaceKey[c] # NoKey /\ SpaceKey[c] = CoinKey[c]},
       client  <- IF Linked THEN default_conn ELSE NoCoin,
       door    <- IF leds = "open" THEN "open" ELSE "shut"

ImplementsLock == Lock!Spec

-----------------------------------------------------------------------------
(* The inductive invariant of CentralProofs: how far a connection is.      *)

\* What the queue of requests can be: one discovery at a time, then the
\* subscription and the write, then the write, whose answer the indication
\* may overtake, and the read or the end of the subscription.
Queues == {<<>>, <<"discover">>, <<"subscribe">>, <<"subscribe", "write">>,
           <<"write">>, <<"write", "read">>, <<"write", "subscribe">>, <<"read">>}

Quiet == enc = "none" /\ att = <<>> /\ served = NoDigest /\ ~indicated

\* The buffers follow the queue: the coin digests the drawn challenge only,
\* and the part of it read so far is what it digested.
ProtocolInv ==
  /\ att \in Queues
  /\ ~Linked => Quiet /\ leds # "open"
  /\ ~security_established => att = <<>> /\ served = NoDigest
  /\ att # <<>> \/ served # NoDigest => enc = "L4"
  /\ att = <<"discover">> => uuid # "null" /\ served = NoDigest
  /\ att = <<"subscribe", "write">> => served = NoDigest
  /\ att = <<"subscribe">> /\ served # NoDigest => indicated
  /\ att = <<"write", "subscribe">> => indicated
  /\ att \in {<<"read">>, <<"write", "read">>} =>
       indicated /\ challenge = "fresh" /\ \A i \in 1..offset : response[i] = served
  /\ att \in {<<"write">>, <<"subscribe", "write">>} /\ served = NoDigest =>
       challenge = "fresh"
  /\ indicated => served # NoDigest
  /\ served # NoDigest => served = <<CoinKey[conn], "fresh">>
  /\ served # NoDigest /\ ~indicated => challenge = "fresh"
  /\ Linked /\ challenge = "fresh" =>
       security_established /\ uuid = "null" /\ leds # "open"
  /\ leds = "open" => SpaceKey[conn] # NoKey /\ served = <<SpaceKey[conn], "fresh">>

ConnInv ==
  /\ bt # "off" => ble_stack_running
  /\ bt # "ready" => link = "none" /\ default_conn = NoCoin /\ ~scanning
  /\ ~registered => timer = Off
  /\ unreported => default_conn # NoCoin /\ link # "creating"
  /\ OwnsConnection /\ conn \in Bonded \cup {NoCoin}
  /\ NeverIdle /\ TimerOwned

ClockInv ==
  /\ ~i_want_to_die => wdt - feed = WdtWindow - FeedPeriod
  /\ DyingCutsFirst

\* Before bt_conn_cb_register nothing is asked of a coin.
WindowInv ==
  ~registered => enc = "none" /\ ~security_established /\ challenge # "fresh"

IInv == TypeOK /\ ConnInv /\ ClockInv /\ ProtocolInv /\ WindowInv

-----------------------------------------------------------------------------
(* Progress.  Time, the timers' callbacks and the stack's completion        *)
(* events always come, and the shell's thread finishes its command; the     *)
(* operator and the coins owe nothing.                                      *)

Fairness ==
  /\ WF_vars(Tick) /\ WF_vars(timeout)
  /\ WF_vars(watchdog_timer_expiry_function) /\ WF_vars(WatchdogReset)
  /\ WF_vars(bt_conn_cb_register) /\ WF_vars(bt_ready_cb) /\ WF_vars(connected_err \/ connected_cb)
  /\ WF_vars(link = "closing" /\ disconnected_cb)

FairSpec == Spec /\ Fairness

\* The same station when nobody reboots it.
UnattendedSpec == Init /\ [][Unattended]_vars /\ Fairness

\* Every connection ends, whatever its coin does or fails to do, unless the
\* stack had established or lost it before bt_conn_cb_register.
ConnectionEnds == default_conn # NoCoin ~> default_conn = NoCoin \/ unreported

\* A station that wants to die does reset.
DyingResets == i_want_to_die ~> ~i_want_to_die

\* "cleanup and continue scanning" (main.c:528), "The central continuously
\* scans for known devices" (README.md:20): once it scans, the station comes
\* back to scanning for ever.
ContinuesScanning == scanning ~> []<>scanning

\* "kills the connection if that fails" (README.md:20): a failed attempt to
\* turn on encryption is answered by ending the connection.
KillsOnSecurityFailure ==
  [][enc # "failed" /\ enc' = "failed" => link' # "up"]_vars

=============================================================================
