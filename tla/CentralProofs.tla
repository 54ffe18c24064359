---------------------------- MODULE CentralProofs ----------------------------
(***************************************************************************)
(* Theorems about Central for every set of coins, keys and faults, every   *)
(* response size and all timer periods that satisfy TimeAssumption.        *)
(***************************************************************************)
EXTENDS Central, SequenceTheorems, TLAPS

-----------------------------------------------------------------------------
(* Facts about the data.                                                   *)

\* The queue of requests: what its head tells, what is behind it, and what
\* the handlers append to.
LEMMA QueueFacts ==
  ASSUME NEW q \in Queues
  PROVE  /\ q \in Seq(Requests)
         /\ q # <<>> /\ Head(q) = "discover"  => q = <<"discover">>
         /\ q # <<>> /\ Head(q) = "subscribe" =>
              q \in {<<"subscribe">>, <<"subscribe", "write">>}
         /\ q # <<>> /\ Head(q) = "write" =>
              q \in {<<"write">>, <<"write", "read">>, <<"write", "subscribe">>}
         /\ q # <<>> /\ Head(q) = "read" => q = <<"read">>
<1>1. CASE q = <<>>                        BY <1>1 DEF Requests
<1>2. CASE q = <<"discover">>              BY <1>2 DEF Requests
<1>3. CASE q = <<"subscribe">>             BY <1>3 DEF Requests
<1>4. CASE q = <<"subscribe", "write">>    BY <1>4 DEF Requests
<1>5. CASE q = <<"write">>                 BY <1>5 DEF Requests
<1>6. CASE q = <<"write", "read">>         BY <1>6 DEF Requests
<1>7. CASE q = <<"write", "subscribe">>    BY <1>7 DEF Requests
<1>8. CASE q = <<"read">>                  BY <1>8 DEF Requests
<1> QED BY <1>1, <1>2, <1>3, <1>4, <1>5, <1>6, <1>7, <1>8 DEF Queues

\* Queues of at most two requests, as the provers see them.
LEMMA TailFacts ==
  /\ \A r \in Requests : Tail(<<r>>) = <<>> /\ Append(<<>>, r) = <<r>>
  /\ \A r, s \in Requests : Tail(<<r, s>>) = <<s>>
                           /\ Append(<<r>>, s) = <<r, s>>
<1>1. ASSUME NEW r \in Requests
      PROVE  Tail(<<r>>) = <<>> /\ Append(<<>>, r) = <<r>>
  OBVIOUS
<1>2. ASSUME NEW r \in Requests, NEW s \in Requests
      PROVE  Tail(<<r, s>>) = <<s>> /\ Append(<<r>>, s) = <<r, s>>
  <2>1. Tail(<<r, s>>) = <<s>>
    OBVIOUS
  <2>2. Append(<<r>>, s) \in Seq(Requests) /\ <<r, s>> \in Seq(Requests)
    OBVIOUS
  <2>3. Len(Append(<<r>>, s)) = Len(<<r, s>>)
    OBVIOUS
  <2>4. \A i \in 1..Len(<<r, s>>) : Append(<<r>>, s)[i] = <<r, s>>[i]
    OBVIOUS
  <2> QED BY <2>1, <2>2, <2>3, <2>4, SeqEqual
<1> QED BY <1>1, <1>2

\* Queues of different lengths or of different requests are different.
LEMMA DistinctQueues ==
  /\ \A r \in Requests : <<r>> # <<>>
  /\ \A r, s \in Requests : <<r, s>> # <<>>
  /\ \A r, s, t \in Requests : <<r, s>> # <<t>>
  /\ \A r, s \in Requests : <<r>> = <<s>> => r = s
  /\ \A r, s, t, u \in Requests : <<r, s>> = <<t, u>> => r = t /\ s = u
BY DEF Requests

\* What the buffers hold are digests, and an old draw is never fresh.
LEMMA DigestFacts ==
  /\ NoDigest \in Digest
  /\ Zeroed \in [1..RespLen -> Digest]
  /\ \A d \in Digest : OldDigest(d) \in Digest
  /\ \A a \in Age : Old(a) \in Age /\ Old(a) # "fresh"
  /\ \A k \in Keys \cup {NoKey}, a \in Age : <<k, a>> \in Digest
  /\ \A k \in Keys \cup {NoKey} : <<k, "fresh">> # NoDigest
BY KeyAssumption DEF NoDigest, Digest, Zeroed, OldDigest, Age, Old

-----------------------------------------------------------------------------
(* Type correctness.  The number of references is the only variable whose   *)
(* range needs more than the types: OwnsConnection bounds it.               *)

\* Main starts with every variable in its range.
LEMMA InitTypeOK == Init => TypeOK
<1> SUFFICES ASSUME Init PROVE TypeOK
  OBVIOUS
<1> USE DEF Init
<1>1. timer \in Off..ConnTimeout /\ feed \in 0..FeedPeriod /\ wdt \in 0..WdtWindow
  BY TimeAssumption DEF Off
<1>2. uuid \in Uuids /\ att \in Seq(Requests) /\ offset \in 0..RespLen
  BY LenAssumption DEF Uuids
<1>3. response \in [1..RespLen -> Digest] /\ served \in Digest /\ challenge \in Age
  BY DigestFacts DEF Age
<1>4. /\ default_conn \in Coins \cup {NoCoin} /\ conn \in Coins \cup {NoCoin}
      /\ refs \in 0..1 /\ link \in {"none", "creating", "up", "closing"}
      /\ sub \in Coins \cup {NoCoin} /\ leds \in {"off", "busy", "open"}
  OBVIOUS
<1> QED
  BY <1>1, <1>2, <1>3, <1>4 DEF TypeOK

\* Every handler keeps every variable in its range.
LEMMA NextTypeOK ==
  ASSUME TypeOK, OwnsConnection, [Next]_vars
  PROVE  TypeOK'
<1>1. CASE cmd_ble_start
  <2> QED
    BY <1>1
       DEF TypeOK, cmd_ble_start, helper_ble_running, MayFail, stackVars,
           connVars, secVars, gattVars, authVars, coinVars, clockVars,
           baseVars, talkVars
<1>2. CASE bt_ready_cb
  <2>1. bt' \in {"off", "init", "ready", "failed"}
    BY <1>2 DEF TypeOK, bt_ready_cb
  <2>2. scanning' \in BOOLEAN
    BY <1>2 DEF TypeOK, bt_ready_cb, ScanStart
  <2> QED
    BY <1>2, <2>1, <2>2
       DEF TypeOK, bt_ready_cb, stackVars, connVars, secVars, gattVars,
           authVars, coinVars, clockVars, baseVars, talkVars
<1>3. CASE \E c \in Coins : device_found(c)
  <2>0. PICK c \in Coins : device_found(c)
    BY <1>3
  <2>1. refs = 0
    BY <2>0 DEF device_found, OwnsConnection
  <2>2. refs' \in 0..1
    <3>1. refs' \in {refs, refs + 1}
      BY <2>0 DEF device_found
    <3> QED BY <2>1, <3>1
  <2>3. scanning' \in BOOLEAN
    BY <2>0 DEF TypeOK, device_found, ScanStart
  <2>4. default_conn' \in Coins \cup {NoCoin} /\ conn' \in Coins \cup {NoCoin}
    BY <2>0 DEF TypeOK, device_found
  <2>5. link' \in {"none", "creating", "up", "closing"}
    BY <2>0 DEF TypeOK, device_found
  <2> QED
    BY <2>0, <2>2, <2>3, <2>4, <2>5
       DEF TypeOK, device_found, stackVars, connVars, secVars, gattVars,
           authVars, coinVars, clockVars, baseVars, talkVars
<1>4. CASE connected_err
  <2>1. refs' \in 0..1
    BY <1>4 DEF TypeOK, connected_err, ScanStart, Unref, OwnsConnection
  <2>2. /\ default_conn' \in Coins \cup {NoCoin} /\ conn' \in Coins \cup {NoCoin}
        /\ link' \in {"none", "creating", "up", "closing"}
        /\ scanning' \in BOOLEAN /\ security_established' \in BOOLEAN
    BY <1>4 DEF TypeOK, connected_err, ScanStart
  <2> QED
    BY <1>4, <2>1, <2>2
       DEF TypeOK, connected_err, stackVars, gattVars, authVars, coinVars,
           clockVars
<1>5. CASE connected_cb
  <2>1. timer' \in Off..ConnTimeout
    BY <1>5, TimeAssumption
       DEF TypeOK, connected_cb, k_delayed_work_submit, Off
  <2>2. link' \in {"none", "creating", "up", "closing"}
    BY <1>5 DEF TypeOK, connected_cb, k_delayed_work_submit, AfterDisconnect
  <2>3. challenge' \in Age
    <3>1. challenge \in Age
      BY DEF TypeOK
    <3> QED BY <1>5, <3>1, DigestFacts DEF connected_cb, k_delayed_work_submit
  <2>4. response' \in [1..RespLen -> Digest]
    <3>1. \A i \in 1..RespLen : OldDigest(response[i]) \in Digest
      BY DigestFacts DEF TypeOK
    <3> QED BY <1>5, <3>1 DEF connected_cb, k_delayed_work_submit
  <2>5. leds' \in {"off", "busy", "open"} /\ security_established' \in BOOLEAN
    BY <1>5 DEF TypeOK, connected_cb, k_delayed_work_submit
  <2> QED
    BY <1>5, <2>1, <2>2, <2>3, <2>4, <2>5
       DEF TypeOK, connected_cb, k_delayed_work_submit, stackVars, connVars,
           secVars, gattVars, authVars, coinVars, clockVars, baseVars,
           talkVars
<1>6. CASE \E level \in {"failed", "weak", "L4"} : security_changed_cb(level)
  <2>0. PICK level \in {"failed", "weak", "L4"} : security_changed_cb(level)
    BY <1>6
  <2>1. /\ enc' \in {"none", "failed", "weak", "L4"}
        /\ security_established' \in BOOLEAN /\ uuid' \in Uuids
    BY <2>0 DEF TypeOK, security_changed_cb, StartsDiscovery, Uuids
  <2>2. att' \in Seq(Requests)
    <3>1. att' \in {att, Append(att, "discover")}
      BY <2>0 DEF security_changed_cb, StartsDiscovery
    <3> QED BY <3>1 DEF TypeOK, Requests
  <2> QED
    BY <2>0, <2>1, <2>2
       DEF TypeOK, security_changed_cb, StartsDiscovery, stackVars, connVars,
           secVars, gattVars, authVars, coinVars, clockVars, baseVars,
           talkVars
<1>7. CASE discover_next
  <2>1. att' \in Seq(Requests)
    <3>1. Tail(att) \in Seq(Requests) /\ "discover" \in Requests
      BY <1>7 DEF TypeOK, discover_next, Pending, Requests
    <3>2. att' = Tail(att) \/ att' = Append(Tail(att), "discover")
      BY <1>7 DEF discover_next
    <3> QED BY <3>1, <3>2
  <2>2. link' \in {"none", "creating", "up", "closing"}
    BY <1>7 DEF TypeOK, discover_next, Pending, AfterDisconnect
  <2>3. uuid' \in Uuids
    BY <1>7 DEF TypeOK, discover_next, Pending, Uuids, NextUuid
  <2> QED
    BY <1>7, <2>1, <2>2, <2>3
       DEF TypeOK, discover_next, Pending, stackVars, connVars, secVars,
           gattVars, authVars, coinVars, clockVars, baseVars, talkVars
<1>8. CASE discover_ccc
  <2>1. att' \in Seq(Requests)
    <3>1. Tail(att) \in Seq(Requests)
      BY <1>8 DEF TypeOK, discover_ccc, Pending
    <3>2. Append(Tail(att), "subscribe") \in Seq(Requests)
      BY <3>1 DEF Requests
    <3>3. ASSUME NEW q \in Seq(Requests), DrawAndWrite(q)
          PROVE  att' \in Seq(Requests)
      <4>1. att' \in {q, Append(q, "write")}
        BY <3>3 DEF DrawAndWrite
      <4> QED BY <4>1 DEF Requests
    <3>4. CASE SubscribeFailed
      BY <3>1, <3>4 DEF SubscribeFailed
    <3> QED BY <1>8, <3>1, <3>2, <3>3, <3>4 DEF discover_ccc
  <2>2. link' \in {"none", "creating", "up", "closing"}
    BY <1>8
       DEF TypeOK, discover_ccc, SubscribeFailed, DrawAndWrite,
           AfterDisconnect
  <2>3. uuid' \in Uuids /\ sub' \in Coins \cup {NoCoin}
    BY <1>8 DEF TypeOK, discover_ccc, SubscribeFailed, Uuids
  <2>4. challenge' \in Age /\ served' \in Digest
    BY <1>8, DigestFacts
       DEF TypeOK, discover_ccc, SubscribeFailed, DrawAndWrite, authVars, Age,
           baseVars, talkVars
  <2>5. response' \in [1..RespLen -> Digest]
    BY <1>8, DigestFacts
       DEF TypeOK, discover_ccc, SubscribeFailed, DrawAndWrite, authVars,
           baseVars, talkVars
  <2> QED
    BY <1>8, <2>1, <2>2, <2>3, <2>4, <2>5
       DEF TypeOK, discover_ccc, stackVars, connVars, secVars, gattVars,
           authVars, coinVars, clockVars, baseVars, talkVars
<1>9. CASE write_completed_func
  <2>1. att' \in Seq(Requests)
    BY <1>9 DEF TypeOK, write_completed_func
  <2> QED
    BY <1>9, <2>1
       DEF TypeOK, write_completed_func, Pending, stackVars, connVars,
           secVars, gattVars, authVars, coinVars, clockVars, baseVars, talkVars
<1>10. CASE write_challenge
  <2>1. served' \in Digest
    BY <1>10, KeyAssumption
       DEF TypeOK, write_challenge, Digest, Pending, Linked, OwnsConnection
  <2> QED
    BY <1>10, <2>1
       DEF TypeOK, write_challenge, stackVars, connVars, secVars, gattVars,
           authVars, coinVars, clockVars, baseVars, talkVars
<1>11. CASE \E len \in 1..RespLen + 1 : coin_indicates(len)
  <2>0. PICK len \in 1..RespLen + 1 : notify_func(len)
    BY <1>11 DEF coin_indicates
  <2>1. att' \in Seq(Requests)
    <3>1. att' \in {att, Append(att, "read"), Append(att, "subscribe")}
      BY <2>0 DEF notify_func, bt_gatt_unsubscribe
    <3>2. att \in Seq(Requests) /\ "read" \in Requests /\ "subscribe" \in Requests
      BY DEF TypeOK, Requests
    <3>3. CASE att' = att
      BY <3>2, <3>3
    <3>4. CASE att' = Append(att, "read")
      BY <3>2, <3>4
    <3>5. CASE att' = Append(att, "subscribe")
      BY <3>2, <3>5
    <3> QED BY <3>1, <3>3, <3>4, <3>5
  <2>2. link' \in {"none", "creating", "up", "closing"}
    BY <2>0 DEF TypeOK, notify_func, check_response, AfterDisconnect
  <2>3. response' \in [1..RespLen -> Digest]
    BY <2>0, DigestFacts
       DEF TypeOK, notify_func, check_response, Written, authVars
  <2>4. challenge' \in Age /\ leds' \in {"off", "busy", "open"}
    BY <2>0 DEF TypeOK, notify_func, check_response, authVars, Age
  <2>5. offset' \in 0..RespLen
    BY <2>0, LenAssumption DEF TypeOK, notify_func
  <2>6. sub' \in Coins \cup {NoCoin}
    BY <2>0 DEF TypeOK, notify_func, bt_gatt_unsubscribe
  <2> QED
    BY <2>0, <2>1, <2>2, <2>3, <2>4, <2>5, <2>6
       DEF TypeOK, notify_func, stackVars, connVars, secVars, gattVars,
           authVars, coinVars, clockVars, baseVars, talkVars
<1>12. CASE \E len \in 1..RespLen : read_completed_func(len)
  <2>0. PICK len \in 1..RespLen : read_completed_func(len)
    BY <1>12
  <2>1. att' \in Seq(Requests)
    <3>1. Tail(att) \in Seq(Requests) /\ "read" \in Requests
      BY <2>0 DEF TypeOK, read_completed_func, Pending, Requests
    <3>2. att' = Tail(att) \/ att' = Append(Tail(att), "read")
      BY <2>0 DEF read_completed_func
    <3> QED BY <3>1, <3>2
  <2>2. link' \in {"none", "creating", "up", "closing"}
    BY <2>0 DEF TypeOK, read_completed_func, check_response, AfterDisconnect
  <2>3. response' \in [1..RespLen -> Digest]
    BY <2>0, DigestFacts
       DEF TypeOK, read_completed_func, check_response, Written, authVars,
           baseVars, talkVars
  <2>4. offset' \in 0..RespLen
    BY <2>0, LenAssumption DEF TypeOK, read_completed_func
  <2>5. challenge' \in Age /\ leds' \in {"off", "busy", "open"}
    BY <2>0
       DEF TypeOK, read_completed_func, check_response, authVars, Age,
           baseVars, talkVars
  <2> QED
    BY <2>0, <2>1, <2>2, <2>3, <2>4, <2>5
       DEF TypeOK, read_completed_func, stackVars, connVars, secVars,
           gattVars, authVars, coinVars, clockVars, baseVars, talkVars
<1>13. CASE disconnected_cb
  <2>1. timer' \in Off..ConnTimeout
    <3>1. timer' \in {timer, Off}
      BY <1>13 DEF disconnected_cb, k_delayed_work_cancel
    <3> QED BY <3>1, TimeAssumption DEF TypeOK, Off
  <2>2. served' \in Digest /\ att' \in Seq(Requests)
    BY <1>13, DigestFacts DEF disconnected_cb, k_delayed_work_cancel
  <2>3. refs' \in 0..1
    BY <1>13
       DEF TypeOK, disconnected_cb, k_delayed_work_cancel, Unref,
           OwnsConnection
  <2>4. scanning' \in BOOLEAN
    BY <1>13 DEF TypeOK, disconnected_cb, k_delayed_work_cancel, ScanStart
  <2>5. default_conn' \in Coins \cup {NoCoin} /\ sub' \in Coins \cup {NoCoin}
    BY <1>13 DEF TypeOK, disconnected_cb, k_delayed_work_cancel
  <2> QED
    BY <1>13, <2>1, <2>2, <2>3, <2>4, <2>5
       DEF TypeOK, disconnected_cb, k_delayed_work_cancel, stackVars,
           connVars, secVars, gattVars, authVars, coinVars, clockVars,
           baseVars, talkVars
<1>14. CASE timeout
  <2>1. timer' \in Off..ConnTimeout
    BY <1>14, TimeAssumption DEF TypeOK, timeout, Off
  <2>2. link' \in {"none", "creating", "up", "closing"}
    BY <1>14 DEF TypeOK, timeout, AfterDisconnect
  <2> QED
    BY <1>14, <2>1, <2>2
       DEF TypeOK, timeout, stackVars, connVars, secVars, gattVars, authVars,
           coinVars, clockVars, baseVars, talkVars
<1>15. CASE watchdog_timer_expiry_function
  <2>1. feed' \in 0..FeedPeriod /\ wdt' \in 0..WdtWindow
    BY <1>15, TimeAssumption DEF TypeOK, watchdog_timer_expiry_function, Fed
  <2> QED
    BY <1>15, <2>1
       DEF TypeOK, watchdog_timer_expiry_function, Fed, stackVars, connVars,
           secVars, gattVars, authVars, coinVars, clockVars, baseVars,
           talkVars
<1>16. CASE Tick
  <2>1. timer' \in Off..ConnTimeout
    BY <1>16, TimeAssumption DEF TypeOK, Tick, Off
  <2>2. feed' \in 0..FeedPeriod /\ wdt' \in 0..WdtWindow
    BY <1>16, TimeAssumption DEF TypeOK, Tick
  <2> QED
    BY <1>16, <2>1, <2>2
       DEF TypeOK, Tick, stackVars, connVars, secVars, gattVars, authVars,
           coinVars, clockVars, baseVars, talkVars
<1>17. CASE Boot
  <2>1. timer' \in Off..ConnTimeout /\ feed' \in 0..FeedPeriod /\ wdt' \in 0..WdtWindow
    BY <1>17, TimeAssumption DEF Boot, Off
  <2>2. challenge' \in Age /\ served' \in Digest /\ response' \in [1..RespLen -> Digest]
    BY <1>17, DigestFacts DEF Boot, Age
  <2>3. uuid' \in Uuids /\ att' \in Seq(Requests) /\ offset' \in 0..RespLen
    <3>1. 0 \in 0..RespLen
      BY LenAssumption
    <3> QED BY <1>17, <3>1 DEF Boot, Uuids
  <2>4. /\ default_conn' \in Coins \cup {NoCoin} /\ conn' \in Coins \cup {NoCoin}
        /\ refs' \in 0..1 /\ link' \in {"none", "creating", "up", "closing"}
        /\ sub' \in Coins \cup {NoCoin} /\ leds' \in {"off", "busy", "open"}
    BY <1>17 DEF Boot
  <2> QED BY <1>17, <2>1, <2>2, <2>3, <2>4 DEF TypeOK, Boot
<1>18. CASE UNCHANGED vars
  <2> QED
    BY <1>18
       DEF TypeOK, vars, stackVars, connVars, secVars, gattVars, authVars,
           coinVars, clockVars, baseVars, talkVars
<1>19. CASE bt_conn_cb_register
  <2> QED
    BY <1>19
       DEF TypeOK, bt_conn_cb_register, connVars, secVars, gattVars, authVars,
           coinVars, clockVars, baseVars, talkVars
<1>20. CASE missed_callback
  <2>1. link' \in {"none", "creating", "up", "closing"}
    BY <1>20 DEF TypeOK, missed_callback
  <2>2. conn' \in Coins \cup {NoCoin}
    BY <1>20 DEF TypeOK, missed_callback
  <2> QED
    BY <1>20, <2>1, <2>2
       DEF TypeOK, missed_callback, stackVars, secVars, gattVars, authVars,
           coinVars, clockVars, baseVars, talkVars
<1> QED
  BY <1>1, <1>2, <1>3, <1>4, <1>5, <1>6, <1>7, <1>8, <1>9, <1>10, <1>11,
      <1>12, <1>13, <1>14, <1>15, <1>16, <1>17, <1>18, <1>19, <1>20
     DEF Next, Unattended, WatchdogReset, cmd_reboot

-----------------------------------------------------------------------------
(* The connection, its reference, the scanner and the timer.               *)

\* Most handlers leave the connection alone or ask for its end.
LEMMA ConnInvKept ==
  ASSUME ConnInv, UNCHANGED <<stackVars, connVars, timer>>,
         link' = link \/ (Linked /\ link' \in AfterDisconnect(link))
  PROVE  ConnInv'
<1>1. link' = "up" => link = "up"
  BY DEF AfterDisconnect, Linked
<1>2. Linked' <=> Linked
  BY DEF AfterDisconnect, Linked
<1>3. /\ (link' = "none") <=> (link = "none")
      /\ (link' = "creating") <=> (link = "creating")
  BY DEF AfterDisconnect, Linked
<1>4. (bt # "off" => ble_stack_running)' /\ NeverIdle'
  BY
     DEF ConnInv, NeverIdle, stackVars, connVars, baseVars,
         talkVars
<1>5. OwnsConnection' /\ (conn \in Bonded \cup {NoCoin})'
  BY <1>3 DEF ConnInv, OwnsConnection, connVars, baseVars, talkVars
<1>6. TimerOwned'
  BY <1>1, <1>2 DEF ConnInv, TimerOwned, connVars
<1> QED
  BY <1>3, <1>4, <1>5, <1>6
     DEF ConnInv, stackVars, connVars, baseVars, talkVars

\* A station that boots has no connection.
LEMMA InitConnInv == Init => ConnInv
BY DEF Init, ConnInv, OwnsConnection, NeverIdle, TimerOwned

\* Every handler keeps the book of the connection.
LEMMA NextConnInv ==
  ASSUME TypeOK, ConnInv, [Next]_vars
  PROVE  ConnInv'
<1> USE DEF ConnInv
<1>1. CASE cmd_ble_start
  BY <1>1
     DEF cmd_ble_start, helper_ble_running, MayFail,
         OwnsConnection, NeverIdle, TimerOwned, Linked, connVars, baseVars,
         talkVars
<1>2. CASE bt_ready_cb
  <2>1. link = "none" /\ timer = Off /\ default_conn = NoCoin
    BY <1>2 DEF bt_ready_cb, OwnsConnection, TimerOwned, Linked
  <2> QED
    BY <1>2, <2>1
       DEF bt_ready_cb, ScanStart, OwnsConnection, NeverIdle, TimerOwned
<1>3. CASE \E c \in Coins : device_found(c)
  <2>0. PICK c \in Coins : device_found(c)
    BY <1>3
  <2>1. bt = "ready" /\ link = "none" /\ refs = 0 /\ timer = Off
    BY <2>0 DEF device_found, OwnsConnection, TimerOwned, Linked
  <2>2. CASE UNCHANGED <<default_conn, refs, conn, link>> /\ ScanStart(FALSE)
    BY <2>0, <2>1, <2>2
       DEF device_found, ScanStart, OwnsConnection, NeverIdle,
           TimerOwned, Linked, stackVars, baseVars, talkVars
  <2>3. CASE /\ scanning' = FALSE /\ default_conn' = c /\ refs' = refs + 1
             /\ conn' = c /\ link' = "creating"
    BY <2>0, <2>1, <2>3, CoinAssumption
       DEF device_found, OwnsConnection, NeverIdle, TimerOwned,
           Linked, stackVars, baseVars, talkVars
  <2> QED BY <2>0, <2>2, <2>3 DEF device_found
<1>4. CASE connected_err
  <2>1. timer = Off /\ bt = "ready" /\ default_conn # NoCoin
    BY <1>4 DEF connected_err, TimerOwned, Linked, OwnsConnection
  <2>2. refs' = 0
    BY <1>4, <2>1 DEF connected_err, Unref, OwnsConnection, TypeOK
  <2> QED
    BY <1>4, <2>1, <2>2
       DEF connected_err, ScanStart, OwnsConnection, NeverIdle,
           TimerOwned, Linked, stackVars, baseVars, talkVars
<1>5. CASE connected_cb
  <2>1. link' \in {"up", "closing"} /\ leds' = "busy" /\ timer' = ConnTimeout
    BY <1>5
       DEF connected_cb, k_delayed_work_submit, AfterDisconnect,
           OwnsConnection
  <2>2. ConnTimeout # Off
    BY TimeAssumption DEF Off
  <2> QED
    BY <1>5, <2>1, <2>2
       DEF connected_cb, k_delayed_work_submit, OwnsConnection,
           NeverIdle, TimerOwned, Linked, stackVars, connVars, baseVars,
           talkVars
<1>6. CASE disconnected_cb
  <2>1. default_conn # NoCoin /\ bt = "ready"
    BY <1>6, CoinAssumption
       DEF disconnected_cb, k_delayed_work_cancel, OwnsConnection, Linked,
           TypeOK
  <2>2. refs = 1 /\ conn = default_conn
    BY <1>6, <2>1 DEF disconnected_cb, OwnsConnection, Linked
  <2>3. refs' = 0
    BY <1>6, <2>1, <2>2 DEF disconnected_cb, Unref
  <2> QED
    BY <1>6, <2>1, <2>2, <2>3
       DEF disconnected_cb, k_delayed_work_cancel, ScanStart,
           OwnsConnection, NeverIdle, TimerOwned, Linked, stackVars, baseVars,
           talkVars
<1>7. CASE timeout
  <2>1. Linked /\ default_conn # NoCoin
    BY <1>7 DEF timeout, TimerOwned, OwnsConnection, Linked, Off
  <2>2. link' \in AfterDisconnect(link)
    BY <1>7, <2>1 DEF timeout
  <2>3. TimerOwned'
    BY <1>7, <2>2 DEF timeout, TimerOwned, AfterDisconnect
  <2>4. link' \notin {"none", "creating"} /\ link \notin {"none", "creating"}
    BY <2>1, <2>2 DEF AfterDisconnect, Linked
  <2> QED
    BY <1>7, <2>3, <2>4
       DEF timeout, OwnsConnection, NeverIdle, stackVars,
           connVars, baseVars, talkVars
<1>8. CASE Tick
  <2>1. (timer' = Off) <=> (timer = Off)
    BY <1>8 DEF Tick, Off, TypeOK
  <2> QED
    BY <1>8, <2>1
       DEF Tick, OwnsConnection, NeverIdle, TimerOwned, Linked,
           stackVars, connVars, baseVars, talkVars
<1>9. CASE Boot
  BY <1>9 DEF Boot, OwnsConnection, NeverIdle, TimerOwned
<1>10. CASE \E level \in {"failed", "weak", "L4"} : security_changed_cb(level)
  <2>1. link' = link \/ (Linked /\ link' \in AfterDisconnect(link))
    BY <1>10 DEF security_changed_cb, StartsDiscovery
  <2>2. UNCHANGED <<stackVars, connVars, timer>>
    BY <1>10 DEF security_changed_cb, StartsDiscovery, baseVars
  <2> QED BY <2>1, <2>2, ConnInvKept
<1>11. CASE discover_next
  <2>1. link' = link \/ (Linked /\ link' \in AfterDisconnect(link))
    BY <1>11 DEF discover_next, Pending
  <2>2. UNCHANGED <<stackVars, connVars, timer>>
    BY <1>11 DEF discover_next, baseVars
  <2> QED BY <2>1, <2>2, ConnInvKept
<1>12. CASE discover_ccc
  <2>1. link' = link \/ (Linked /\ link' \in AfterDisconnect(link))
    BY <1>12 DEF discover_ccc, Pending, SubscribeFailed, DrawAndWrite
  <2>2. UNCHANGED <<stackVars, connVars, timer>>
    BY <1>12 DEF discover_ccc, baseVars
  <2> QED BY <2>1, <2>2, ConnInvKept
<1>13. CASE write_completed_func
  <2>1. link' = link \/ (Linked /\ link' \in AfterDisconnect(link))
    BY <1>13 DEF write_completed_func
  <2>2. UNCHANGED <<stackVars, connVars, timer>>
    BY <1>13 DEF write_completed_func, baseVars
  <2> QED BY <2>1, <2>2, ConnInvKept
<1>14. CASE write_challenge
  <2>1. link' = link \/ (Linked /\ link' \in AfterDisconnect(link))
    BY <1>14 DEF write_challenge
  <2>2. UNCHANGED <<stackVars, connVars, timer>>
    BY <1>14 DEF write_challenge, baseVars
  <2> QED BY <2>1, <2>2, ConnInvKept
<1>15. CASE \E len \in 1..RespLen + 1 : coin_indicates(len)
  <2>1. link' = link \/ (Linked /\ link' \in AfterDisconnect(link))
    BY <1>15 DEF coin_indicates, notify_func, check_response
  <2>2. UNCHANGED <<stackVars, connVars, timer>>
    BY <1>15 DEF coin_indicates, notify_func, baseVars
  <2> QED BY <2>1, <2>2, ConnInvKept
<1>16. CASE \E len \in 1..RespLen : read_completed_func(len)
  <2>1. link' = link \/ (Linked /\ link' \in AfterDisconnect(link))
    BY <1>16 DEF read_completed_func, Pending, check_response
  <2>2. UNCHANGED <<stackVars, connVars, timer>>
    BY <1>16 DEF read_completed_func, baseVars
  <2> QED BY <2>1, <2>2, ConnInvKept
<1>17. CASE watchdog_timer_expiry_function
  <2>1. link' = link \/ (Linked /\ link' \in AfterDisconnect(link))
    BY <1>17 DEF watchdog_timer_expiry_function, Fed
  <2>2. UNCHANGED <<stackVars, connVars, timer>>
    BY <1>17 DEF watchdog_timer_expiry_function, Fed, baseVars
  <2> QED BY <2>1, <2>2, ConnInvKept
<1>18. CASE UNCHANGED vars
  BY <1>18, ConnInvKept DEF vars, baseVars, talkVars
<1>19. CASE bt_conn_cb_register
  BY <1>19
     DEF bt_conn_cb_register, OwnsConnection, NeverIdle, TimerOwned, Linked,
         connVars
<1>20. CASE missed_callback
  <2>1. bt = "ready" /\ default_conn # NoCoin /\ timer = Off
    BY <1>20 DEF missed_callback, OwnsConnection
  <2> QED
    BY <1>20, <2>1
       DEF missed_callback, OwnsConnection, NeverIdle, TimerOwned, stackVars
<1> QED
  BY <1>1, <1>2, <1>3, <1>4, <1>5, <1>6, <1>7, <1>8, <1>9, <1>10, <1>11,
      <1>12, <1>13, <1>14, <1>15, <1>16, <1>17, <1>18, <1>19, <1>20
     DEF Next, Unattended, WatchdogReset, cmd_reboot

-----------------------------------------------------------------------------
(* The clocks: until the station wants to die, the watchdog has always the  *)
(* same lead over the timer that feeds it.                                 *)

\* The watchdog is fed when main starts.
LEMMA InitClockInv == Init => ClockInv
BY TimeAssumption DEF Init, ClockInv, DyingCutsFirst

\* Time and the feeding callback keep the watchdog ahead of its timer.
LEMMA NextClockInv ==
  ASSUME TypeOK, ConnInv, ClockInv, [Next]_vars
  PROVE  ClockInv'
<1> USE DEF ClockInv, DyingCutsFirst
<1>1. CASE connected_cb
  <2>1. timer' = ConnTimeout /\ wdt <= ConnTimeout
    BY <1>1, TimeAssumption
       DEF connected_cb, k_delayed_work_submit, ConnInv, OwnsConnection,
           TypeOK
  <2> QED
    BY <1>1, <2>1
       DEF connected_cb, k_delayed_work_submit, clockVars, baseVars, talkVars
<1>2. CASE disconnected_cb
  BY <1>2
     DEF disconnected_cb, k_delayed_work_cancel, ConnInv, OwnsConnection,
         Linked, clockVars
<1>3. CASE timeout
  BY <1>3 DEF timeout, clockVars, baseVars, talkVars
<1>4. CASE watchdog_timer_expiry_function
  BY <1>4 DEF watchdog_timer_expiry_function, Fed
<1>5. CASE Tick
  <2>1. /\ timer \in Int /\ feed \in Int /\ wdt \in Int
        /\ WdtWindow \in Int /\ FeedPeriod \in Int
    BY TimeAssumption DEF TypeOK, Off
  <2>2. i_want_to_die' = i_want_to_die /\ wdt' = wdt - 1 /\ feed' = feed - 1
    BY <1>5 DEF Tick
  <2>3. timer' # Off => timer # Off /\ timer' = timer - 1
    BY <1>5 DEF Tick
  <2> QED BY <2>1, <2>2, <2>3
<1>6. CASE Boot
  BY <1>6, TimeAssumption DEF Boot
<1>7. CASE UNCHANGED <<timer, i_want_to_die, clockVars>>
  BY <1>7 DEF clockVars, baseVars, talkVars
<1>8. CASE \/ cmd_ble_start \/ bt_conn_cb_register \/ missed_callback
           \/ bt_ready_cb \/ \E c \in Coins : device_found(c)
           \/ connected_err
           \/ \E level \in {"failed", "weak", "L4"} : security_changed_cb(level)
  BY <1>7, <1>8
     DEF cmd_ble_start, helper_ble_running, bt_conn_cb_register,
         missed_callback, bt_ready_cb, device_found, connected_err, security_changed_cb, StartsDiscovery, baseVars
<1>9. CASE \/ discover_next \/ discover_ccc
           \/ write_completed_func \/ write_challenge
  BY <1>7, <1>9 DEF discover_next, discover_ccc,
                    write_completed_func, write_challenge,
                    baseVars
<1>10. CASE \/ \E len \in 1..RespLen + 1 : coin_indicates(len)
            \/ \E len \in 1..RespLen : read_completed_func(len)
  BY <1>7, <1>10 DEF coin_indicates, notify_func, read_completed_func, baseVars
<1>11. CASE UNCHANGED vars
  BY <1>7, <1>11 DEF vars, baseVars, talkVars
<1> QED
  BY <1>1, <1>2, <1>3, <1>4, <1>5, <1>6, <1>8, <1>9, <1>10, <1>11
     DEF Next, Unattended, WatchdogReset, cmd_reboot

-----------------------------------------------------------------------------
(* The protocol of one connection.                                         *)

\* What touches neither the requests nor the buffers keeps the protocol.
LEMMA ProtocolInvKept ==
  ASSUME ProtocolInv, Linked' <=> Linked, Linked => conn' = conn,
         UNCHANGED <<secVars, uuid, att, offset, authVars, coinVars, leds>>
  PROVE  ProtocolInv'
BY DEF ProtocolInv, Quiet, secVars, authVars, coinVars, baseVars, talkVars

\* A station that boots is quiet.
LEMMA InitProtocolInv == Init => ProtocolInv
BY LenAssumption DEF Init, ProtocolInv, Queues, Quiet, Linked

\* A new connection starts quiet and with stale buffers.
LEMMA ConnectedProtocol ==
  ASSUME TypeOK, ConnInv, ProtocolInv, connected_cb
  PROVE  ProtocolInv'
<1>1. Quiet /\ Quiet' /\ leds' = "busy"
  BY
     DEF connected_cb, k_delayed_work_submit, ProtocolInv, Linked, ConnInv,
         OwnsConnection, Quiet, coinVars, gattVars, baseVars, talkVars
<1>2. challenge' # "fresh"
  BY DigestFacts DEF connected_cb, k_delayed_work_submit, TypeOK
<1> QED
  BY <1>1, <1>2, DistinctQueues
     DEF ProtocolInv, Quiet, connected_cb, k_delayed_work_submit, gattVars,
         coinVars, Requests, baseVars, talkVars

\* Only the first report of level 4 starts a discovery.
LEMMA SecurityProtocol ==
  ASSUME TypeOK, ConnInv, ProtocolInv,
         NEW level \in {"failed", "weak", "L4"}, security_changed_cb(level)
  PROVE  ProtocolInv'
<1>1. /\ Linked /\ Linked'
      /\ (level = "L4" => enc' = "L4") /\ (enc = "L4" => enc' = "L4")
      /\ UNCHANGED <<conn, offset, challenge, response, served, indicated, leds>>
  BY
     DEF security_changed_cb, StartsDiscovery, Linked, connVars, authVars,
         coinVars, baseVars, talkVars
<1>2. CASE /\ ~security_established /\ level = "L4"
           /\ security_established' = TRUE /\ uuid' = "service"
           /\ att' \in {att, Append(att, "discover")}
  <2>1. att = <<>> /\ served = NoDigest
    BY <1>2 DEF ProtocolInv
  <2>2. att' \in {<<>>, <<"discover">>}
    BY <1>2, <2>1, TailFacts DEF Requests
  <2>3. challenge # "fresh" /\ leds # "open" /\ ~indicated
    BY <1>1, <1>2, <2>1, DigestFacts DEF ProtocolInv, NoDigest
  <2> QED
    BY <1>1, <1>2, <2>1, <2>2, <2>3, DistinctQueues
       DEF ProtocolInv, Queues, Requests
<1>3. CASE UNCHANGED <<security_established, uuid, att>>
  BY <1>1, <1>3 DEF ProtocolInv
<1> QED BY <1>2, <1>3 DEF security_changed_cb, StartsDiscovery

\* The next discovery follows the last one.
LEMMA DiscoverProtocol ==
  ASSUME TypeOK, ConnInv, ProtocolInv, discover_next
  PROVE  ProtocolInv'
<1>1. att = <<"discover">> /\ served = NoDigest
  BY QueueFacts DEF discover_next, Pending, ProtocolInv
<1>2. att' \in {<<>>, <<"discover">>}
  BY <1>1, TailFacts DEF discover_next, Requests
<1>3. uuid' # "null" /\ uuid # "null" 
  BY DEF discover_next, NextUuid
<1>4. Linked /\ Linked'
  BY DEF discover_next, Linked, Pending, AfterDisconnect
<1> QED
  BY <1>1, <1>2, <1>3, <1>4, DistinctQueues
     DEF ProtocolInv, discover_next, Queues, Requests, coinVars, authVars,
         secVars, connVars, baseVars, talkVars

\* A request answered without data leaves the queue.
LEMMA WriteCompletedProtocol ==
  ASSUME TypeOK, ConnInv, ProtocolInv, write_completed_func
  PROVE  ProtocolInv'
<1>1. Linked /\ Linked'
  BY DEF write_completed_func, Linked
<1>2. \/ att \in {<<"discover">>, <<"subscribe">>, <<"write">>, <<"read">>}
         /\ att' = <<>>
      \/ att = <<"subscribe", "write">> /\ att' = <<"write">>
      \/ att = <<"write", "read">> /\ att' = <<"read">>
      \/ att = <<"write", "subscribe">> /\ att' = <<"subscribe">>
  BY TailFacts DEF write_completed_func, ProtocolInv, Queues, Requests
<1> QED
  BY <1>1, <1>2, DistinctQueues
     DEF ProtocolInv, write_completed_func, Queues, Requests, coinVars,
         authVars,
         secVars, connVars, baseVars

\* The coin digests the challenge of this connection.
LEMMA WriteChallengeProtocol ==
  ASSUME TypeOK, ConnInv, ProtocolInv, write_challenge
  PROVE  ProtocolInv'
<1>1. att \in {<<"write">>, <<"write", "read">>, <<"write", "subscribe">>}
  BY QueueFacts DEF write_challenge, Pending, ProtocolInv
<1>2. ~indicated /\ challenge = "fresh"
  BY <1>1 DEF ProtocolInv, write_challenge
<1>3. conn \in Coins
  BY DEF write_challenge, Pending, Linked, ConnInv, OwnsConnection, TypeOK
<1>4. served' = <<CoinKey[conn], "fresh">> /\ served' # NoDigest
  BY <1>2, <1>3, DigestFacts, KeyAssumption DEF write_challenge, Age
<1> QED
  BY <1>1, <1>2, <1>4, DistinctQueues
     DEF ProtocolInv, write_challenge, Linked, Pending, Queues, Requests,
         gattVars, authVars, secVars, connVars, baseVars, talkVars

\* The challenge is drawn once the response characteristic is known.
LEMMA SubscribeProtocol ==
  ASSUME TypeOK, ConnInv, ProtocolInv, discover_ccc
  PROVE  ProtocolInv'
<1>0. att = <<"discover">> /\ Tail(att) = <<>>
  BY QueueFacts, TailFacts DEF discover_ccc, Pending, ProtocolInv, Requests
<1>1. /\ att = <<"discover">> /\ Tail(att) = <<>>
      /\ served = NoDigest /\ ~indicated /\ leds # "open"
  BY <1>0 DEF ProtocolInv, NoDigest
<1>2. /\ Linked /\ Linked'
      /\ UNCHANGED <<conn, enc, security_established, offset, indicated, leds>>
  BY
     DEF discover_ccc, SubscribeFailed, DrawAndWrite, AfterDisconnect,
         Pending, Linked, connVars, secVars, baseVars, talkVars
<1>3. security_established /\ enc = "L4" /\ challenge # "fresh"
  BY <1>1, <1>2, DistinctQueues DEF ProtocolInv, discover_ccc, Requests
<1>4. CASE SubscribeFailed
  BY <1>1, <1>2, <1>3, <1>4, DistinctQueues
     DEF SubscribeFailed, ProtocolInv, authVars, Queues, Requests,
         discover_ccc, baseVars, talkVars
<1>5. ASSUME uuid' = "null", NEW q \in {<<>>, <<"subscribe">>}, DrawAndWrite(q)
      PROVE  ProtocolInv'
  <2>1. served' = NoDigest
    BY <1>1, <1>5 DEF DrawAndWrite, OldDigest, Old, NoDigest
  <2>2. CASE att' = q /\ UNCHANGED authVars
    BY <1>1, <1>2, <1>3, <1>5, <2>1, <2>2, DistinctQueues
       DEF ProtocolInv, authVars, Queues, Requests, baseVars, talkVars
  <2>3. CASE challenge' = "fresh" /\ att' \in {q, Append(q, "write")}
    <3>1. att' \in {<<>>, <<"subscribe">>, <<"write">>, <<"subscribe", "write">>}
      BY <1>5, <2>3, TailFacts DEF Requests
    <3> QED
      BY <1>1, <1>2, <1>3, <1>5, <2>1, <2>3, <3>1, DistinctQueues
         DEF ProtocolInv, Queues, Requests
  <2> QED BY <1>5, <2>2, <2>3 DEF DrawAndWrite
<1>6. Append(<<>>, "subscribe") = <<"subscribe">>
  BY TailFacts DEF Requests
<1> QED BY <1>1, <1>4, <1>5, <1>6 DEF discover_ccc

\* The indication brings the first blocks of the digest.
LEMMA NotifyProtocol ==
  ASSUME TypeOK, ConnInv, ProtocolInv,
         NEW len \in 1..RespLen + 1, coin_indicates(len)
  PROVE  ProtocolInv'
<1>1. /\ Linked /\ Linked' /\ served # NoDigest /\ ~indicated /\ indicated' = TRUE
      /\ UNCHANGED <<conn, enc, security_established, uuid, served>>
  BY
     DEF coin_indicates, notify_func, check_response, AfterDisconnect, Linked, connVars,
         secVars, baseVars, talkVars
<1>2. /\ att \in {<<>>, <<"write">>} /\ challenge = "fresh" /\ leds # "open"
      /\ enc = "L4" /\ security_established /\ uuid = "null"
      /\ served = <<CoinKey[conn], "fresh">>
  BY <1>1, DistinctQueues DEF ProtocolInv, Queues, Requests
<1>3. CASE len = RespLen
  <2>1. /\ challenge' = "zero" /\ UNCHANGED offset
        /\ att' \in {att, Append(att, "subscribe")}
        /\ check_response(Written(response, 0, len, served))
    BY <1>3, LenAssumption
       DEF coin_indicates, notify_func, check_response, bt_gatt_unsubscribe
  <2>3. att' \in {<<>>, <<"write">>, <<"subscribe">>, <<"write", "subscribe">>}
    BY <1>2, <2>1, TailFacts DEF Requests
  <2>2. leds' = "open" =>
          SpaceKey[conn] # NoKey /\ served = <<SpaceKey[conn], "fresh">>
    <3> SUFFICES ASSUME leds' = "open"
                 PROVE  SpaceKey[conn] # NoKey /\ served = <<SpaceKey[conn], "fresh">>
      OBVIOUS
    <3>1. Validate(conn, challenge, Written(response, 0, len, served))
      BY <2>1, <1>2 DEF check_response
    <3>2. 1 \in 1..RespLen /\ 0 < 1 /\ 1 <= 0 + len
      BY <1>3, LenAssumption
    <3>3. Written(response, 0, len, served)[1] = served
      BY <3>2 DEF Written
    <3> QED BY <3>1, <3>2, <3>3, <1>2 DEF Validate
  <2> QED
    BY <1>1, <1>2, <2>1, <2>2, <2>3, DistinctQueues
       DEF ProtocolInv, Queues, Requests
<1>4. CASE len < RespLen
  <2>1. /\ response' = Written(response, 0, len, served) /\ offset' = len
        /\ UNCHANGED <<challenge, leds>>
        /\ att' \in {att, Append(att, "read")}
    BY <1>4, LenAssumption DEF coin_indicates, notify_func
  <2>2. att' \in {<<>>, <<"write">>, <<"read">>, <<"write", "read">>}
    BY <1>2, <2>1, TailFacts DEF Requests
  <2>3. \A i \in 1..offset' : response'[i] = served'
    BY <1>1, <1>4, <2>1, LenAssumption DEF Written
  <2> QED
    BY <1>1, <1>2, <2>1, <2>2, <2>3, DistinctQueues
       DEF ProtocolInv, Queues, Requests
<1>5. CASE len > RespLen
  <2>1. UNCHANGED <<att, offset, challenge, response, leds>>
    BY <1>5, LenAssumption DEF coin_indicates, notify_func, authVars
  <2> QED
    BY <1>1, <1>2, <2>1, DistinctQueues DEF ProtocolInv, Queues, Requests
<1> QED BY <1>3, <1>4, <1>5, LenAssumption

\* A read brings the next blocks.
LEMMA ReadProtocol ==
  ASSUME TypeOK, ConnInv, ProtocolInv,
         NEW len \in 1..RespLen, read_completed_func(len)
  PROVE  ProtocolInv'
<1>1. att = <<"read">> /\ Tail(att) = <<>>
  BY QueueFacts, TailFacts
     DEF read_completed_func, Pending, ProtocolInv, Requests
<1>2. /\ Linked /\ Linked'
      /\ UNCHANGED <<conn, enc, security_established, uuid, served, indicated>>
  BY
     DEF read_completed_func, Pending, check_response, AfterDisconnect,
         Linked, connVars, secVars, coinVars, baseVars, talkVars
<1>3. /\ indicated /\ served # NoDigest /\ challenge = "fresh" /\ leds # "open"
      /\ enc = "L4" /\ security_established /\ uuid = "null"
      /\ served = <<CoinKey[conn], "fresh">>
      /\ \A i \in 1..offset : response[i] = served
  BY <1>1, <1>2 DEF ProtocolInv
<1>4. offset \in Nat /\ len \in Nat /\ len >= 1 /\ RespLen \in Nat
  BY LenAssumption DEF TypeOK
<1>5. CASE /\ offset + len < RespLen
           /\ response' = Written(response, offset, len, served) /\ offset' = offset + len
           /\ att' \in {Tail(att), Append(Tail(att), "read")}
           /\ UNCHANGED <<challenge, leds>>
  <2>1. att' \in {<<>>, <<"read">>}
    BY <1>1, <1>5, TailFacts DEF Requests
  <2>2. \A i \in 1..offset' : response'[i] = served'
    BY <1>2, <1>3, <1>4, <1>5 DEF Written
  <2> QED
    BY <1>2, <1>3, <1>5, <2>1, <2>2, DistinctQueues
       DEF ProtocolInv, Queues, Requests
<1>6. CASE /\ offset + len = RespLen
           /\ check_response(Written(response, offset, len, served)) /\ att' = Tail(att)
  <2>1. leds' = "open" =>
          SpaceKey[conn] # NoKey /\ served = <<SpaceKey[conn], "fresh">>
    <3> SUFFICES ASSUME leds' = "open"
                 PROVE  SpaceKey[conn] # NoKey /\ served = <<SpaceKey[conn], "fresh">>
      OBVIOUS
    <3>1. Validate(conn, challenge, Written(response, offset, len, served))
      BY <1>3, <1>6 DEF check_response
    <3>2. RespLen \in 1..RespLen /\ offset < RespLen /\ RespLen <= offset + len
      BY <1>4, <1>6
    <3>3. Written(response, offset, len, served)[RespLen] = served
      BY <3>2 DEF Written
    <3> QED BY <3>1, <3>2, <3>3, <1>3 DEF Validate
  <2> QED
    BY <1>1, <1>2, <1>3, <1>6, <2>1, DistinctQueues
       DEF check_response, ProtocolInv, Queues, Requests
<1>7. CASE att' = Tail(att) /\ UNCHANGED <<authVars, leds>>
  BY <1>1, <1>2, <1>3, <1>7, DistinctQueues
     DEF ProtocolInv, authVars, Queues, Requests, baseVars, talkVars
<1> QED BY <1>5, <1>6, <1>7 DEF read_completed_func

\* The end of a connection is quiet.
LEMMA DisconnectedProtocol ==
  ASSUME TypeOK, ConnInv, ProtocolInv, disconnected_cb
  PROVE  ProtocolInv'
BY DistinctQueues
   DEF disconnected_cb, k_delayed_work_cancel, ProtocolInv, Quiet, Linked,
       Queues, Requests

\* The timeout only asks for the end of the connection.
LEMMA TimeoutProtocol ==
  ASSUME TypeOK, ConnInv, ProtocolInv, timeout
  PROVE  ProtocolInv'
<1>1. Linked' <=> Linked
  BY DEF timeout, AfterDisconnect, Linked
<1> QED
  BY <1>1, ProtocolInvKept DEF timeout, connVars, gattVars, baseVars, talkVars

\* So is a reset.
LEMMA BootProtocol ==
  ASSUME Boot
  PROVE  ProtocolInv'
BY LenAssumption DEF Boot, ProtocolInv, Queues, Quiet, Linked

\* A connection that could not be established.
LEMMA ConnectErrorProtocol ==
  ASSUME TypeOK, ConnInv, ProtocolInv, connected_err
  PROVE  ProtocolInv'
BY
   DEF connected_err, ProtocolInv, Quiet, Linked, gattVars, authVars,
       coinVars, baseVars, talkVars

\* A connection nobody heard of starts or ends quietly.
LEMMA MissedProtocol ==
  ASSUME TypeOK, ConnInv, ProtocolInv, WindowInv, missed_callback
  PROVE  ProtocolInv'
<1>1. Quiet /\ ~security_established /\ challenge # "fresh" /\ leds # "open"
  BY DigestFacts DEF missed_callback, WindowInv, ProtocolInv, Quiet, NoDigest
<1>2. /\ Quiet' /\ ~security_established' /\ challenge' # "fresh" /\ leds' # "open"
      /\ UNCHANGED <<uuid, offset, response>>
  BY <1>1
     DEF missed_callback, Quiet, talkVars, secVars, gattVars, authVars, coinVars
<1> QED
  BY <1>1, <1>2, DistinctQueues
     DEF ProtocolInv, Quiet, Requests

\* Every handler keeps the protocol.
LEMMA NextProtocolInv ==
  ASSUME TypeOK, ConnInv, ProtocolInv, WindowInv, [Next]_vars
  PROVE  ProtocolInv'
<1>1. CASE \/ cmd_ble_start \/ bt_conn_cb_register \/ bt_ready_cb \/ watchdog_timer_expiry_function
           \/ Tick \/ UNCHANGED vars
  <2>1. UNCHANGED <<link, conn, secVars, uuid, att, offset, authVars, coinVars,
                    leds>>
    BY <1>1
       DEF cmd_ble_start, helper_ble_running, bt_conn_cb_register,
           bt_ready_cb, watchdog_timer_expiry_function, Fed, Tick, vars,
           connVars, gattVars, baseVars, talkVars
  <2>2. Linked' <=> Linked
    BY <2>1 DEF Linked
  <2> QED BY <2>1, <2>2, ProtocolInvKept
<1>2. CASE \E c \in Coins : device_found(c)
  <2>1. ~Linked /\ ~Linked'
    BY <1>2 DEF device_found, ConnInv, OwnsConnection, Linked
  <2> QED
    BY <1>2, <2>1, ProtocolInvKept
       DEF device_found, gattVars, baseVars, talkVars
<1>3. CASE \E level \in {"failed", "weak", "L4"} : security_changed_cb(level)
  BY <1>3, SecurityProtocol
<1>4. CASE \E len \in 1..RespLen + 1 : coin_indicates(len)
  BY <1>4, NotifyProtocol
<1>5. CASE \E len \in 1..RespLen : read_completed_func(len)
  BY <1>5, ReadProtocol
<1> QED
  BY <1>1, <1>2, <1>3, <1>4, <1>5, MissedProtocol, ConnectErrorProtocol,
     ConnectedProtocol, DiscoverProtocol, SubscribeProtocol,
     WriteCompletedProtocol, WriteChallengeProtocol, DisconnectedProtocol,
     TimeoutProtocol, BootProtocol
     DEF Next, Unattended, WatchdogReset, cmd_reboot

-----------------------------------------------------------------------------
(* Before bt_conn_cb_register.                                             *)

\* No handler that talks to a coin runs while the callbacks are unknown.
LEMMA NextWindowInv ==
  ASSUME TypeOK, ConnInv, ProtocolInv, WindowInv, [Next]_vars
  PROVE  WindowInv'
<1> SUFFICES ASSUME ~registered'
             PROVE  enc' = "none" /\ ~security_established' /\ challenge' # "fresh"
  BY DEF WindowInv
<1>1. CASE Boot
  BY <1>1 DEF Boot
<1>2. CASE ~Boot
  <2>1. ~registered
    BY <1>2
       DEF Next, Unattended, WatchdogReset, cmd_reboot, vars, baseVars,
           stackVars, cmd_ble_start, bt_conn_cb_register, missed_callback,
           bt_ready_cb, device_found, connected_err, connected_cb,
           security_changed_cb, discover_next, discover_ccc,
           write_completed_func, write_challenge, coin_indicates, notify_func,
           read_completed_func, disconnected_cb, timeout,
           watchdog_timer_expiry_function, Tick
  <2>2. /\ enc = "none" /\ ~security_established /\ challenge # "fresh"
        /\ att = <<>> /\ served = NoDigest
    BY <2>1 DEF WindowInv, ProtocolInv
  <2>3. UNCHANGED <<enc, security_established, challenge>>
    BY <1>2, <2>1, <2>2
       DEF Next, Unattended, WatchdogReset, cmd_reboot, vars, talkVars,
           secVars, authVars, cmd_ble_start, bt_conn_cb_register,
           missed_callback, bt_ready_cb, device_found, connected_err,
           connected_cb, security_changed_cb, discover_next, discover_ccc,
           write_completed_func, write_challenge, Pending, coin_indicates,
           read_completed_func, disconnected_cb, timeout,
           watchdog_timer_expiry_function, Tick
  <2> QED BY <2>2, <2>3
<1> QED BY <1>1, <1>2

-----------------------------------------------------------------------------
(* The theorems.                                                           *)

\* IInv holds in every reachable state, whatever fails and in every
\* interleaving of the coin, the stack, the timers and the operator.
THEOREM Invariance == Spec => []IInv
<1>1. Init => IInv
  BY InitTypeOK, InitConnInv, InitClockInv, InitProtocolInv
     DEF IInv, WindowInv, Init
<1>2. IInv /\ [Next]_vars => IInv'
  BY NextTypeOK, NextConnInv, NextClockInv, NextProtocolInv, NextWindowInv
     DEF IInv, ConnInv
<1> QED
  BY <1>1, <1>2, PTL DEF Spec

\* Every variable keeps the range the handlers of main.c give it.
THEOREM TypeCorrect == Spec => []TypeOK
<1>1. IInv => TypeOK
  BY DEF IInv
<1> QED
  BY <1>1, Invariance, PTL

\* The application's view of its connection is the stack's, with exactly one
\* reference on it: none is leaked and none is given back twice.
THEOREM ConnectionOwned == Spec => []OwnsConnection
<1>1. IInv => OwnsConnection
  BY DEF IInv, ConnInv
<1> QED
  BY <1>1, Invariance, PTL

\* As long as scans start, a ready station scans or has a connection.
THEOREM StationNeverIdle == Spec => []NeverIdle
<1>1. IInv => NeverIdle
  BY DEF IInv, ConnInv
<1> QED
  BY <1>1, Invariance, PTL

\* timeout_timer never outlives its connection, and as long as disconnections
\* succeed no connection is without it.
THEOREM TimeoutOwned == Spec => []TimerOwned
<1>1. IInv => TimerOwned
  BY DEF IInv, ConnInv
<1> QED
  BY <1>1, Invariance, PTL

\* No parameter block is reused while the stack still works with it, and no
\* null UUID is ever compared.
THEOREM ParametersExclusive == Spec => []ParamsExclusive
<1>1. IInv => ParamsExclusive
  <2> SUFFICES ASSUME IInv PROVE ParamsExclusive
    OBVIOUS
  <2>1. att \in Queues /\ (att = <<"discover">> => uuid # "null")
    BY DEF IInv, ProtocolInv
  <2>2. CASE att = <<>>                        BY <2>2 DEF ParamsExclusive
  <2>3. CASE att = <<"discover">>              BY <2>1, <2>3 DEF ParamsExclusive
  <2>4. CASE att = <<"subscribe">>             BY <2>4 DEF ParamsExclusive
  <2>5. CASE att = <<"subscribe", "write">>    BY <2>5 DEF ParamsExclusive
  <2>6. CASE att = <<"write">>                 BY <2>6 DEF ParamsExclusive
  <2>7. CASE att = <<"write", "read">>         BY <2>7 DEF ParamsExclusive
  <2>8. CASE att = <<"write", "subscribe">>    BY <2>8 DEF ParamsExclusive
  <2>9. CASE att = <<"read">>                  BY <2>9 DEF ParamsExclusive
  <2> QED
    BY <2>1, <2>2, <2>3, <2>4, <2>5, <2>6, <2>7, <2>8, <2>9 DEF Queues
<1> QED
  BY <1>1, Invariance, PTL

\* Nothing is exchanged with a coin before this connection is encrypted at
\* level 4.
THEOREM NothingBeforeEncryption == Spec => []EncryptedFirst
<1>1. IInv => EncryptedFirst
  BY DEF IInv, ProtocolInv, EncryptedFirst, Quiet
<1> QED
  BY <1>1, Invariance, PTL

\* The door is signalled open only for a coin that digested this connection's
\* challenge with the key the station has for it.
THEOREM DoorSafety == Spec => []DoorNeedsAnswer
<1>1. IInv => DoorNeedsAnswer
  <2> SUFFICES ASSUME IInv, leds = "open" PROVE DoorNeedsAnswer
    BY DEF DoorNeedsAnswer
  <2>1. Linked /\ served = <<SpaceKey[conn], "fresh">> /\ conn = default_conn
    BY DEF IInv, ProtocolInv, ConnInv, OwnsConnection, Linked
  <2>2. served # NoDigest
    BY <2>1 DEF NoDigest
  <2>3. served = <<CoinKey[conn], "fresh">> /\ conn \in Coins
    BY <2>1, <2>2
       DEF IInv, ProtocolInv, TypeOK, ConnInv, OwnsConnection, Linked
  <2>4. SpaceKey[conn] # NoKey
    BY DEF IInv, ProtocolInv
  <2> QED BY <2>1, <2>4 DEF DoorNeedsAnswer
<1> QED
  BY <1>1, Invariance, PTL

\* While no connection has ended the watchdog never runs out: the period of
\* watchdog_timer is shorter than the window.
THEOREM WatchdogFed == Spec => []WatchdogOnlyIfDying
<1>1. IInv => WatchdogOnlyIfDying
  BY TimeAssumption DEF IInv, ClockInv, TypeOK, WatchdogOnlyIfDying
<1> QED
  BY <1>1, Invariance, PTL

\* In a station that wants to die the reset always comes before a running
\* connection's timeout does.
THEOREM ResetComesFirst == Spec => []DyingCutsFirst
<1>1. IInv => DyingCutsFirst
  BY DEF IInv, ClockInv
<1> QED
  BY <1>1, Invariance, PTL

-----------------------------------------------------------------------------
(* Central implements DoorLock.                                            *)

\* What a step that leaves the buffers, the latch and the connection alone
\* means for the lock: nothing.
LEMMA LockStutter ==
  ASSUME Linked' <=> Linked, UNCHANGED <<default_conn, challenge, leds>>,
         UNCHANGED <<security_established, uuid>> \/ stage' = stage
  PROVE  UNCHANGED Lock!lockVars
BY DEF Lock!lockVars, stage

\* In a connection that is discovering, the lock is at "admitted".
LEMMA DiscoveringIsAdmitted ==
  ASSUME IInv, Linked, uuid # "null" \/ ~security_established
  PROVE  stage = "admitted" /\ challenge # "fresh"
BY DEF IInv, ProtocolInv, stage

\* A station that boots is a lock without a client.
LEMMA LockInit == Init => Lock!Init
BY DEF Init, Lock!Init, stage, Linked

\* A check of the response is one judgement of the lock.
LEMMA CheckIsJudge ==
  ASSUME IInv, Linked, Linked', served # NoDigest, challenge = "fresh",
         NEW resp, \A i \in 1..RespLen : resp[i] = served,
         check_response(resp), UNCHANGED <<default_conn, security_established, uuid>>
  PROVE  Lock!Judge
<1>1. /\ security_established /\ uuid = "null" /\ leds # "open"
      /\ conn = default_conn /\ conn \in Coins
      /\ served = <<CoinKey[conn], "fresh">>
  BY DEF IInv, TypeOK, ProtocolInv, ConnInv, OwnsConnection, Linked
<1>2. stage = "challenged" /\ stage' = "spent"
  BY <1>1 DEF stage, check_response
<1>3. CASE SpaceKey[conn] # NoKey /\ SpaceKey[conn] = CoinKey[conn]
  <2>1. Validate(conn, challenge, resp)
    BY <1>1, <1>3, KeyAssumption DEF Validate
  <2>2. leds' = "open"
    BY <2>1 DEF check_response
  <2> QED BY <1>1, <1>2, <1>3, <2>2 DEF Lock!Judge
<1>4. CASE ~(SpaceKey[conn] # NoKey /\ SpaceKey[conn] = CoinKey[conn])
  <2>1. 1 \in 1..RespLen
    BY LenAssumption
  <2>2. ~Validate(conn, challenge, resp)
    BY <1>1, <1>4, <2>1 DEF Validate
  <2>3. leds' # "open"
    BY <1>1, <2>2 DEF check_response
  <2> QED BY <1>1, <1>2, <1>4, <2>3 DEF Lock!Judge
<1> QED
  BY <1>3, <1>4

\* Every step of the station is a step of the lock or none.
LEMMA LockStep ==
  ASSUME IInv, [Next]_vars
  PROVE  [Lock!Next]_Lock!lockVars
<1>1. CASE \/ cmd_ble_start \/ bt_conn_cb_register \/ bt_ready_cb
           \/ write_completed_func \/ write_challenge \/ watchdog_timer_expiry_function \/ Tick \/ UNCHANGED vars
  <2>1. UNCHANGED <<link, default_conn, challenge, leds, security_established, uuid>>
    BY <1>1
       DEF cmd_ble_start, helper_ble_running, bt_conn_cb_register, bt_ready_cb,
           write_completed_func, write_challenge,
           watchdog_timer_expiry_function, Fed, Tick, vars, connVars,
           gattVars, authVars, secVars, baseVars, talkVars
  <2> QED BY <2>1, LockStutter DEF Linked
<1>2. CASE (\E c \in Coins : device_found(c)) \/ connected_err
  <2>1. ~Linked /\ ~Linked' /\ UNCHANGED leds
    BY <1>2
       DEF device_found, connected_err, Linked, IInv, ConnInv, OwnsConnection,
                talkVars
  <2> QED BY <2>1 DEF Lock!lockVars, stage
<1>3. CASE connected_cb
  <2>1. /\ ~Linked /\ Linked' /\ ~security_established'
        /\ default_conn' = default_conn /\ default_conn \in Bonded \cap Coins
        /\ leds' = "busy"
    BY <1>3
       DEF connected_cb, k_delayed_work_submit, AfterDisconnect, Linked, IInv,
           TypeOK, ConnInv, OwnsConnection, baseVars, connVars
  <2>2. challenge' # "fresh"
    BY <1>3, DigestFacts DEF connected_cb, k_delayed_work_submit, IInv, TypeOK
  <2>3. Lock!Admit(default_conn)
    BY <2>1, <2>2 DEF Lock!Admit, stage
  <2> QED BY <2>1, <2>3 DEF Lock!Next
<1>4. CASE \E level \in {"failed", "weak", "L4"} : security_changed_cb(level)
  <2>1. /\ Linked /\ Linked' /\ UNCHANGED <<default_conn, challenge, leds>>
        /\ \/ UNCHANGED <<security_established, uuid>>
           \/ ~security_established /\ uuid' = "service"
    BY <1>4
       DEF security_changed_cb, StartsDiscovery, Linked, baseVars, connVars,
           authVars
  <2>2. UNCHANGED <<security_established, uuid>> \/ stage' = stage
    <3>1. ASSUME ~security_established, uuid' = "service"
          PROVE  stage' = stage
      BY <2>1, <3>1, DiscoveringIsAdmitted DEF stage
    <3> QED BY <2>1, <3>1
  <2> QED BY <2>1, <2>2, LockStutter
<1>5. CASE discover_next
  <2>1. /\ Linked /\ Linked' /\ UNCHANGED <<default_conn, challenge, leds>>
        /\ uuid # "null" /\ uuid' # "null"
    BY <1>5 DEF discover_next, Pending, NextUuid, AfterDisconnect, Linked,
                baseVars, connVars, authVars
  <2>2. stage' = stage
    BY <2>1, DiscoveringIsAdmitted DEF stage
  <2> QED BY <2>1, <2>2, LockStutter
<1>6. CASE discover_ccc
  <2>1. /\ Linked /\ Linked'
        /\ UNCHANGED <<default_conn, leds, security_established>>
        /\ uuid = "ccc" /\ security_established
    <3>1. Linked /\ Linked' /\ uuid = "ccc" /\ att # <<>>
      BY <1>6 DEF discover_ccc, Pending, SubscribeFailed, DrawAndWrite,
                  AfterDisconnect, Linked
    <3>2. security_established
      BY <3>1 DEF IInv, ProtocolInv
    <3>3. UNCHANGED <<default_conn, leds, security_established>>
      BY <1>6 DEF discover_ccc, baseVars, connVars, secVars
    <3> QED BY <3>1, <3>2, <3>3
  <2>2. stage = "admitted" /\ challenge # "fresh"
    BY <2>1, DiscoveringIsAdmitted
  <2>3. CASE UNCHANGED <<uuid, challenge>>
    BY <2>1, <2>3, LockStutter
  <2>4. CASE uuid' = "null" /\ challenge' = challenge
    <3>1. stage' = "spent"
      BY <2>1, <2>2, <2>4 DEF stage
    <3> QED BY <2>1, <2>2, <3>1 DEF Lock!Next, Lock!Forfeit
  <2>5. CASE uuid' = "null" /\ challenge' = "fresh"
    <3>1. stage' = "challenged"
      BY <2>1, <2>5 DEF stage
    <3> QED BY <2>1, <2>2, <3>1 DEF Lock!Next, Lock!Challenge
  <2> QED
    BY <1>6, <2>3, <2>4, <2>5
       DEF discover_ccc, SubscribeFailed, DrawAndWrite, authVars
<1>7. CASE \E len \in 1..RespLen + 1 : coin_indicates(len)
  <2>0. PICK len \in 1..RespLen + 1 : coin_indicates(len)
    BY <1>7
  <2>1. /\ Linked /\ Linked' /\ served # NoDigest /\ ~indicated
        /\ UNCHANGED <<default_conn, security_established, uuid>>
    BY <2>0 DEF coin_indicates, notify_func, check_response, AfterDisconnect,
                Linked, baseVars, connVars, secVars
  <2>2. CASE len = RespLen
    <3>1. challenge = "fresh"
      BY <2>1 DEF IInv, ProtocolInv
    <3>2. check_response(Written(response, 0, len, served))
      BY <2>0, <2>2, LenAssumption DEF coin_indicates, notify_func
    <3>3. \A i \in 1..RespLen : Written(response, 0, len, served)[i] = served
      BY <2>2, LenAssumption DEF Written
    <3> QED BY <2>1, <3>1, <3>2, <3>3, CheckIsJudge DEF Lock!Next
  <2>3. CASE len # RespLen
    <3>1. UNCHANGED <<challenge, leds>>
      BY <2>0, <2>3, LenAssumption DEF coin_indicates, notify_func, authVars
    <3> QED BY <2>1, <3>1, LockStutter
  <2> QED BY <2>2, <2>3
<1>8. CASE \E len \in 1..RespLen : read_completed_func(len)
  <2>0. PICK len \in 1..RespLen : read_completed_func(len)
    BY <1>8
  <2>1. /\ Linked /\ Linked'
        /\ UNCHANGED <<default_conn, security_established, uuid>>
    BY <2>0 DEF read_completed_func, check_response, Pending, AfterDisconnect,
                Linked, baseVars, connVars, secVars
  <2>2. att = <<"read">>
    BY <2>0, QueueFacts DEF read_completed_func, Pending, IInv, ProtocolInv
  <2>3. /\ served # NoDigest /\ challenge = "fresh"
        /\ \A i \in 1..offset : response[i] = served
    BY <2>2 DEF IInv, ProtocolInv
  <2>4. CASE check_response(Written(response, offset, len, served)) /\ offset + len = RespLen
    <3>1. \A i \in 1..RespLen : Written(response, offset, len, served)[i] = served
      BY <2>3, <2>4, LenAssumption DEF Written, IInv, TypeOK
    <3> QED BY <2>1, <2>3, <2>4, <3>1, CheckIsJudge DEF Lock!Next
  <2>5. CASE UNCHANGED <<challenge, leds>>
    BY <2>1, <2>5, LockStutter
  <2> QED BY <2>0, <2>4, <2>5 DEF read_completed_func, authVars
<1>9. CASE disconnected_cb
  <2>1. Linked /\ ~Linked' /\ leds' = "off"
    BY <1>9 DEF disconnected_cb, k_delayed_work_cancel, Linked
  <2>2. Lock!Leave
    BY <2>1 DEF Lock!Leave, stage
  <2> QED BY <2>2 DEF Lock!Next
<1>10. CASE timeout
  <2>1. /\ Linked' <=> Linked
        /\ UNCHANGED <<default_conn, challenge, leds, security_established, uuid>>
    BY <1>10
       DEF timeout, AfterDisconnect, Linked, connVars, talkVars, authVars,
                 secVars, gattVars
  <2> QED BY <2>1, LockStutter
<1>11. CASE Boot
  <2>1. ~Linked' /\ leds' = "off"
    BY <1>11 DEF Boot, Linked
  <2>2. CASE Linked
    <3>1. Lock!Leave
      BY <2>1, <2>2 DEF Lock!Leave, stage
    <3> QED BY <3>1 DEF Lock!Next
  <2>3. CASE ~Linked
    <3>1. leds # "open"
      BY <2>3 DEF IInv, ProtocolInv
    <3> QED BY <2>1, <2>3, <3>1 DEF Lock!lockVars, stage
  <2> QED BY <2>2, <2>3
<1>12. CASE missed_callback
  <2>1. /\ ~security_established /\ challenge # "fresh"
        /\ UNCHANGED <<default_conn, leds, security_established, challenge>>
    BY <1>12
       DEF missed_callback, IInv, WindowInv, talkVars, secVars, authVars
  <2>2. leds # "open"
    BY <2>1, DigestFacts DEF IInv, ProtocolInv, NoDigest
  <2>3. link = "creating" => default_conn \in Bonded
    BY DEF IInv, ConnInv, OwnsConnection
  <2>4. CASE link = "creating" /\ link' = "up"
    <3>1. Lock!Admit(default_conn)
      BY <2>1, <2>2, <2>3, <2>4 DEF Lock!Admit, stage, Linked
    <3>2. default_conn \in Coins
      BY <2>3, <2>4, CoinAssumption
    <3> QED BY <3>1, <3>2 DEF Lock!Next
  <2>5. CASE link' = "none" /\ Linked
    <3>1. Lock!Leave
      BY <2>1, <2>2, <2>5 DEF Lock!Leave, stage, Linked
    <3> QED BY <3>1 DEF Lock!Next
  <2>6. CASE link' = "none" /\ ~Linked
    BY <2>1, <2>2, <2>6 DEF Lock!lockVars, stage, Linked
  <2> QED BY <1>12, <2>4, <2>5, <2>6 DEF missed_callback
<1> QED
  BY <1>1, <1>2, <1>3, <1>4, <1>5, <1>6, <1>7, <1>8, <1>9, <1>10, <1>11,
      <1>12
     DEF Next, Unattended, WatchdogReset, cmd_reboot

\* The station keeps every promise of DoorLock: at most one judgement per
\* connection and challenge, and the door opens exactly for a coin whose key is
\* the station's.
THEOREM StationIsLock == Spec => ImplementsLock
<1>1. IInv /\ [Next]_vars => [Lock!Next]_Lock!lockVars
  BY LockStep
<1> QED
  BY <1>1, LockInit, Invariance, PTL DEF Spec, ImplementsLock, Lock!Spec

=============================================================================
