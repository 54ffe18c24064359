------------------------------- MODULE Keyfob -------------------------------
(***************************************************************************)
(* The base station and the coin it is connected to.  Central assumes of a *)
(* coin that it digests the challenge as a whole (served), then indicates  *)
(* its response once, and returns it in parts of some length.  Here the    *)
(* coin runs the code of CoinAuth: the challenge reaches it in the pieces  *)
(* the MTU allows, and when it indicates what is what its code does.       *)
(*                                                                         *)
(* What one side's stack does with the other's messages is external: a     *)
(* long value is sent as prepared writes of mtu - 5 bytes, each read from  *)
(* the caller's buffer when it is sent, and executed in order.             *)
(***************************************************************************)
EXTENDS Central

CONSTANTS
  BlockLen,           \* size of a challenge, in bytes (RespLen: of a response)
  Mtus                \* the ATT MTUs a connection may have

\* 23 is the least MTU; a response of 42 bytes is the longest that an indication
\* and one read carry then (the program's has 32).
ASSUME MtuAssumption == BlockLen \in Nat \ {0} /\ Mtus \subseteq Nat \ (0..22)
ASSUME ResponseAssumption == RespLen <= 42

VARIABLES
  fob_key, fob_challenge, fob_response, fob_ccc, fob_ind,   \* see CoinAuth
  mtu,                \* of the connection
  sent,               \* bytes of the challenge sent to the coin
  prepared,           \* the pieces its stack holds
  radio               \* "good": no message is lost, late or refused, and the
                      \* coin's stack sends what it is asked to

Fob == INSTANCE CoinAuth WITH
  OutLen <- RespLen, Values <- Age, Zero <- "zero",
  auth_key <- fob_key, challenge <- fob_challenge, response <- fob_response,
  ccc_value <- fob_ccc, ind <- fob_ind

fobVars  == <<fob_key, fob_challenge, fob_response, fob_ccc, fob_ind>>
linkVars == <<mtu, sent, prepared>>
allVars  == <<vars, fobVars, linkVars, radio>>

DefaultMtu == 23

KInit ==
  /\ Init /\ Fob!Zeroed
  /\ mtu = DefaultMtu /\ sent = 0 /\ prepared = <<>>
  /\ radio \in {"good", "bad"}

-----------------------------------------------------------------------------
(* The coin sleeps without a connection: what it knows is in its flash.    *)

FobAsleep ==
  /\ fob_key' = NoKey
  /\ fob_challenge' = [b \in 0..BlockLen - 1 |-> "zero"] /\ fob_response' = Fob!NoResponse
  /\ fob_ccc' = 0 /\ fob_ind' = 0
  /\ mtu' = DefaultMtu /\ sent' = 0 /\ prepared' = <<>>

\* What the flash of a coin with this key holds for settings_load: the record
\* of the key, or one with something behind it; for a coin without a key none,
\* or one that is cut off.
KeyRecords(key) ==
  IF key = NoKey THEN [key : Keys, len : {0, Fob!BLAKE2S_KEYBYTES - 1}]
  ELSE [key : {key}, len : {Fob!BLAKE2S_KEYBYTES, Fob!BLAKE2S_KEYBYTES + 1}]

\* The coin has booted, loaded its key and advertised; its stack may restore
\* the subscription of a bonded client.
FobAwake ==
  /\ \E record \in KeyRecords(CoinKey[conn]) : Fob!set(record.key, record.len)
  /\ fob_ccc' \in {0, Fob!BT_GATT_CCC_INDICATE} /\ mtu' \in Mtus
  /\ UNCHANGED <<fob_challenge, fob_response, fob_ind, sent, prepared>>

KConnected == connected_cb /\ FobAwake

\* The coin has no part in what the station does not hear of.
KMissed ==
  /\ missed_callback
  /\ IF link' = "up" THEN FobAwake ELSE FobAsleep

KDisconnected == disconnected_cb /\ FobAsleep
KReset        == (WatchdogReset \/ (radio = "bad" /\ cmd_reboot)) /\ FobAsleep

\* The client configuration of the response characteristic is written: the
\* station subscribes, or no longer does.
KSubscribed ==
  /\ Pending("subscribe") /\ write_completed_func
  /\ Fob!ccc_cfg_changed(IF sub = conn THEN Fob!BT_GATT_CCC_INDICATE ELSE 0)
  /\ UNCHANGED linkVars

\* The next piece of a value: all of it, if a simple write has room for it.
PieceLen ==
  IF BlockLen <= mtu - 3 THEN BlockLen ELSE Fob!MIN(mtu - 5, BlockLen - sent)

\* A piece is read from the challenge buffer and sent.
KPrepare ==
  /\ Pending("write") /\ sent < BlockLen
  /\ prepared' = Append(prepared, [offset |-> sent, len |-> PieceLen, value |-> challenge])
  /\ sent' = sent + PieceLen
  /\ UNCHANGED <<vars, fobVars, mtu>>

\* The coin's stack hands the pieces to write_challenge.
KExecute ==
  /\ Pending("write") /\ sent = BlockLen /\ prepared # <<>>
  /\ \E failed \in IF radio = "bad" THEN BOOLEAN ELSE {FALSE} :
       Fob!write_challenge(Head(prepared), mtu, failed)
  /\ prepared' = Tail(prepared)
  /\ IF Len(prepared) = 1 THEN write_challenge ELSE UNCHANGED vars
  /\ UNCHANGED <<mtu, sent>>

KWritten ==
  /\ Pending("write") /\ sent = BlockLen /\ prepared = <<>>
  /\ write_completed_func
  /\ UNCHANGED <<fobVars, linkVars>>

\* The station's stack drops an indication nobody subscribed to.
KIndicate ==
  /\ fob_ind > 0
  /\ fob_ind' = 0
  /\ IF sub = conn THEN notify_func(fob_ind) ELSE UNCHANGED vars
  /\ UNCHANGED <<fob_key, fob_challenge, fob_response, fob_ccc, linkVars>>

KRead ==
  /\ read_completed_func(Fob!read_response(mtu, offset))
  /\ UNCHANGED <<fobVars, linkVars>>

-----------------------------------------------------------------------------
\* The station is owed an answer: none is late when the radio is good.
Owed ==
  \/ link = "creating"
  \/ Linked /\ ((enc = "none" /\ ~unreported) \/ att # <<>> \/ fob_ind > 0)

\* What the station does by itself.
Alone ==
  \/ cmd_ble_start \/ bt_conn_cb_register \/ bt_ready_cb
  \/ \E c \in Coins : device_found(c)
  \/ security_changed_cb("L4") \/ discover_next \/ discover_ccc
  \/ timeout \/ watchdog_timer_expiry_function
  \/ Tick /\ (radio = "good" => ~Owed)

\* What goes wrong on a bad radio: no connection, no encryption, no answer.
Trouble ==
  /\ radio = "bad"
  /\ \/ connected_err
     \/ \E level \in {"failed", "weak"} : security_changed_cb(level)
     \/ write_completed_func

\* One message between the two.
Exchange ==
  \/ KConnected \/ KSubscribed
  \/ KPrepare \/ KExecute \/ KWritten \/ KIndicate \/ KRead

KNext ==
  /\ \/ (Alone \/ Trouble) /\ UNCHANGED <<fobVars, linkVars>>
     \/ Exchange
     \/ KMissed /\ (radio = "bad" \/ "up" \in {link, link'})
     \/ (radio = "bad" \/ link = "closing" \/ unreported) /\ KDisconnected
     \/ KReset
  /\ UNCHANGED radio

KSpec == KInit /\ [][KNext]_allVars

\* The answers of a good radio come, and so do the timers of the station.
Answers ==
  \/ Exchange
  \/ (security_changed_cb("L4") \/ discover_next \/ discover_ccc) /\ UNCHANGED <<fobVars, linkVars>>

KFairSpec == KSpec /\ WF_allVars(Answers /\ UNCHANGED radio)

-----------------------------------------------------------------------------
\* Central's picture of the coin is true: what served says was digested is
\* what the coin's response characteristic holds, the whole of one challenge
\* under the key of that coin, however the challenge was cut into pieces, and
\* for as long as the station may still read it (write_challenge).
AnswersMatch ==
  served # NoDigest =>
    fob_response = <<served[1], [b \in 0..BlockLen - 1 |-> served[2]]>>

\* Central's assumptions about a coin hold of the real one: what the two do
\* together is a behaviour of Central, with all that is promised there.  The
\* coin indicates nothing before it has digested the whole challenge, and once
\* only, although notify_func would take it at any time (coin_indicates).
ImplementsCentral == Spec

\* What the indication leaves out comes with one read, which fits the rest
\* exactly: read_completed_func never meets its length error (MIN of line 96).
RestFits ==
  Pending("read") => offset + Fob!read_response(mtu, offset) = RespLen

\* While the radio is good, a coin whose key the station has opens the door,
\* whatever the MTU: no part of the exchange is left out, refused or forgotten
\* (write_challenge ignores the result of bt_gatt_indicate, which succeeds as
\* long as the radio is good).  It does so in the first connection after a
\* reset, if connected_cb is called for it; later ones are cut off by the
\* watchdog.
Genuine == {c \in Coins : SpaceKey[c] # NoKey /\ SpaceKey[c] = CoinKey[c]}

DoorOpens ==
  radio = "good" /\ link = "up" /\ conn \in Genuine /\ ~i_want_to_die /\ ~unreported
    ~> leds = "open"

-----------------------------------------------------------------------------
(* The inductive invariant of KeyfobProofs: how far a challenge has come.  *)

\* How many of its bytes the coin has copied.
Arrived == IF prepared = <<>> THEN sent ELSE Head(prepared).offset

FobTypeOK ==
  /\ mtu \in Mtus \cup {DefaultMtu} /\ sent \in 0..BlockLen
  /\ fob_challenge \in [0..BlockLen - 1 -> Age]
  /\ fob_ccc \in {0, Fob!BT_GATT_CCC_INDICATE}
  /\ fob_ind \in {0, Fob!MIN(mtu - 3, RespLen)}
  /\ prepared \in Seq([offset : 0..BlockLen, len : 1..BlockLen, value : {"fresh"}])

\* The pieces follow one another, from what is copied to what is sent.
PiecesInv ==
  /\ \A i \in DOMAIN prepared :
       LET end == prepared[i].offset + prepared[i].len IN
       end = IF i = Len(prepared) THEN sent ELSE prepared[i + 1].offset
  /\ \A b \in 0..BlockLen - 1 : b < Arrived => fob_challenge[b] = "fresh"
  /\ BlockLen <= mtu - 3 => sent \in {0, BlockLen}

Reading == att \in {<<"read">>, <<"write", "read">>}

FobInv ==
  /\ FobTypeOK /\ PiecesInv
  /\ Linked => fob_key = CoinKey[conn]
  /\ ~Linked => sent = 0 /\ prepared = <<>> /\ fob_ind = 0
  /\ served # NoDigest => prepared = <<>> /\ sent = BlockLen
  /\ fob_ind > 0 => served # NoDigest /\ ~indicated
  /\ Reading => offset = mtu - 3 /\ offset < RespLen
  /\ AnswersMatch

KInv == IInv /\ FobInv

=============================================================================
