---------------------------- MODULE KeyfobProofs ----------------------------
(***************************************************************************)
(* Theorems about a station and the coin at the other end, for every set   *)
(* of MTUs and every length of the challenge: the coin is the one Central  *)
(* assumes, so what CentralProofs proves holds of the two.                 *)
(***************************************************************************)
EXTENDS Keyfob, CentralProofs

-----------------------------------------------------------------------------
(* Facts about the data.                                                   *)

LEMMA MtuFacts ==
  ASSUME FobTypeOK
  PROVE  /\ mtu \in Nat /\ mtu >= 23
         /\ Fob!MIN(mtu - 3, RespLen) \in 1..RespLen
         /\ fob_ind # 0 => fob_ind = Fob!MIN(mtu - 3, RespLen)
BY MtuAssumption, LenAssumption DEF FobTypeOK, DefaultMtu, Fob!MIN

\* A read of the response returns some of its bytes.
LEMMA ReadFacts ==
  ASSUME FobTypeOK, offset \in 0..RespLen, offset < RespLen
  PROVE  /\ Fob!read_response(mtu, offset) \in 1..RespLen
         /\ offset = mtu - 3 => offset + Fob!read_response(mtu, offset) = RespLen
BY MtuFacts, LenAssumption, ResponseAssumption DEF Fob!read_response, Fob!MIN

\* The inductive step of CentralProofs.
LEMMA CentralStep ==
  ASSUME IInv, [Next]_vars
  PROVE  IInv'
BY NextTypeOK, NextConnInv, NextClockInv, NextProtocolInv, NextWindowInv
   DEF IInv, ConnInv

-----------------------------------------------------------------------------
(* Every step of the two is a step of Central.                             *)

LEMMA KStepIsCentral ==
  ASSUME KInv, [KNext]_allVars
  PROVE  [Next]_vars
<1>1. CASE Alone \/ Trouble
  BY <1>1 DEF Alone, Trouble, Next, Unattended
<1>2. CASE KConnected \/ KMissed \/ KSubscribed \/ KWritten \/ KDisconnected
  BY <1>2
     DEF KConnected, KMissed, KSubscribed, KWritten, KDisconnected, Next,
         Unattended
<1>3. CASE KPrepare
  BY <1>3 DEF KPrepare
<1>4. CASE KExecute
  BY <1>4 DEF KExecute, Next, Unattended
<1>5. CASE KIndicate
  <2>1. fob_ind \in 1..RespLen + 1 /\ served # NoDigest /\ ~indicated
    BY <1>5, MtuFacts, LenAssumption DEF KIndicate, KInv, FobInv
  <2>2. CASE sub = conn
    <3>1. coin_indicates(fob_ind)
      BY <1>5, <2>1, <2>2 DEF KIndicate, coin_indicates
    <3> QED BY <2>1, <3>1 DEF Next, Unattended
  <2>3. CASE sub # conn
    BY <1>5, <2>3 DEF KIndicate
  <2> QED BY <2>2, <2>3
<1>6. CASE KRead
  <2>1. Pending("read") /\ read_completed_func(Fob!read_response(mtu, offset))
    BY <1>6 DEF KRead, read_completed_func
  <2>2. att = <<"read">>
    BY <2>1, QueueFacts DEF Pending, KInv, IInv, ProtocolInv
  <2>3. FobTypeOK /\ offset \in 0..RespLen /\ offset < RespLen
    BY <2>2 DEF KInv, FobInv, Reading, IInv, TypeOK
  <2>4. Fob!read_response(mtu, offset) \in 1..RespLen
    BY <2>3, ReadFacts
  <2> QED BY <2>1, <2>4 DEF Next, Unattended
<1>7. CASE KReset
  BY <1>7 DEF KReset, Next, Unattended
<1>8. CASE UNCHANGED allVars
  BY <1>8 DEF allVars
<1> QED
  BY <1>1, <1>2, <1>3, <1>4, <1>5, <1>6, <1>7, <1>8 DEF KNext, Exchange

-----------------------------------------------------------------------------
(* The invariant of the coin.                                              *)

\* Steps of the station alone leave the coin as it is.
LEMMA FobInvKept ==
  ASSUME FobInv, UNCHANGED <<fobVars, linkVars>>,
         Linked' <=> Linked, Linked => conn' = conn,
         UNCHANGED <<served, indicated>>,
         Reading' => Reading /\ offset' = offset
  PROVE  FobInv'
BY DEF FobInv, FobTypeOK, PiecesInv, Arrived, AnswersMatch, fobVars, linkVars

LEMMA QueuesDiffer ==
  /\ <<>> \notin {<<"read">>, <<"write", "read">>}
  /\ \A r \in Requests \ {"read"} : <<r>> \notin {<<"read">>, <<"write", "read">>}
  /\ <<"subscribe", "write">> \notin {<<"read">>, <<"write", "read">>}
  /\ <<"write", "subscribe">> \notin {<<"read">>, <<"write", "read">>}
BY DistinctQueues DEF Requests

LEMMA AloneFobInv ==
  ASSUME KInv, Alone \/ Trouble \/ write_completed_func, UNCHANGED <<fobVars, linkVars>>
  PROVE  FobInv'
<1>0. FobInv /\ ProtocolInv /\ OwnsConnection
  BY DEF KInv, IInv, ConnInv
<1>1. CASE \/ cmd_ble_start \/ bt_conn_cb_register \/ bt_ready_cb \/ timeout
           \/ watchdog_timer_expiry_function \/ Tick
  <2>1. (Linked' <=> Linked) /\ UNCHANGED <<conn, served, indicated, att, offset>>
    BY <1>1 DEF cmd_ble_start, bt_conn_cb_register, bt_ready_cb, timeout, watchdog_timer_expiry_function,
                Tick, Linked, AfterDisconnect, connVars, talkVars, gattVars, coinVars
  <2> QED BY <1>0, <2>1, FobInvKept DEF Reading
<1>2. CASE (\E c \in Coins : device_found(c)) \/ connected_err
  <2>1. ~Linked /\ ~Linked' /\ UNCHANGED <<served, indicated, att, offset>>
    BY <1>2, <1>0 DEF device_found, connected_err, Linked, OwnsConnection, talkVars,
                      gattVars, coinVars
  <2> QED BY <1>0, <2>1, FobInvKept DEF Reading
<1>3. CASE \E level \in {"failed", "weak", "L4"} : security_changed_cb(level)
  <2>1. (Linked' <=> Linked) /\ UNCHANGED <<conn, served, indicated, offset>>
    BY <1>3 DEF security_changed_cb, Linked, baseVars, connVars, coinVars
  <2>2. att' = att \/ att' = <<"discover">>
    BY <1>0, <1>3, TailFacts
       DEF security_changed_cb, StartsDiscovery, ProtocolInv, Requests
  <2> QED BY <1>0, <2>1, <2>2, FobInvKept, QueuesDiffer DEF Reading, Requests
<1>4. CASE discover_next
  <2>1. (Linked' <=> Linked) /\ UNCHANGED <<conn, served, indicated, offset>>
    BY <1>4 DEF discover_next, Linked, Pending, AfterDisconnect, baseVars, connVars, coinVars
  <2>2. att' \in {<<>>, <<"discover">>}
    <3>1. att = <<"discover">>
      BY <1>0, <1>4, QueueFacts DEF discover_next, Pending, ProtocolInv
    <3> QED BY <1>4, <3>1, TailFacts DEF discover_next, Requests
  <2> QED BY <1>0, <2>1, <2>2, FobInvKept, QueuesDiffer DEF Reading, Requests
<1>5. CASE discover_ccc
  <2>1. att = <<"discover">> /\ Tail(att) = <<>> /\ served = NoDigest
    BY <1>0, <1>5, QueueFacts, TailFacts DEF discover_ccc, Pending, ProtocolInv, Requests
  <2>2. (Linked' <=> Linked) /\ UNCHANGED <<conn, served, indicated, offset>>
    BY <1>5, <2>1
       DEF discover_ccc, SubscribeFailed, DrawAndWrite, Linked, Pending, AfterDisconnect,
           baseVars, connVars, coinVars, OldDigest, Old, NoDigest
  <2>3. att' \in {<<>>, <<"subscribe">>, <<"write">>, <<"subscribe", "write">>}
    BY <1>5, <2>1, TailFacts DEF discover_ccc, SubscribeFailed, DrawAndWrite, Requests
  <2> QED BY <1>0, <2>2, <2>3, FobInvKept, QueuesDiffer DEF Reading, Requests
<1>6. CASE write_completed_func
  <2>1. (Linked' <=> Linked) /\ UNCHANGED <<conn, served, indicated, offset>>
    BY <1>6 DEF write_completed_func, Linked, baseVars, connVars, coinVars
  <2>2. Reading' => Reading
    BY <1>0, <1>6, TailFacts, QueuesDiffer
       DEF write_completed_func, ProtocolInv, Queues, Reading, Requests
  <2> QED BY <1>0, <2>1, <2>2, FobInvKept
<1> QED
  BY <1>1, <1>2, <1>3, <1>4, <1>5, <1>6 DEF Alone, Trouble

\* A connection begins and ends with a coin that has copied nothing.
LEMMA ConnectedFobInv ==
  ASSUME KInv, KConnected \/ KMissed, link' # "none"
  PROVE  FobInv'
<1>0. FobInv /\ ProtocolInv /\ ConnInv /\ FobAwake
  BY DEF KInv, IInv, KConnected, KMissed, missed_callback
<1>1. /\ ~Linked /\ conn \in Coins /\ Linked'
      /\ UNCHANGED <<conn, att, served, indicated>>
  <2>1. link = "creating" /\ link' \in {"up", "closing"}
    BY DEF KConnected, KMissed, connected_cb, missed_callback, AfterDisconnect
  <2>2. conn \in Coins
    BY <1>0, <2>1, CoinAssumption DEF ConnInv, OwnsConnection
  <2> QED
    BY <2>1, <2>2
       DEF KConnected, KMissed, connected_cb, missed_callback, Linked, connVars,
           talkVars, gattVars, coinVars
<1>2. served' = NoDigest /\ ~Reading'
  BY <1>0, <1>1, QueuesDiffer DEF ProtocolInv, Quiet, Reading
<1>3. fob_key' = CoinKey'[conn']
  <2>1. PICK record \in KeyRecords(CoinKey[conn]) : Fob!set(record.key, record.len)
    BY <1>0 DEF FobAwake
  <2>2. CASE CoinKey[conn] = NoKey
    BY <1>1, <2>1, <2>2
       DEF KeyRecords, Fob!set, Fob!MIN, Fob!BLAKE2S_KEYBYTES
  <2>3. CASE CoinKey[conn] # NoKey
    BY <1>1, <2>1, <2>3
       DEF KeyRecords, Fob!set, Fob!MIN, Fob!BLAKE2S_KEYBYTES
  <2> QED BY <2>2, <2>3
<1>4. FobTypeOK'
  BY <1>0, <1>1 DEF FobInv, FobTypeOK, FobAwake
<1>5. PiecesInv'
  BY <1>0, <1>1 DEF FobInv, PiecesInv, Arrived, FobAwake
<1>6. fob_ind' = 0
  BY <1>0, <1>1 DEF FobInv, FobAwake
<1> QED BY <1>1, <1>2, <1>3, <1>4, <1>5, <1>6 DEF FobInv, AnswersMatch

LEMMA AsleepFobInv ==
  ASSUME KInv, KDisconnected \/ KReset \/ (KMissed /\ link' = "none")
  PROVE  FobInv'
<1>1. /\ ~Linked' /\ served' = NoDigest /\ att' = <<>> /\ FobAsleep
  <2>1. CASE KDisconnected \/ KReset
    BY <2>1
       DEF KDisconnected, KReset, disconnected_cb, WatchdogReset, cmd_reboot,
           Boot, Linked
  <2>2. CASE KMissed /\ link' = "none"
    <3>1. att = <<>> /\ served = NoDigest
      BY <2>2
         DEF KMissed, missed_callback, KInv, IInv, WindowInv, ProtocolInv
    <3> QED
      BY <2>2, <3>1
         DEF KMissed, missed_callback, Linked, talkVars, gattVars, coinVars
  <2> QED BY <2>1, <2>2
<1>2. FobTypeOK' /\ PiecesInv'
  BY <1>1, MtuAssumption DEF FobAsleep, FobTypeOK, PiecesInv, Arrived, Age
<1> QED BY <1>1, <1>2, QueuesDiffer DEF FobInv, FobAsleep, AnswersMatch, Reading

LEMMA SubscribedFobInv ==
  ASSUME KInv, KSubscribed
  PROVE  FobInv'
<1>0. FobInv /\ ProtocolInv
  BY DEF KInv, IInv
<1>1. /\ (Linked' <=> Linked)
      /\ UNCHANGED <<conn, served, indicated, offset, linkVars>>
      /\ UNCHANGED <<fob_key, fob_challenge, fob_response, fob_ind>>
      /\ fob_ccc' \in {0, Fob!BT_GATT_CCC_INDICATE}
  BY DEF KSubscribed, write_completed_func, Fob!ccc_cfg_changed, Linked, baseVars, connVars,
         coinVars
<1>2. Reading' => Reading
  BY <1>0, TailFacts, QueuesDiffer
     DEF KSubscribed, write_completed_func, ProtocolInv, Queues, Reading, Requests
<1> QED
  BY <1>0, <1>1, <1>2
     DEF FobInv, FobTypeOK, PiecesInv, Arrived, AnswersMatch, linkVars

LEMMA IndicatedFobInv ==
  ASSUME KInv, KIndicate
  PROVE  FobInv'
<1>0. FobInv /\ ProtocolInv /\ fob_ind = Fob!MIN(mtu - 3, RespLen) /\ fob_ind' = 0
  BY MtuFacts DEF KInv, IInv, KIndicate, FobInv
<1>1. UNCHANGED <<fob_key, fob_challenge, fob_response, fob_ccc, linkVars>>
  BY DEF KIndicate
<1>2. (Linked' <=> Linked) /\ UNCHANGED <<conn, served>>
  BY DEF KIndicate, notify_func, check_response, AfterDisconnect, Linked, baseVars, connVars,
         vars, talkVars, coinVars
<1>3. fob_ind # RespLen => fob_ind < RespLen /\ fob_ind = mtu - 3
  BY <1>0, MtuFacts, LenAssumption DEF FobInv, Fob!MIN
<1>4. Reading' => offset' = mtu - 3 /\ offset' < RespLen
  <2>1. CASE sub # conn
    BY <1>0, <2>1 DEF KIndicate, FobInv, Reading, vars, talkVars, gattVars
  <2>2. CASE sub = conn
    <3>1. notify_func(fob_ind) /\ ~Reading
      BY <1>0, <2>2 DEF KIndicate, FobInv, ProtocolInv, Reading
    <3>2. CASE fob_ind = RespLen
      <4>1. att' \in {att, Append(att, "subscribe")}
        BY <3>1, <3>2, LenAssumption DEF notify_func, bt_gatt_unsubscribe
      <4>2. att \in {<<>>, <<"write">>}
        BY <1>0, DistinctQueues DEF KIndicate, FobInv, ProtocolInv, Queues, Requests
      <4>3. att' \in {<<>>, <<"write">>, <<"subscribe">>, <<"write", "subscribe">>}
        BY <4>1, <4>2, TailFacts DEF Requests
      <4> QED BY <4>3, QueuesDiffer DEF Reading, Requests
    <3>3. CASE fob_ind # RespLen
      <4>1. offset' = fob_ind
        BY <1>3, <3>1, <3>3, MtuFacts, <1>0, LenAssumption DEF notify_func, FobInv
      <4> QED BY <1>3, <3>3, <4>1
    <3> QED BY <3>2, <3>3
  <2> QED BY <2>1, <2>2
<1> QED
  BY <1>0, <1>1, <1>2, <1>4 DEF FobInv, FobTypeOK, PiecesInv, Arrived, AnswersMatch, linkVars,
                                KIndicate

LEMMA ReadFobInv ==
  ASSUME KInv, KRead
  PROVE  FobInv'
<1>0. FobInv /\ ProtocolInv /\ UNCHANGED <<fobVars, linkVars>>
  BY DEF KInv, IInv, KRead
<1>1. read_completed_func(Fob!read_response(mtu, offset))
  BY DEF KRead
<1>2. att = <<"read">> /\ Tail(att) = <<>>
  BY <1>0, <1>1, QueueFacts, TailFacts DEF read_completed_func, Pending, ProtocolInv, Requests
<1>3. offset + Fob!read_response(mtu, offset) = RespLen
  BY <1>0, <1>2, ReadFacts DEF FobInv, Reading, KInv, IInv, TypeOK
<1>4. ~Reading'
  BY <1>1, <1>2, <1>3, QueuesDiffer, LenAssumption DEF read_completed_func, Reading
<1>5. (Linked' <=> Linked) /\ UNCHANGED <<conn, served, indicated>>
  BY <1>1 DEF read_completed_func, check_response, Pending, AfterDisconnect, Linked, baseVars,
              connVars, coinVars
<1> QED BY <1>0, <1>4, <1>5, FobInvKept

-----------------------------------------------------------------------------
(* The pieces of a challenge.                                              *)

Piece == [offset : 0..BlockLen, len : 1..BlockLen, value : {"fresh"}]

\* What the station sends is the challenge it has just drawn.
LEMMA SendsFresh ==
  ASSUME KInv, Pending("write"), served = NoDigest
  PROVE  challenge = "fresh"
<1>1. att \in {<<"write">>, <<"write", "read">>, <<"write", "subscribe">>}
  BY QueueFacts DEF KInv, IInv, ProtocolInv, Pending
<1> QED BY <1>1 DEF KInv, IInv, ProtocolInv

LEMMA PreparedFobInv ==
  ASSUME KInv, KPrepare
  PROVE  FobInv'
<1> DEFINE p == [offset |-> sent, len |-> PieceLen, value |-> challenge]
<1>0. FobInv /\ FobTypeOK /\ PiecesInv
  BY DEF KInv, FobInv
<1>1. /\ prepared' = Append(prepared, p) /\ sent' = sent + PieceLen /\ sent < BlockLen
      /\ UNCHANGED <<vars, fobVars, mtu>>
  BY DEF KPrepare
<1>2. Linked /\ served = NoDigest /\ challenge = "fresh"
  BY <1>0, <1>1, SendsFresh, MtuAssumption DEF KPrepare, FobInv, Pending
<1>3. /\ PieceLen \in 1..BlockLen /\ sent' \in 0..BlockLen /\ sent \in 0..BlockLen
      /\ BlockLen <= mtu - 3 => sent' = BlockLen
  BY <1>0, <1>1, MtuFacts, MtuAssumption DEF FobTypeOK, PiecesInv, PieceLen, Fob!MIN
<1>4. p \in Piece /\ prepared \in Seq(Piece)
  BY <1>0, <1>2, <1>3 DEF FobTypeOK, Piece
<1>5. /\ prepared' \in Seq(Piece) /\ Len(prepared') = Len(prepared) + 1
      /\ \A i \in 1..Len(prepared) : prepared'[i] = prepared[i]
      /\ prepared'[Len(prepared) + 1] = p
      /\ Len(prepared) \in Nat /\ prepared' # <<>>
  BY <1>1, <1>4
<1>6. FobTypeOK'
  BY <1>0, <1>1, <1>3, <1>5 DEF FobTypeOK, Piece, fobVars
<1>7. Arrived' = Arrived
  <2>1. CASE prepared = <<>>
    BY <1>1, <1>4, <1>5, <2>1 DEF Arrived
  <2>2. CASE prepared # <<>>
    BY <1>1, <1>4, <1>5, <2>2 DEF Arrived
  <2> QED BY <2>1, <2>2
<1>8. PiecesInv'
  <2>1. ASSUME NEW i \in DOMAIN prepared'
        PROVE  prepared'[i].offset + prepared'[i].len =
                 IF i = Len(prepared') THEN sent' ELSE prepared'[i + 1].offset
    <3>1. CASE i = Len(prepared')
      BY <1>1, <1>5, <3>1
    <3>2. CASE i = Len(prepared) /\ i # Len(prepared')
      BY <1>0, <1>4, <1>5, <2>1, <3>2 DEF PiecesInv
    <3>3. CASE i # Len(prepared) /\ i # Len(prepared')
      <4>1. i \in 1..Len(prepared) /\ i + 1 \in 1..Len(prepared)
        BY <1>5, <2>1, <3>3
      <4> QED BY <1>0, <1>4, <1>5, <3>3, <4>1 DEF PiecesInv
    <3> QED BY <3>1, <3>2, <3>3
  <2>2. \A b \in 0..BlockLen - 1 : b < Arrived' => fob_challenge'[b] = "fresh"
    BY <1>0, <1>1, <1>7 DEF PiecesInv, fobVars
  <2> QED BY <1>1, <1>3, <2>1, <2>2 DEF PiecesInv
<1> QED
  BY <1>0, <1>1, <1>2, <1>6, <1>8
     DEF FobInv, AnswersMatch, Linked, Reading, vars, baseVars, connVars, talkVars, gattVars,
         coinVars, fobVars

\* The coin copies a piece to its place; the last one completes the challenge.
LEMMA ExecutedFobInv ==
  ASSUME KInv, KExecute
  PROVE  FobInv'
<1> DEFINE p == Head(prepared)
<1>0. /\ FobInv /\ FobTypeOK /\ PiecesInv /\ Linked /\ prepared # <<>>
      /\ sent = BlockLen /\ served = NoDigest
      /\ prepared' = Tail(prepared) /\ UNCHANGED <<sent, mtu>>
  BY DEF KInv, FobInv, KExecute, Pending
<1>1. prepared \in Seq(Piece)
  BY <1>0 DEF FobTypeOK, Piece
<1>2. /\ Len(prepared) \in Nat \ {0} /\ p \in Piece /\ p = prepared[1]
      /\ prepared' \in Seq(Piece) /\ Len(prepared') = Len(prepared) - 1
      /\ \A i \in 1..Len(prepared') : prepared'[i] = prepared[i + 1]
      /\ prepared' = <<>> <=> Len(prepared) = 1
  <2>1. /\ Len(prepared) \in Nat \ {0} /\ p \in Piece /\ p = prepared[1]
        /\ prepared' \in Seq(Piece) /\ Len(prepared') = Len(prepared) - 1
    BY <1>0, <1>1
  <2>2. \A i \in 1..Len(prepared') : prepared'[i] = prepared[i + 1]
    BY <1>0, <1>1, <2>1
  <2> QED BY <2>1, <2>2, EmptySeq
<1>3. Arrived' = p.offset + p.len
  <2>1. CASE Len(prepared) = 1
    BY <1>0, <1>2, <2>1 DEF PiecesInv, Arrived
  <2>2. CASE Len(prepared) # 1
    <3>1. prepared[1].offset + prepared[1].len = prepared[2].offset
      BY <1>0, <1>2, <2>2 DEF PiecesInv
    <3>2. Head(prepared') = prepared[2]
      BY <1>2, <2>2
    <3> QED BY <1>2, <2>2, <3>1, <3>2 DEF Arrived
  <2> QED BY <2>1, <2>2
<1>4. p.offset + p.len <= BlockLen /\ (p.offset + p.len = BlockLen <=> Len(prepared) = 1)
  <2>1. CASE Len(prepared) = 1
    BY <1>0, <1>2, <2>1, MtuAssumption DEF PiecesInv
  <2>2. CASE Len(prepared) # 1
    <3>1. /\ prepared[1].offset + prepared[1].len = prepared[2].offset
          /\ prepared[2] \in Piece
      BY <1>0, <1>1, <1>2, <2>2 DEF PiecesInv
    <3>2. prepared[2].offset + prepared[2].len <= BlockLen
      <4>1. CASE Len(prepared) = 2
        BY <1>0, <1>2, <4>1, MtuAssumption DEF PiecesInv
      <4>2. CASE Len(prepared) # 2
        <5>1. /\ prepared[2].offset + prepared[2].len = prepared[3].offset
              /\ prepared[3] \in Piece
          BY <1>0, <1>1, <1>2, <2>2, <4>2 DEF PiecesInv
        <5> QED BY <5>1 DEF Piece
      <4> QED BY <4>1, <4>2
    <3>3. prepared[2].offset \in Nat /\ prepared[2].len \in Nat \ {0}
      BY <3>1 DEF Piece
    <3> QED BY <1>2, <2>2, <3>1, <3>2, <3>3, MtuAssumption
  <2> QED BY <2>1, <2>2
<1>5. /\ fob_challenge' = Fob!Copied(fob_challenge, p) /\ UNCHANGED <<fob_key, fob_ccc>>
      /\ IF Len(prepared) = 1
         THEN /\ fob_response' = Fob!blake2s(fob_key, fob_challenge')
              /\ fob_ind' \in {fob_ind, Fob!IndicationLen(mtu)}
         ELSE UNCHANGED <<fob_response, fob_ind>>
  <2>1. PICK failed \in BOOLEAN : Fob!write_challenge(p, mtu, failed)
    BY DEF KExecute
  <2>2. ~(p.offset + p.len > BlockLen)
    BY <1>2, <1>4, MtuAssumption DEF Piece
  <2> QED BY <1>4, <2>1, <2>2 DEF Fob!write_challenge
<1>6. FobTypeOK'
  <2>1. fob_challenge' \in [0..BlockLen - 1 -> Age]
    BY <1>0, <1>2, <1>5 DEF FobTypeOK, Fob!Copied, Fob!Byte, Piece, Age
  <2>2. fob_ind' \in {0, Fob!MIN(mtu - 3, RespLen)}
    BY <1>0, <1>5 DEF FobTypeOK, Fob!IndicationLen, Fob!INDICATION_PROTOCOL_OVERHEAD
  <2> QED BY <1>0, <1>2, <1>5, <2>1, <2>2 DEF FobTypeOK, Piece
<1>7. \A b \in 0..BlockLen - 1 : b < Arrived' => fob_challenge'[b] = "fresh"
  <2>1. p.offset \in Nat /\ p.len \in Nat /\ p.value = "fresh"
    BY <1>2 DEF Piece
  <2>2. \A b \in 0..BlockLen - 1 : b < p.offset => fob_challenge[b] = "fresh"
    BY <1>0 DEF PiecesInv, Arrived
  <2> QED BY <1>3, <1>5, <2>1, <2>2 DEF Fob!Copied, Fob!Byte
<1>8. PiecesInv'
  <2>1. ASSUME NEW i \in DOMAIN prepared'
        PROVE  prepared'[i].offset + prepared'[i].len =
                 IF i = Len(prepared') THEN sent' ELSE prepared'[i + 1].offset
    <3>1. i \in 1..Len(prepared') /\ i + 1 \in DOMAIN prepared
      BY <1>2, <2>1
    <3> QED BY <1>0, <1>2, <3>1 DEF PiecesInv
  <2> QED BY <1>0, <1>7, <2>1 DEF PiecesInv
<1>9. CASE Len(prepared) = 1
  <2>1. /\ write_challenge /\ served' = <<CoinKey[conn], "fresh">> /\ served' # NoDigest
        /\ UNCHANGED <<link, conn, att, offset, indicated>> /\ ~indicated
    BY <1>0, <1>9, SendsFresh
       DEF KExecute, write_challenge, NoDigest, baseVars, connVars, gattVars,
           KInv, IInv, ProtocolInv
  <2>2. fob_response' = <<CoinKey[conn], [b \in 0..BlockLen - 1 |-> "fresh"]>>
    <3>1. fob_challenge' = [b \in 0..BlockLen - 1 |-> fob_challenge'[b]]
      BY <1>5 DEF Fob!Copied, Fob!Byte
    <3>2. \A b \in 0..BlockLen - 1 : fob_challenge'[b] = "fresh"
      BY <1>3, <1>4, <1>7, <1>9, MtuAssumption
    <3>3. fob_challenge' = [b \in 0..BlockLen - 1 |-> "fresh"]
      BY <3>1, <3>2
    <3> QED BY <1>0, <1>5, <1>9, <3>3 DEF FobInv, Fob!blake2s
  <2> QED
    BY <1>0, <1>2, <1>5, <1>6, <1>8, <1>9, <2>1, <2>2
       DEF FobInv, AnswersMatch, Linked, Reading
<1>10. CASE Len(prepared) # 1
  <2>1. UNCHANGED vars
    BY <1>10 DEF KExecute
  <2> QED
    BY <1>0, <1>5, <1>6, <1>8, <1>10, <2>1
       DEF FobInv, AnswersMatch, Linked, Reading, vars, baseVars, connVars, talkVars, gattVars,
           coinVars
<1> QED BY <1>9, <1>10

-----------------------------------------------------------------------------
(* The theorems.                                                           *)

LEMMA InitFobInv == KInit => FobInv
BY MtuAssumption, QueuesDiffer
   DEF KInit, Init, Fob!Zeroed, Fob!Byte, FobInv, FobTypeOK, PiecesInv, Arrived, AnswersMatch,
       Linked, Reading, Age

LEMMA NextFobInv ==
  ASSUME KInv, [KNext]_allVars
  PROVE  FobInv'
<1>1. CASE (Alone \/ Trouble) /\ UNCHANGED <<fobVars, linkVars>>
  BY <1>1, AloneFobInv
<1>2. CASE KWritten
  BY <1>2, AloneFobInv DEF KWritten
<1>3. CASE KConnected
  <2>1. link' # "none"
    BY <1>3 DEF KConnected, connected_cb, AfterDisconnect
  <2> QED BY <1>3, <2>1, ConnectedFobInv
<1>4. CASE KSubscribed
  BY <1>4, SubscribedFobInv
<1>5. CASE KPrepare
  BY <1>5, PreparedFobInv
<1>6. CASE KExecute
  BY <1>6, ExecutedFobInv
<1>7. CASE KIndicate
  BY <1>7, IndicatedFobInv
<1>8. CASE KRead
  BY <1>8, ReadFobInv
<1>9. CASE KDisconnected \/ KReset \/ (KMissed /\ link' = "none")
  BY <1>9, AsleepFobInv
<1>10. CASE UNCHANGED allVars
  <2>1. FobInv /\ UNCHANGED <<fobVars, linkVars, link, conn, served, indicated, att, offset>>
    BY <1>10 DEF allVars, KInv, vars, baseVars, connVars, talkVars, gattVars, coinVars
  <2> QED BY <2>1, FobInvKept DEF Linked, Reading
<1>11. CASE KMissed /\ link' # "none"
  BY <1>11, ConnectedFobInv
<1> QED
  BY <1>1, <1>2, <1>3, <1>4, <1>5, <1>6, <1>7, <1>8, <1>9, <1>10, <1>11
     DEF KNext, Exchange

\* Station and coin keep their invariant: the pieces of the challenge and the
\* parts of the response fit together in every state.
THEOREM KeyfobInvariance == KSpec => []KInv
<1>1. KInit => KInv
  BY InitTypeOK, InitConnInv, InitClockInv, InitProtocolInv, InitFobInv
     DEF KInit, KInv, IInv, WindowInv, Init
<1>2. KInv /\ [KNext]_allVars => KInv'
  BY KStepIsCentral, CentralStep, NextFobInv DEF KInv
<1> QED BY <1>1, <1>2, PTL DEF KSpec

\* Central's picture of a coin is what the coin's own code does, so that every
\* promise proved of Central holds with it.
THEOREM KeyfobIsCentral == KSpec => ImplementsCentral
<1>1. KInit => Init
  BY DEF KInit
<1>2. KInv /\ [KNext]_allVars => [Next]_vars
  BY KStepIsCentral
<1> QED BY <1>1, <1>2, KeyfobInvariance, PTL DEF KSpec, ImplementsCentral, Spec

\* The coin has digested one whole challenge of this connection, in whatever
\* pieces it came.
THEOREM AnswerIsWhole == KSpec => []AnswersMatch
<1>1. KInv => AnswersMatch
  BY DEF KInv, FobInv
<1> QED BY <1>1, KeyfobInvariance, PTL

\* Indication and read make up the response, for every MTU.
THEOREM ReadCompletes == KSpec => []RestFits
<1>1. KInv => RestFits
  <2> SUFFICES ASSUME KInv, Pending("read")
               PROVE  offset + Fob!read_response(mtu, offset) = RespLen
    BY DEF RestFits
  <2>1. att = <<"read">>
    BY QueueFacts DEF Pending, KInv, IInv, ProtocolInv
  <2> QED BY <2>1, ReadFacts DEF KInv, FobInv, Reading, IInv, TypeOK
<1> QED BY <1>1, KeyfobInvariance, PTL

\* The door opens only if the coin at the other end really holds the digest of
\* this connection's challenge, under the key the station has for it: Central's
\* theorem, with the coin's own memory in place of the assumed one.
THEOREM DoorNeedsFob ==
  KSpec => [](leds = "open" =>
               fob_response = <<SpaceKey[conn], [b \in 0..BlockLen - 1 |-> "fresh"]>>)
<1>1. KInv => (leds = "open" =>
                fob_response = <<SpaceKey[conn], [b \in 0..BlockLen - 1 |-> "fresh"]>>)
  BY LenAssumption DEF KInv, IInv, ProtocolInv, FobInv, AnswersMatch, NoDigest
<1> QED BY <1>1, KeyfobInvariance, PTL
=============================================================================
