------------------------------ MODULE CoinAuth ------------------------------
(***************************************************************************)
(* The coin's half of the authentication, src/coin/src/spaceauth.c: the    *)
(* key it was flashed with, and the challenge and response characteristics *)
(* of its GATT service.                                                    *)
(*                                                                         *)
(* The operations are what the coin's Bluetooth stack calls.  Who calls    *)
(* them, and when, is up to the module that instantiates this one.         *)
(***************************************************************************)
EXTENDS Integers

CONSTANTS
  Keys, NoKey,        \* space keys; NoKey: the zeroed auth_key
  Values, Zero,       \* what a byte of a challenge can hold; Zero: 0
  BlockLen,           \* BLAKE2S_BLOCKBYTES
  OutLen              \* BLAKE2S_OUTBYTES

VARIABLES
  auth_key,
  challenge,          \* the bytes of the buffer
  response,           \* what was digested last, see blake2s
  ccc_value,
  ind                 \* ind_params.len of the indication under way, or 0

Byte == 0..BlockLen - 1

BT_GATT_CCC_INDICATE == 2
INDICATION_PROTOCOL_OVERHEAD == 3

MIN(a, b) == IF a < b THEN a ELSE b

\* The digest is the pair of what it is the digest of.
blake2s(key, block) == <<key, block>>
NoResponse == <<>>

\* The RAM after a reset.
Zeroed ==
  /\ auth_key = NoKey
  /\ challenge = [b \in Byte |-> Zero] /\ response = NoResponse
  /\ ccc_value = 0 /\ ind = 0

BLAKE2S_KEYBYTES == 32

\* Mutant of set: only an error of the read clears the key, not a short record.
SetAnyLength(key, len) == auth_key' = IF len > 0 THEN key ELSE NoKey

\* settings_load delivers a record of len bytes that starts with key, or with
\* a part of it; 0 stands for a record that cannot be read.  What is beyond the
\* buffer of a longer record is not read; a shorter one leaves the key zeroed.
set(key, len) ==
  auth_key' = IF MIN(len, BLAKE2S_KEYBYTES) = BLAKE2S_KEYBYTES THEN key ELSE NoKey

ccc_cfg_changed(value) ==
  /\ ccc_value' = value
  /\ UNCHANGED <<auth_key, challenge, response, ind>>

\* Mutant of Copied: the offset is ignored.
CopiedToStart(block, p) ==
  [b \in Byte |-> IF b < p.len THEN p.value ELSE block[b]]

Copied(block, p) ==
  [b \in Byte |-> IF p.offset <= b /\ b < p.offset + p.len THEN p.value ELSE block[b]]

\* Mutant of IndicationLen: the client's subscription is looked up as if it
\* were one to notifications.
IndicationIfNotify(mtu) ==
  IF ccc_value = 1 THEN MIN(mtu - INDICATION_PROTOCOL_OVERHEAD, OutLen) ELSE 0

\* How much of the response is indicated to the client, who has subscribed or not.
IndicationLen(mtu) ==
  IF ccc_value = BT_GATT_CCC_INDICATE
  THEN MIN(mtu - INDICATION_PROTOCOL_OVERHEAD, OutLen) ELSE 0

\* Mutant of write_challenge: every piece is taken for the last one.
AnswerEveryPiece(p, mtu, failed) ==
  /\ challenge' = Copied(challenge, p)
  /\ response' = blake2s(auth_key, challenge')
  /\ ind' = IndicationLen(mtu)
  /\ UNCHANGED <<auth_key, ccc_value>>

\* p is a piece of a challenge: p.len bytes of p.value for p.offset.  A piece
\* beyond the buffer is refused: its sender gets an error for it, whatever the
\* code of that error.  The piece that ends at the end of the buffer is taken
\* for the last one.  failed: bt_gatt_indicate, whose result is ignored, sends
\* nothing.
write_challenge(p, mtu, failed) ==
  /\ IF p.offset + p.len > BlockLen
     THEN UNCHANGED <<challenge, response, ind>>
     ELSE /\ challenge' = Copied(challenge, p)
          /\ IF p.offset + p.len = BlockLen
             THEN /\ response' = blake2s(auth_key, challenge')
                  /\ ind' = IF failed THEN ind ELSE IndicationLen(mtu)
             ELSE UNCHANGED <<response, ind>>
  /\ UNCHANGED <<auth_key, ccc_value>>

\* Mutant of read_response: the offset is ignored.
ReadFromStart(mtu, offset) == MIN(mtu - 1, OutLen)

\* The number of bytes a read of the response returns (bt_gatt_attr_read).
read_response(mtu, offset) == MIN(mtu - 1, OutLen - offset)

=============================================================================
