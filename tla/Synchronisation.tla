--------------------------- MODULE Synchronisation ---------------------------
(***************************************************************************)
(* Why the script may believe in the end of its synchronisation: what is   *)
(* under way on the line, the two tables of bonds and what the script has  *)
(* seen of them, at every step of a session.  The invariants are those of  *)
(* SynchronisationProofs.                                                  *)
(***************************************************************************)
EXTENDS Provisioning

-----------------------------------------------------------------------------
(* The line.                                                               *)

Unfinished == Len(cmd) + IF job = Idle THEN 0 ELSE 1

\* The script sleeps a second before it opens the line again: it finds the
\* shell with one command to finish at most.
Opens       == pc = "open" /\ pc' # "open"
CaughtUp    == Unfinished <= 1
PatientNext == PNext /\ (Opens => CaughtUp)
PatientSpec == PInit /\ [][PatientNext]_allVars

\* Nothing but answers to "settings load" is left when one has come.
AfterLoad ==
  /\ job.op \in {"idle", "load"}
  /\ \A i \in DOMAIN cmd : cmd[i].op = "load"
  /\ \A i \in DOMAIN out : out[i].of = "load"

\* The last of what is under way is "settings load".
EndsInLoad ==
  /\ cmd # <<>> => cmd[Len(cmd)].op = "load"
  /\ cmd = <<>> /\ job # Idle => job.op = "load"
  /\ cmd = <<>> /\ job = Idle /\ out # <<>> => out[Len(out)].of = "load"

LoadLine ==
  /\ out # <<>> /\ out[1].of = "load" => AfterLoad
  /\ port = "open" => EndsInLoad

BondsLine ==
  /\ job.op \in {"idle", "load"}
  /\ \A i \in DOMAIN cmd : cmd[i].op \in {"load", "bonds"} /\ (cmd[i].op = "bonds" => i = Len(cmd))
  /\ \A i \in DOMAIN out :
       out[i].of \in {"load", "bonds"} /\ (out[i].of = "bonds" => i = Len(out) /\ Unfinished = 0)

KeysLine ==
  /\ Len(out) + Len(cmd) <= 1 /\ job = Idle
  /\ \A i \in DOMAIN cmd : cmd[i].op = "keys"
  /\ \A i \in DOMAIN out : out[i].of = "keys"

\* The command a state awaits the end of.
Awaited(c) ==
  \/ pc = "setup" /\ c.op = "setup" /\ c.id = db.id
  \/ pc = "del"   /\ c.op = "del" /\ c.addr = Bond
  \/ pc = "add"   /\ c.op = "add" /\ db.coins[c.addr] = c.key
  \/ pc = "end"   /\ c.op = "reboot"

\* One command at a time, after a clearing that nobody awaits perhaps.
Changing == {"setup", "zip", "del", "add", "clear", "zip_clear", "end"}

ChangeLine ==
  /\ Len(out) + (IF job = Idle THEN 0 ELSE 1) <= 1
  /\ cmd # <<>> => job = Idle /\ out = <<>>
  /\ \A i \in DOMAIN cmd : cmd[i].op = "clear" \/ (i = Len(cmd) /\ Awaited(cmd[i]))
  /\ job # Idle => job.op = pc
  /\ pc \in {"zip", "clear", "zip_clear", "end"} => out = <<>>

\* A session has to do with its own answers, and with the end of one command
\* of another.
LineInv ==
  /\ pc \in {"reboot", "load", "bonds"} => Len(out) + Unfinished <= 2
  /\ pc = "load"  => LoadLine
  /\ pc = "bonds" => BondsLine
  /\ pc = "keys"  => KeysLine
  /\ pc \in Changing => ChangeLine

-----------------------------------------------------------------------------
(* The bonds.                                                              *)

HasKey == {a \in Addrs : store[a] \in Keys}
Used   == {i \in Slot : bonds[i] # NoAddr}

\* Every bond, in flash or in RAM, is that of a coin with a stored key, and has
\* a slot of its own, whatever was cut off: cmd_coin_add stores the key before
\* the bond, cmd_coin_del takes the bond before the key.
BondsKeyed ==
  /\ bondstore \subseteq HasKey
  /\ \A i \in Used : bonds[i] \in bondstore /\ \A j \in Used : bonds[i] = bonds[j] => i = j

\* Once loaded, every stored bond is in RAM: a deletion finds it there.
BondInv ==
  /\ BondsKeyed
  /\ todo # {} => job.op \in {"load", "ble"}
  /\ job.op = "add" => job.addr \in HasKey
  /\ job.op = "del" => job.addr \notin bondstore
  /\ loaded \/ job.op \in {"load", "ble"} =>
       \A a \in bondstore \ bondtodo : \E i \in Slot : bonds[i] = a

-----------------------------------------------------------------------------
(* The lists.                                                              *)

\* s names every address of S once.
Enumerates(s, S) ==
  /\ Len(s) = Cardinality(S)
  /\ \A i \in DOMAIN s : s[i] \in S /\ \A j \in DOMAIN s : s[i] = s[j] => i = j
  /\ \A a \in S : \E i \in DOMAIN s : s[i] = a

KeysListed(s) ==
  \A i \in DOMAIN s : store[s[i][1]] \in Keys => FirstByte[store[s[i][1]]] = s[i][2]

\* The bond of a is one the data base wants.
Wanted(a) == db.coins[a] # NoKey /\ FirstByte[db.coins[a]] = FirstByte[store[a]]

\* Both lists are in, and every bond is wanted or in the rest of them.
Compared ==
  /\ Len(seen.bonds) <= Len(seen.keys) /\ KeysListed(seen.keys)
  /\ \A i, j \in DOMAIN seen.bonds : seen.bonds[i] = seen.bonds[j] => i = j
  /\ \A a \in bondstore : Wanted(a) \/ \E i \in DOMAIN seen.bonds : i >= at /\ seen.bonds[i] = a

\* The script has done its part.
Over ==
  /\ pc \in {"end", "open", "run"} /\ ~first_start /\ job.op \in {"idle", "ble"}
  /\ \A i \in DOMAIN cmd : cmd[i].op \in {"reboot", "clear", "ble"}

\* What the script has seen is what the station has, and what is left of it is
\* wanted.
ListInv ==
  /\ pc \in {"load", "bonds", "keys", "setup"} => at = 1 /\ present = {}
  /\ pc = "bonds" =>
       \A i \in DOMAIN out : out[i].of = "bonds" => Enumerates(out[i].list, bondstore)
  /\ pc = "keys" =>
       /\ Enumerates(seen.bonds, bondstore)
       /\ \A i \in DOMAIN out :
            KeysListed(out[i].list) /\ Len(out[i].list) = Cardinality(HasKey)
  /\ pc \in {"setup", "zip", "del"} => Compared
  /\ pc = "del" =>
       /\ at \in DOMAIN seen.bonds
       /\ job.op = "del" => job.addr = Bond
       /\ out # <<>> => Bond \notin bondstore
  /\ pc = "add" /\ job.op = "add" => store[job.addr] = db.coins[job.addr]
  /\ pc = "add" \/ ~config_mode => \A a \in bondstore : Wanted(a)
  /\ pc = "run" => ~config_mode
  /\ ~config_mode => Over

-----------------------------------------------------------------------------
(* Everything is there.                                                    *)

Adding   == IF job.op = "add" THEN {job.addr} ELSE {}
Deleting == IF job.op = "del" THEN {job.addr} ELSE {}

\* Bonds and keys are the same but for what the shell is at, and so are the
\* two records of the identity.
StoreWhole ==
  /\ bondstore \cup Adding = HasKey \ Deleting
  /\ irk = id \/ job.op = "setup"
  /\ job.op = "setup" => id = job.id
  /\ (\E i \in DOMAIN cmd : cmd[i].op = "ble") => id # NoId

IdIsDb == id = db.id /\ irk = db.id

NoClear == \A i \in DOMAIN cmd : cmd[i].op # "clear"

\* Without power cuts, what the script has not seen is what it has added.
WholeInv ==
  /\ StoreWhole
  /\ pc = "load" => \A i \in DOMAIN out : out[i].of = "load" => out[i].id = id
  /\ pc \in {"bonds", "keys"} => seen.id = id
  /\ pc = "setup" => (out # <<>> => IdIsDb) /\ (job.op = "setup" => job.id = db.id)
  /\ pc \in {"zip", "del", "add"} \/ ~config_mode => IdIsDb
  /\ pc \in {"setup", "zip", "del", "add"} \/ ~config_mode => NoClear
  /\ pc \in {"setup", "zip", "del"} =>
       /\ Len(seen.bonds) = Len(seen.keys)
       /\ \A i \in DOMAIN seen.bonds : i > at \/ (i = at /\ pc # "del") => seen.bonds[i] \in bondstore
  /\ pc \in {"zip", "del"} =>
       /\ present \subseteq bondstore
       /\ \A a \in present : \E i \in DOMAIN seen.bonds : i < at /\ seen.bonds[i] = a
  /\ pc = "add" =>
       /\ out # <<>> => present \subseteq bondstore
       /\ cmd # <<>> => present \subseteq bondstore \cup {cmd[Len(cmd)].addr}
       /\ job.op = "add" => present \subseteq bondstore \cup {job.addr}
  /\ ~config_mode => Agrees

WholeIfNoCut == cuts = 0 => WholeInv

-----------------------------------------------------------------------------
\* The tables in RAM, which the station asks when a coin connects, hold no bond
\* but those the data base wants, each beside a key the script cannot tell from
\* that of the data base.
OnlyKnownEnter ==
  Synced /\ loaded => \A i \in Used :
    /\ db.coins[bonds[i]] # NoKey
    /\ FirstByte[db.coins[bonds[i]]] = FirstByte[KeyOf(bonds[i])]

=============================================================================
