------------------------ MODULE SynchronisationProofs ------------------------
(***************************************************************************)
(* Theorems about what the script may believe when it has synchronised a   *)
(* station, for every table size, every data base and any number of        *)
(* restarts, power cuts and line failures.                                 *)
(***************************************************************************)
EXTENDS Synchronisation, ProvisioningProofs

-----------------------------------------------------------------------------
(* What a step does to the line.                                           *)

\* The kinds of steps the shell takes.
Silent  == UNCHANGED <<job, lineVars>>
Begins  == /\ job = Idle /\ cmd # <<>> /\ NextCmd /\ UNCHANGED <<out, port>>
           /\ job'.op = cmd[1].op \/ (job' = Idle /\ cmd[1].op \in {"add", "ble"})
           /\ cmd[1].op \in {"load", "add", "del", "setup", "ble"}
Prints  == /\ job = Idle /\ cmd # <<>> /\ NextCmd /\ UNCHANGED <<job, port>>
           /\ cmd[1].op \in {"bonds", "keys"}
           /\ \E a \in Answers : a.of = cmd[1].op /\ Answer(a)
Finishes ==
  /\ job # Idle /\ job' = Idle /\ UNCHANGED <<cmd, port>>
  /\ \/ job.op = "load" /\ Answer([of |-> "load", id |-> id])
     \/ job.op = "ble" /\ UNCHANGED out
     \/ job.op \in {"add", "del", "setup"} /\ Done

LineStep == Silent \/ Begins \/ Prints \/ Finishes \/ Restarted

LEMMA JobFact ==
  ASSUME NEW j \in Job
  PROVE  /\ j = Idle <=> j.op = "idle"
         /\ j.op \in {"idle", "load", "ble", "setup", "add", "del"}
BY DEF Job, Idle

\* With Bluetooth on the shell is never asked what it would refuse.
LEMMA NotRefused ==
  ASSUME ProvInv, NEW op, Reads(op), op \notin {"reboot", "ble"}
  PROVE  ~ble_stack_running
<1>1. 1 \in DOMAIN cmd /\ Head(cmd) = cmd[1] /\ cmd[1].op = op
  BY HeadFact DEF Reads
<1>2. OffAt(1)
  BY <1>1 DEF ProvInv, RefusedInv
<1> QED BY <1>2 DEF OffAt

LEMMA ShellKinds ==
  ASSUME ProvInv, Shell
  PROVE  Silent \/ Begins \/ (Prints /\ cmd_print) \/ Finishes \/ Restarted
<1>0. cmd # <<>> => Head(cmd) = cmd[1]
  BY HeadFact
<1>1. CASE cmd_settings_load
  BY <1>0, <1>1, NotRefused DEF cmd_settings_load, Configures, LoadAll, Begins, Reads
<1>2. CASE deliver_key \/ deliver_bond
  BY <1>2 DEF deliver_key, deliver_bond, Silent
<1>3. CASE settings_loaded
  BY <1>3, JobFact DEF settings_loaded, Finishes, ProvInv, PTypeOK, StationTypeOK
<1>4. CASE cmd_print
  <2>1. CASE Reads("bonds") /\ print_bonds
    <3>1. PICK l \in Seq(Addrs) : Answer([of |-> "bonds", list |-> l])
      BY <2>1, BondsAnswer
    <3>2. [of |-> "bonds", list |-> l] \in Answers
      BY DEF Answers
    <3> QED BY <1>0, <1>4, <2>1, <3>1, <3>2 DEF cmd_print, Prints, Reads, stationVars
  <2>2. CASE Reads("keys") /\ spacekeys_print
    <3>1. PICK l \in Lines : Answer([of |-> "keys", list |-> l])
      BY <2>2, KeysAnswer
    <3>2. [of |-> "keys", list |-> l] \in Answers
      BY DEF Answers
    <3> QED BY <1>0, <1>4, <2>2, <3>1, <3>2 DEF cmd_print, Prints, Reads, stationVars
  <2> QED BY <1>4, <2>1, <2>2 DEF cmd_print
<1>5. CASE cmd_coin_add
  BY <1>0, <1>5, NotRefused DEF cmd_coin_add, Configures, Begins, Reads
<1>6. CASE cmd_coin_del
  BY <1>0, <1>6, NotRefused DEF cmd_coin_del, Configures, Begins, Reads
<1>7. CASE cmd_central_setup
  BY <1>0, <1>7, NotRefused DEF cmd_central_setup, Configures, Begins, Reads
<1>8. CASE bt_keys_store \/ del_spacekey \/ save_irk
  BY <1>8, JobFact DEF bt_keys_store, del_spacekey, save_irk, Finishes, ProvInv, PTypeOK, StationTypeOK
<1>9. CASE cmd_ble_start
  BY <1>0, <1>9 DEF cmd_ble_start, LoadAll, Begins, Reads
<1>10. CASE clear_storage
  BY <1>10, NotRefused DEF clear_storage, Configures
<1>11. CASE cmd_reboot
  BY <1>11 DEF cmd_reboot
<1> QED BY <1>1, <1>2, <1>3, <1>4, <1>5, <1>6, <1>7, <1>8, <1>9, <1>10, <1>11 DEF Shell

-----------------------------------------------------------------------------
(* A session is in step with the shell.                                    *)

\* What is under way, in both states.
LEMMA LenFact ==
  ASSUME ProvInv, LineTypeOK'
  PROVE  /\ Len(cmd) \in Nat /\ Len(out) \in Nat /\ Len(cmd') \in Nat /\ Len(out') \in Nat
         /\ cmd = <<>> <=> Len(cmd) = 0
         /\ out = <<>> <=> Len(out) = 0
         /\ cmd' = <<>> <=> Len(cmd') = 0
         /\ out' = <<>> <=> Len(out') = 0
BY DEF ProvInv, PTypeOK, LineTypeOK

LEMMA DomFact ==
  ASSUME ProvInv, LineTypeOK'
  PROVE  /\ DOMAIN cmd = 1..Len(cmd) /\ DOMAIN out = 1..Len(out)
         /\ DOMAIN cmd' = 1..Len(cmd') /\ DOMAIN out' = 1..Len(out')
BY DEF ProvInv, PTypeOK, LineTypeOK

LEMMA IdleFact ==
  ASSUME ProvInv, StationTypeOK'
  PROVE  /\ job = Idle <=> job.op = "idle"
         /\ job' = Idle <=> job'.op = "idle"
BY JobFact DEF ProvInv, PTypeOK, StationTypeOK

\* What an answer adds to the line, and a command.
LEMMA AppendFact ==
  ASSUME NEW S, NEW s \in Seq(S), NEW e \in S
  PROVE  /\ Len(Append(s, e)) = Len(s) + 1
         /\ \A i \in DOMAIN s : Append(s, e)[i] = s[i]
         /\ Append(s, e)[Len(s) + 1] = e
OBVIOUS

LEMMA LineBegins ==
  ASSUME ProvInv, LineInv, Begins, UNCHANGED hostVars, StationTypeOK', LineTypeOK'
  PROVE  LineInv'
<1>0. UNCHANGED <<pc, db, seen, at, out, port>>
  BY DEF hostVars, Begins
<1>1. /\ Len(cmd') = Len(cmd) - 1 /\ Len(cmd) > 0 /\ 1 \in DOMAIN cmd
      /\ \A i \in DOMAIN cmd' : i + 1 \in DOMAIN cmd /\ cmd'[i] = cmd[i + 1]
  BY HeadFact DEF Begins, NextCmd
<1>2. /\ job = Idle /\ job'.op \in {"idle", cmd[1].op}
      /\ cmd[1].op = "load" => job'.op = "load"
      /\ cmd[1].op \notin {"idle", "clear", "bonds", "keys", "reboot"}
  BY LenFact, DomFact, IdleFact DEF Begins
<1>3. Unfinished' <= Unfinished /\ Unfinished' \in Nat /\ Unfinished \in Nat
  BY <1>0, <1>1, <1>2, LenFact, DomFact, IdleFact DEF Unfinished
<1>5. (pc \in {"reboot", "load", "bonds"} => Len(out) + Unfinished <= 2)'
  BY <1>0, <1>3, LenFact DEF LineInv
<1>6. ASSUME pc = "load" PROVE LoadLine'
  <2>0. LoadLine
    BY <1>6 DEF LineInv
  <2>1. (out # <<>> /\ out[1].of = "load" => AfterLoad)'
    BY <1>0, <1>1, <1>2, <2>0, LenFact, DomFact, IdleFact DEF LoadLine, AfterLoad
  <2>2. port = "open" => cmd[Len(cmd)].op = "load"
    BY <1>1, <2>0 DEF LoadLine, EndsInLoad
  <2>3. cmd' # <<>> => cmd'[Len(cmd')] = cmd[Len(cmd)]
    BY <1>1, LenFact, DomFact, IdleFact
  <2>4. cmd' = <<>> => cmd[1] = cmd[Len(cmd)]
    BY <1>1, LenFact, DomFact, IdleFact
  <2>5. (port = "open" => EndsInLoad)'
    BY <1>0, <1>1, <1>2, <2>2, <2>3, <2>4, LenFact, DomFact, IdleFact DEF EndsInLoad
  <2> QED BY <2>1, <2>5 DEF LoadLine
<1>7. (pc = "bonds" => BondsLine)'
  BY <1>0, <1>1, <1>2, <1>3, LenFact, DomFact, IdleFact DEF LineInv, BondsLine
<1>8. (pc = "keys" => KeysLine)'
  BY <1>0, <1>1, <1>2, LenFact, DomFact, IdleFact DEF LineInv, KeysLine
<1>9. (pc \in Changing => ChangeLine)'
  BY <1>0, <1>1, <1>2, LenFact, DomFact, IdleFact DEF LineInv, Changing, ChangeLine, Awaited, Bond
<1> QED BY <1>0, <1>5, <1>6, <1>7, <1>8, <1>9 DEF LineInv

LEMMA LinePrints ==
  ASSUME ProvInv, LineInv, Prints, UNCHANGED hostVars, StationTypeOK', LineTypeOK'
  PROVE  LineInv'
<1>0. UNCHANGED <<pc, db, seen, at, job, port>>
  BY DEF hostVars, Prints
<1>1. /\ Len(cmd') = Len(cmd) - 1 /\ Len(cmd) > 0 /\ 1 \in DOMAIN cmd
      /\ \A i \in DOMAIN cmd' : i + 1 \in DOMAIN cmd /\ cmd'[i] = cmd[i + 1]
  BY HeadFact DEF Prints, NextCmd
<1>2. /\ job = Idle /\ cmd[1].op \in {"bonds", "keys"}
  BY DEF Prints
<1>3. PICK a \in Answers : a.of = cmd[1].op /\ Answer(a)
  BY DEF Prints
<1>4. \/ out' = out
      \/ /\ port = "open" /\ Len(out') = Len(out) + 1
         /\ \A i \in DOMAIN out' : IF i = Len(out') THEN out'[i] = a ELSE i \in DOMAIN out /\ out'[i] = out[i]
  BY <1>3, AppendFact, DomFact, LenFact DEF Answer, ProvInv, PTypeOK, LineTypeOK
<1>5. Unfinished' = Unfinished - 1 /\ Unfinished' \in Nat /\ Unfinished \in Nat
  BY <1>0, <1>1, <1>2, LenFact, DomFact, IdleFact DEF Unfinished
<1>7. (pc \in {"reboot", "load", "bonds"} => Len(out) + Unfinished <= 2)'
  BY <1>0, <1>4, <1>5, LenFact DEF LineInv
<1>8. ASSUME pc = "load" PROVE LoadLine'
  <2>0. LoadLine
    BY <1>8 DEF LineInv
  <2>1. ~(out # <<>> /\ out[1].of = "load")
    BY <1>2, <1>1, <2>0 DEF LoadLine, AfterLoad
  <2>2. out' # <<>> => out'[1].of # "load"
    <3>1. CASE out' = out
      BY <2>1, <3>1
    <3>2. CASE out' # out /\ out' # <<>>
      <4>1. 1 \in DOMAIN out' /\ (1 \in DOMAIN out => out # <<>>)
        BY <3>2, LenFact, DomFact
      <4>2. out'[1] = a \/ (out # <<>> /\ out'[1] = out[1])
        BY <1>4, <3>2, <4>1
      <4> QED BY <1>2, <1>3, <2>1, <4>2
    <3> QED BY <3>1, <3>2
  <2>3. port = "open" => cmd[Len(cmd)].op = "load" /\ Len(cmd) # 1
    BY <1>1, <1>2, <2>0, LenFact, DomFact, IdleFact DEF LoadLine, EndsInLoad
  <2>4. port = "open" => cmd' # <<>> /\ cmd'[Len(cmd')].op = "load"
    BY <1>0, <1>1, <2>3, LenFact, DomFact
  <2> QED BY <1>0, <2>2, <2>4 DEF LoadLine, EndsInLoad
<1>9. ASSUME pc = "bonds" PROVE BondsLine'
  <2>0. BondsLine /\ Len(out) + Unfinished <= 2
    BY <1>9 DEF LineInv
  <2>1. cmd[1].op = "bonds" /\ Len(cmd) = 1 /\ Unfinished = 1
    BY <1>1, <1>2, <2>0, LenFact, DomFact DEF BondsLine, Unfinished
  <2>2. \A i \in DOMAIN out : out[i].of = "load"
    BY <2>0, <2>1 DEF BondsLine
  <2>3. \A i \in DOMAIN out' :
           out'[i].of \in {"load", "bonds"} /\ (out'[i].of = "bonds" => i = Len(out'))
    BY <1>3, <1>4, <2>1, <2>2
  <2>4. cmd' = <<>> /\ Unfinished' = 0
    BY <1>1, <1>5, <2>1, LenFact
  <2> QED BY <1>0, <2>0, <2>3, <2>4 DEF BondsLine
<1>10. ASSUME pc = "keys" PROVE KeysLine'
  <2>0. KeysLine
    BY <1>10 DEF LineInv
  <2>1. cmd[1].op = "keys" /\ Len(cmd) = 1 /\ Len(out) = 0
    BY <1>1, <2>0, LenFact DEF KeysLine
  <2>2. Len(cmd') = 0 /\ Len(out') <= 1 /\ \A i \in DOMAIN out' : out'[i].of = "keys"
    BY <1>1, <1>3, <1>4, <2>1, LenFact, DomFact
  <2> QED BY <1>0, <1>2, <2>2, LenFact, DomFact DEF KeysLine
<1>11. (pc \in Changing => ChangeLine)'
  BY <1>0, <1>1, <1>2, LenFact, DomFact, IdleFact DEF LineInv, Changing, ChangeLine, Awaited
<1> QED BY <1>0, <1>7, <1>8, <1>9, <1>10, <1>11 DEF LineInv

LEMMA LineFinishes ==
  ASSUME ProvInv, LineInv, Finishes, UNCHANGED hostVars, StationTypeOK', LineTypeOK'
  PROVE  LineInv'
<1>0. UNCHANGED <<pc, db, seen, at, cmd, port>>
  BY DEF hostVars, Finishes
<1>1. job # Idle /\ job' = Idle /\ job.op # "idle" /\ job'.op = "idle"
  BY LenFact, DomFact, IdleFact DEF Finishes
<1>2. PICK a \in Answers :
        \/ out' = out
        \/ /\ \/ a.of = "load" /\ job.op = "load"
              \/ a.of = "done" /\ job.op \in {"add", "del", "setup"}
           /\ Answer(a)
  <2>1. [of |-> "load", id |-> id] \in Answers /\ [of |-> "done"] \in Answers
    BY DEF Answers, ProvInv, PTypeOK, StationTypeOK
  <2> QED BY <2>1 DEF Finishes, Done
<1>3. \/ out' = out
      \/ /\ port = "open" /\ Len(out') = Len(out) + 1
         /\ \A i \in DOMAIN out' : IF i = Len(out') THEN out'[i] = a ELSE i \in DOMAIN out /\ out'[i] = out[i]
         /\ \/ a.of = "load" /\ job.op = "load"
            \/ a.of = "done" /\ job.op \in {"add", "del", "setup"}
  BY <1>2, AppendFact, DomFact, LenFact DEF Answer, ProvInv, PTypeOK, LineTypeOK
<1>4. Unfinished' = Unfinished - 1 /\ Unfinished' \in Nat /\ Unfinished \in Nat
  BY <1>0, <1>1, LenFact, DomFact, IdleFact DEF Unfinished
<1>6. (pc \in {"reboot", "load", "bonds"} => Len(out) + Unfinished <= 2)'
  BY <1>0, <1>3, <1>4, LenFact DEF LineInv
<1>7. ASSUME pc = "load" PROVE LoadLine'
  <2>0. LoadLine /\ Len(out) + Unfinished <= 2
    BY <1>7 DEF LineInv
  <2>1. ASSUME out' # <<>>, out'[1].of = "load"
        PROVE  AfterLoad'
    <3>1. CASE out = <<>>
      <4>1. port = "open" /\ Len(out') = 1 /\ out'[1] = a /\ a.of = "load" /\ job.op = "load"
        BY <1>3, <2>1, <3>1, LenFact, DomFact
      <4>2. Len(cmd) <= 1
        BY <1>1, <2>0, LenFact DEF Unfinished
      <4>3. \A i \in DOMAIN cmd : cmd[i].op = "load"
        BY <2>0, <4>1, <4>2, LenFact, DomFact DEF LoadLine, EndsInLoad
      <4> QED BY <1>0, <1>1, <4>1, <4>3, DomFact DEF AfterLoad
    <3>2. CASE out # <<>>
      <4>1. out[1].of = "load"
        <5>1. 1 \in DOMAIN out'
          BY <2>1, LenFact, DomFact
        <5>2. Len(out') = Len(out) + 1 => 1 # Len(out')
          BY <3>2, LenFact
        <5> QED BY <1>3, <2>1, <5>1, <5>2
      <4>2. AfterLoad
        BY <2>0, <3>2, <4>1 DEF LoadLine
      <4>3. \A i \in DOMAIN out' : out'[i].of = "load"
        BY <1>3, <4>2 DEF AfterLoad
      <4> QED BY <1>0, <1>1, <4>2, <4>3 DEF AfterLoad
    <3> QED BY <3>1, <3>2
  <2>2. ASSUME port' = "open" PROVE EndsInLoad'
    <3>1. EndsInLoad
      BY <1>0, <2>0, <2>2 DEF LoadLine
    <3>2. ASSUME cmd = <<>>, out' # <<>> PROVE out'[Len(out')].of = "load"
      <4>1. job.op = "load"
        BY <1>1, <3>1, <3>2 DEF EndsInLoad
      <4>2. Answer([of |-> "load", id |-> id])
        BY <4>1 DEF Finishes
      <4>3. out' = Append(out, [of |-> "load", id |-> id])
        BY <1>0, <2>2, <4>2 DEF Answer
      <4> QED BY <4>3, LenFact, DomFact DEF ProvInv, PTypeOK, LineTypeOK
    <3> QED BY <1>0, <1>1, <3>1, <3>2 DEF EndsInLoad
  <2> QED BY <2>1, <2>2 DEF LoadLine
<1>8. ASSUME pc = "bonds" PROVE BondsLine'
  <2>0. BondsLine /\ Unfinished # 0
    BY <1>0, <1>8, <1>4 DEF LineInv
  <2>1. \A i \in DOMAIN out : out[i].of = "load"
    BY <2>0 DEF BondsLine
  <2>2. \A i \in DOMAIN out' : out'[i].of = "load"
    BY <1>1, <1>3, <2>0, <2>1 DEF BondsLine
  <2> QED BY <1>0, <1>1, <2>0, <2>2 DEF BondsLine
<1>9. (pc = "keys" => KeysLine)'
  BY <1>0, <1>1 DEF LineInv, KeysLine
<1>10. ASSUME pc \in Changing PROVE ChangeLine'
  <2>0. ChangeLine
    BY <1>10 DEF LineInv
  <2>1. Len(out) = 0 /\ Len(cmd) = 0 /\ Len(out') <= 1 /\ pc \notin {"zip", "clear", "zip_clear", "end"}
    BY <1>0, <1>1, <1>3, <2>0, LenFact, IdleFact DEF ChangeLine, ProvInv, PTypeOK, StationTypeOK, Job
  <2> QED BY <1>0, <1>1, <2>0, <2>1, LenFact, DomFact DEF ChangeLine
<1> QED BY <1>0, <1>6, <1>7, <1>8, <1>9, <1>10 DEF LineInv

\* A station that starts again has nothing to do.
LEMMA LineRestarted ==
  ASSUME ProvInv, LineInv, Restarted, UNCHANGED hostVars, StationTypeOK', LineTypeOK'
  PROVE  LineInv'
<1>1. /\ UNCHANGED <<pc, out>> /\ cmd' = <<>> /\ job' = Idle /\ job'.op = "idle"
      /\ port' # "open" /\ Unfinished' = 0
  BY DEF hostVars, Restarted, Unfinished, Idle
<1>2. (pc \in {"reboot", "load", "bonds"} => Len(out) + Unfinished <= 2)'
  <2>1. Unfinished \in Nat
    BY LenFact, DomFact, IdleFact DEF Unfinished
  <2> QED BY <1>1, <2>1, LenFact DEF LineInv
<1>3. (pc = "load" => LoadLine)'
  BY <1>1 DEF LineInv, LoadLine, AfterLoad
<1>4. (pc = "bonds" => BondsLine)'
  BY <1>1 DEF LineInv, BondsLine
<1>5. (pc = "keys" => KeysLine)'
  BY <1>1, LenFact, DomFact, IdleFact DEF LineInv, KeysLine
<1>6. (pc \in Changing => ChangeLine)'
  BY <1>1, LenFact, DomFact, IdleFact DEF LineInv, Changing, ChangeLine
<1> QED BY <1>1, <1>2, <1>3, <1>4, <1>5, <1>6 DEF LineInv

LEMMA LineShell ==
  ASSUME ProvInv, LineInv, Shell, UNCHANGED hostVars
  PROVE  LineInv'
<1>1. StationTypeOK' /\ LineTypeOK'
  BY ShellStation, ShellLine
<1>2. CASE Silent
  BY <1>2 DEF Silent, hostVars, lineVars, LineInv, Unfinished, LoadLine, AfterLoad,
              EndsInLoad, BondsLine, KeysLine, ChangeLine, Changing, Awaited, Bond
<1> QED BY <1>1, <1>2, ShellKinds, LineBegins, LinePrints, LineFinishes, LineRestarted

\* The rest of the answers.
LEMMA RestFact ==
  ASSUME ProvInv, LineTypeOK', out # <<>>, Heard
  PROVE  /\ Head(out) = out[1] /\ 1 \in DOMAIN out /\ Len(out') = Len(out) - 1 /\ UNCHANGED port
         /\ \A i \in DOMAIN out' : i + 1 \in DOMAIN out /\ out'[i] = out[i + 1]
BY HeardFact DEF Heard, ProvInv, PTypeOK, LineTypeOK

\* What sending a command does to those under way.
LEMMA SentFact ==
  ASSUME ProvInv, LineTypeOK', NEW c \in Command, Send(c)
  PROVE  \/ UNCHANGED cmd
         \/ /\ port = "open" /\ Len(cmd') = Len(cmd) + 1 /\ cmd'[Len(cmd')] = c
            /\ \A i \in DOMAIN cmd' : i # Len(cmd') => i \in DOMAIN cmd /\ cmd'[i] = cmd[i]
BY AppendFact, LenFact, DomFact DEF Send, ProvInv, PTypeOK, LineTypeOK

\* One command after clearings.
LEMMA LineSent ==
  ASSUME ProvInv, LineInv, LineTypeOK', UNCHANGED <<job, port>>, job = Idle, Len(out') = 0,
         \A i \in DOMAIN cmd : cmd[i].op = "clear",
         pc' \in Changing, pc # "open",
         UNCHANGED cmd \/ \E c \in Command : Send(c) /\ (c.op = "clear" \/ Awaited(c)')
  PROVE  LineInv'
<1>1. (\A i \in DOMAIN cmd : cmd[i].op = "clear" \/ (i = Len(cmd) /\ Awaited(cmd[i])))'
  <2>1. CASE UNCHANGED cmd
    BY <2>1
  <2>2. CASE cmd' # cmd
    <3>1. PICK c \in Command : Send(c) /\ (c.op = "clear" \/ Awaited(c)')
      BY <2>2
    <3>2. \A i \in DOMAIN cmd' : cmd'[i] = c \/ cmd'[i].op = "clear"
      BY <2>2, <3>1, SentFact
    <3>3. \A i \in DOMAIN cmd' : cmd'[i] = c => c.op = "clear" \/ i = Len(cmd')
      BY <2>2, <3>1, SentFact
    <3> QED BY <3>1, <3>2, <3>3
  <2> QED BY <2>1, <2>2
<1>2. ChangeLine'
  BY <1>1, LenFact DEF ChangeLine, Changing
<1> QED BY <1>2 DEF LineInv, Changing

LEMMA LineConnect ==
  ASSUME ProvInv, CaughtUp, LineTypeOK', connect, UNCHANGED job
  PROVE  LineInv'
<1>1. FirstCommand \in {"reboot", "load", "ble"}
  BY DEF FirstCommand
<1> DEFINE c == [op |-> FirstCommand]
<1>2. c \in Command /\ c.op = FirstCommand
  BY <1>1 DEF Command
<1> HIDE DEF c
<1>3. cmd' = Append(cmd, c) /\ out' = <<>> /\ port' = "open"
  BY DEF connect, Flushed, c
<1>4. Len(cmd') = Len(cmd) + 1 /\ cmd'[Len(cmd')] = c
  BY <1>2, <1>3, AppendFact DEF ProvInv, PTypeOK, LineTypeOK
<1>5. Len(out') + Unfinished' <= 2
  BY <1>3, <1>4, LenFact DEF CaughtUp, Unfinished
<1>6. pc' \in {"reboot", "load", "run"} /\ (pc' = "load" => c.op = "load")
  BY <1>1, <1>2 DEF connect
<1>7. ASSUME pc' = "load" PROVE LoadLine'
  BY <1>3, <1>4, <1>6, <1>7, LenFact DEF LoadLine, EndsInLoad
<1> QED BY <1>3, <1>5, <1>6, <1>7 DEF LineInv, Changing

LEMMA LineSkips ==
  ASSUME ProvInv, LineInv, LineTypeOK', StationTypeOK', skip_line, UNCHANGED job
  PROVE  LineInv'
<1>0. out # <<>> /\ Heard /\ UNCHANGED <<cmd, port, pc>> /\ pc \in {"load", "bonds", "keys"}
      /\ Head(out).of # pc
  <2>1. PICK kind \in {"load", "bonds", "keys"} : pc = kind /\ out # <<>> /\ ~Hears(kind)
    BY DEF skip_line
  <2>2. Heard /\ UNCHANGED <<cmd, hostVars>>
    BY DEF skip_line
  <2> QED BY <2>1, <2>2 DEF Heard, Hears, hostVars
<1>1. /\ out[1].of # pc /\ 1 \in DOMAIN out /\ Len(out') = Len(out) - 1
      /\ \A i \in DOMAIN out' : i + 1 \in DOMAIN out /\ out'[i] = out[i + 1]
  BY <1>0, RestFact
<1>2. pc # "keys"
  BY <1>0, <1>1 DEF LineInv, KeysLine
<1>3. Len(out') + Unfinished' <= 2 /\ Unfinished \in Nat /\ Unfinished' = Unfinished
  BY <1>0, <1>1, <1>2, LenFact DEF LineInv, Unfinished
<1>4. ASSUME pc = "load" PROVE LoadLine'
  <2>0. LoadLine /\ Len(out) + Unfinished <= 2
    BY <1>4 DEF LineInv
  <2>1. ASSUME out' # <<>>, out'[1].of = "load" PROVE AfterLoad'
    <3>1. Len(out') = 1 /\ Unfinished = 0
      BY <1>1, <1>3, <2>0, <2>1, LenFact
    <3>2. Len(cmd) = 0 /\ job = Idle
      BY <3>1, LenFact DEF Unfinished
    <3> QED BY <1>0, <2>1, <3>1, <3>2, LenFact, DomFact, IdleFact DEF AfterLoad
  <2>2. ASSUME port' = "open" PROVE EndsInLoad'
    <3>1. EndsInLoad
      BY <1>0, <2>0, <2>2 DEF LoadLine
    <3>2. out' # <<>> => out'[Len(out')] = out[Len(out)]
      BY <1>1, LenFact, DomFact
    <3> QED BY <1>0, <3>1, <3>2 DEF EndsInLoad
  <2> QED BY <2>1, <2>2 DEF LoadLine
<1>5. ASSUME pc = "bonds" PROVE BondsLine'
  <2>1. BondsLine
    BY <1>5 DEF LineInv
  <2>2. \A i \in DOMAIN out' :
          out'[i].of \in {"load", "bonds"} /\ (out'[i].of = "bonds" => i = Len(out') /\ Unfinished' = 0)
    BY <1>1, <1>3, <2>1, DomFact, LenFact DEF BondsLine
  <2> QED BY <1>0, <2>1, <2>2 DEF BondsLine
<1> QED BY <1>0, <1>2, <1>3, <1>4, <1>5 DEF LineInv, Changing

\* A script that knows what is under way mistakes no "done" for that of a
\* clearing or of the last reboot.
LEMMA NotMistaken ==
  ASSUME LineInv
  PROVE  /\ pc \in {"zip", "clear", "zip_clear", "end"} => out = <<>>
         /\ set_up => pc = "setup"
         /\ rebooted => pc' = "open"
         /\ zip => pc = "zip" /\ UNCHANGED <<out, port>>
BY DEF LineInv, Changing, ChangeLine, set_up, rebooted, zip, Judged, HearsDone

LEMMA LineReads ==
  ASSUME ProvInv, LineInv, LineTypeOK', StationTypeOK', UNCHANGED job,
         read_settings \/ request_bonds \/ request_spacekeys \/ set_up
  PROVE  LineInv'
<1>1. CASE read_settings
  <2>0. pc = "load" /\ out # <<>> /\ Heard /\ Head(out).of = "load" /\ pc' = "bonds"
    BY <1>1 DEF read_settings, Hears, Await
  <2>1. /\ out[1].of = "load" /\ Len(out') = Len(out) - 1 /\ UNCHANGED port
        /\ \A i \in DOMAIN out' : i + 1 \in DOMAIN out /\ out'[i] = out[i + 1]
    BY <2>0, RestFact
  <2>2. AfterLoad /\ Len(out) + Unfinished <= 2
    BY <2>0, <2>1 DEF LineInv, LoadLine
  <2> DEFINE c == [op |-> "bonds"]
  <2>3. c \in Command /\ c.op = "bonds" /\ Send(c)
    BY <1>1 DEF Command, read_settings, Await
  <2> HIDE DEF c
  <2>4. \A i \in DOMAIN cmd' : cmd'[i].op \in {"load", "bonds"} /\ (cmd'[i].op = "bonds" => i = Len(cmd'))
    BY <2>2, <2>3, SentFact DEF AfterLoad
  <2>5. \A i \in DOMAIN out' : out'[i].of = "load"
    BY <2>1, <2>2 DEF AfterLoad
  <2>6. BondsLine'
    BY <2>2, <2>4, <2>5 DEF BondsLine, AfterLoad
  <2>7. (Len(out) + Unfinished <= 2)'
    BY <2>1, <2>2, <2>3, SentFact, LenFact DEF Unfinished
  <2> QED BY <2>0, <2>6, <2>7 DEF LineInv, Changing
<1>2. CASE request_bonds
  <2>0. pc = "bonds" /\ out # <<>> /\ Heard /\ Head(out).of = "bonds" /\ pc' = "keys"
    BY <1>2 DEF request_bonds, Hears, Await
  <2>1. out[1].of = "bonds" /\ 1 \in DOMAIN out /\ Len(out') = Len(out) - 1 /\ UNCHANGED port
    BY <2>0, RestFact
  <2>2. Len(out) = 1 /\ Unfinished = 0
    BY <2>0, <2>1 DEF LineInv, BondsLine
  <2>3. Len(cmd) = 0 /\ job = Idle /\ Len(out') = 0
    BY <2>1, <2>2, LenFact DEF Unfinished
  <2> DEFINE c == [op |-> "keys"]
  <2>4. c \in Command /\ c.op = "keys" /\ Send(c)
    BY <1>2 DEF Command, request_bonds, Await
  <2> HIDE DEF c
  <2>5. Len(cmd') <= 1 /\ \A i \in DOMAIN cmd' : cmd'[i].op = "keys"
    BY <2>3, <2>4, SentFact, LenFact, DomFact
  <2>6. KeysLine'
    BY <2>3, <2>5, LenFact, DomFact DEF KeysLine
  <2> QED BY <2>0, <2>6 DEF LineInv, Changing
<1>3. CASE request_spacekeys
  <2>0. pc = "keys" /\ out # <<>> /\ Heard /\ KeysLine
    BY <1>3 DEF request_spacekeys, Hears, LineInv
  <2>1. Len(out') = Len(out) - 1 /\ UNCHANGED port
    BY <2>0, RestFact
  <2>2. Len(out') = 0 /\ Len(cmd) = 0 /\ job = Idle
    BY <2>0, <2>1, LenFact DEF KeysLine
  <2>3. [op |-> "clear"] \in Command /\ [op |-> "setup", id |-> db.id] \in Command
    BY DataFact DEF Command
  <2>4. /\ pc' \in {"zip", "setup", "clear"} /\ UNCHANGED db
        /\ \/ UNCHANGED cmd
           \/ Send([op |-> "clear"])
           \/ Send([op |-> "setup", id |-> db.id]) /\ pc' = "setup"
    BY <1>3 DEF request_spacekeys, compare_lengths, Await
  <2>5. UNCHANGED cmd \/ \E c \in Command : Send(c) /\ (c.op = "clear" \/ Awaited(c)')
    BY <2>3, <2>4 DEF Awaited
  <2> QED BY <2>0, <2>1, <2>2, <2>4, <2>5, LineSent, DomFact DEF Changing
<1>4. CASE set_up
  <2>0. pc = "setup" /\ out # <<>> /\ Heard /\ ChangeLine
    BY <1>4, NotMistaken DEF set_up, HearsDone, LineInv, Changing
  <2>1. Len(out') = Len(out) - 1 /\ UNCHANGED port
    BY <2>0, RestFact
  <2>2. Len(out') = 0 /\ Len(cmd) = 0 /\ job = Idle
    BY <2>0, <2>1, LenFact DEF ChangeLine
  <2>3. [op |-> "clear"] \in Command
    BY DEF Command
  <2>4. pc' = "zip" /\ (UNCHANGED cmd \/ Send([op |-> "clear"]))
    BY <1>4 DEF set_up, compare_lengths
  <2>5. UNCHANGED cmd \/ \E c \in Command : Send(c) /\ (c.op = "clear" \/ Awaited(c)')
    BY <2>3, <2>4
  <2> QED BY <2>0, <2>1, <2>2, <2>4, <2>5, LineSent, DomFact DEF Changing
<1> QED BY <1>1, <1>2, <1>3, <1>4

\* The next coin, or the end.
LEMMA AddNextSends ==
  ASSUME ProvInv, add_next, UNCHANGED db
  PROVE  /\ pc' \in Changing
         /\ \E c \in Command : Send(c) /\ (c.op = "clear" \/ Awaited(c)')
<1>1. ASSUME NEW a \in Missing, Await("add", [op |-> "add", addr |-> a, key |-> db.coins[a]])
      PROVE  /\ pc' \in Changing
             /\ \E c \in Command : Send(c) /\ (c.op = "clear" \/ Awaited(c)')
  <2>1. PICK c \in Command : c = [op |-> "add", addr |-> a, key |-> db.coins[a]]
    BY DataFact DEF Command
  <2>2. Send(c) /\ pc' = "add"
    BY <1>1, <2>1 DEF Await
  <2>3. Awaited(c)'
    BY <2>1, <2>2 DEF Awaited
  <2> QED BY <2>1, <2>2, <2>3 DEF Changing
<1>2. CASE Await("end", [op |-> "reboot"])
  <2>1. [op |-> "reboot"] \in Command
    BY DEF Command
  <2> QED BY <1>2, <2>1 DEF Await, Awaited, Changing
<1> QED BY <1>1, <1>2 DEF add_next

\* Nothing but clearings is under way at a change the script has heard of,
\* and none of those is awaited between two lines of the lists.
LEMMA ChangeHeard ==
  ASSUME ProvInv, LineInv, LineTypeOK', StationTypeOK',
         pc = "zip" \/ (pc \in {"setup", "del", "add"} /\ out # <<>>)
  PROVE  /\ job = Idle /\ (\A i \in DOMAIN cmd : cmd[i].op = "clear")
         /\ pc = "zip" => Len(out) = 0
         /\ pc # "zip" => Len(out) = 1 /\ Len(cmd) = 0
<1>1. ChangeLine
  BY DEF LineInv, Changing
<1>2. CASE pc = "zip"
  BY <1>1, <1>2, LenFact, IdleFact DEF ChangeLine, Awaited, ProvInv, PTypeOK, StationTypeOK, Job
<1>3. CASE pc # "zip"
  BY <1>1, <1>3, LenFact, DomFact DEF ChangeLine
<1> QED BY <1>2, <1>3

LEMMA LineZips ==
  ASSUME ProvInv, LineInv, LineTypeOK', StationTypeOK', UNCHANGED job,
         zip \/ deleted \/ zip_ended \/ added
  PROVE  LineInv'
<1>1. CASE zip
  <2>0. pc = "zip" /\ UNCHANGED <<out, port, db, seen>> /\ Bond \in Addrs
    BY <1>1, NotMistaken DEF zip, Both, Bond, ProvInv, PTypeOK, HostTypeOK
  <2>1. pc' \in Changing
    BY <1>1 DEF zip, Await, Changing
  <2>2. UNCHANGED cmd \/ \E c \in Command : Send(c) /\ (c.op = "clear" \/ Awaited(c)')
    <3>1. CASE Await("zip_clear", [op |-> "clear"])
      BY <3>1 DEF Await, Command
    <3>2. CASE Await("del", [op |-> "del", addr |-> Bond]) /\ UNCHANGED at
      <4> DEFINE c == [op |-> "del", addr |-> Bond]
      <4>1. c \in Command /\ c.op = "del" /\ c.addr = Bond /\ Bond' = Bond
        BY <2>0, <3>2 DEF Command, Bond
      <4>2. Send(c) /\ pc' = "del"
        BY <3>2 DEF Await
      <4> HIDE DEF c
      <4> QED BY <4>1, <4>2 DEF Awaited
    <3> QED BY <1>1, <3>1, <3>2 DEF zip
  <2> QED BY <2>0, <2>1, <2>2, ChangeHeard, LineSent
<1>2. CASE deleted
  <2>1. pc = "del" /\ out # <<>> /\ Heard /\ pc' = "zip" /\ UNCHANGED cmd
    BY <1>2 DEF deleted, HearsDone
  <2>2. Len(out) = 1
    BY <2>1, ChangeHeard
  <2>3. Len(out') = 0 /\ UNCHANGED port
    BY <2>1, <2>2, RestFact
  <2> QED BY <2>1, <2>3, ChangeHeard, LineSent DEF Changing
<1>3. CASE zip_ended
  <2>1. pc = "zip" /\ add_next /\ UNCHANGED <<out, port, db>>
    BY <1>3 DEF zip_ended
  <2> QED BY <2>1, ChangeHeard, LineSent, AddNextSends
<1>4. CASE added
  <2>1. pc = "add" /\ out # <<>> /\ Heard /\ add_next /\ UNCHANGED db
    BY <1>4 DEF added, HearsDone
  <2>2. Len(out) = 1
    BY <2>1, ChangeHeard
  <2>3. Len(out') = 0 /\ UNCHANGED port
    BY <2>1, <2>2, RestFact
  <2> QED BY <2>1, <2>3, ChangeHeard, LineSent, AddNextSends
<1> QED BY <1>1, <1>2, <1>3, <1>4

LEMMA LineHost ==
  ASSUME ProvInv, LineInv, LineTypeOK', StationTypeOK', Host, UNCHANGED job, Opens => CaughtUp
  PROVE  LineInv'
<1>1. CASE connect
  <2>1. Opens
    BY <1>1 DEF connect, Opens, FirstCommand
  <2> QED BY <1>1, <2>1, LineConnect
<1>2. CASE serial_exception \/ rebooted
  <2>1. pc' = "open"
    BY <1>2, NotMistaken DEF serial_exception
  <2> QED BY <2>1 DEF LineInv, Changing
<1> QED BY <1>1, <1>2, LineSkips, LineReads, LineZips DEF Host

LEMMA LineKept ==
  ASSUME ProvInv, LineInv, [PatientNext]_allVars
  PROVE  LineInv'
<1>0. StationTypeOK' /\ LineTypeOK'
  <2>1. [PNext]_allVars
    BY DEF PatientNext
  <2> QED BY <2>1, StationKept, EndsKept
<1>1. CASE Shell /\ UNCHANGED hostVars
  BY <1>1, LineShell
<1>2. CASE watchdog /\ UNCHANGED hostVars
  BY <1>0, <1>2, LineRestarted DEF watchdog
<1>3. CASE Host /\ UNCHANGED stationVars
  <2>1. ~UNCHANGED allVars => (Opens => CaughtUp)
    BY DEF PatientNext
  <2>2. UNCHANGED allVars => ~Opens
    BY DEF Opens, allVars, hostVars
  <2> QED BY <1>0, <1>3, <2>1, <2>2, LineHost DEF stationVars
<1>4. CASE power_cut
  BY <1>0, <1>4, LineRestarted DEF power_cut
<1>5. CASE line_dropped
  <2>1. port' # "open" /\ UNCHANGED <<job, cmd, out, hostVars>>
    BY <1>5 DEF line_dropped, stationVars
  <2> QED BY <2>1 DEF hostVars, LineInv, Unfinished, LoadLine, AfterLoad,
                      BondsLine, KeysLine, ChangeLine, Changing, Awaited, Bond
<1>6. CASE host_restarted
  <2>1. pc' = "open"
    BY <1>6 DEF host_restarted
  <2> QED BY <2>1 DEF LineInv, Changing
<1>7. CASE UNCHANGED allVars
  BY <1>7 DEF allVars, stationVars, lineVars, hostVars, LineInv, Unfinished, LoadLine,
              AfterLoad, EndsInLoad, BondsLine, KeysLine, ChangeLine, Changing, Awaited, Bond
<1> QED BY <1>1, <1>2, <1>3, <1>4, <1>5, <1>6, <1>7 DEF PatientNext, PNext

LEMMA LineInit == PInit => LineInv
<1> SUFFICES ASSUME PInit PROVE LineInv
  OBVIOUS
<1>1. pc = "open"
  BY DEF PInit
<1> QED BY <1>1 DEF LineInv, Changing

LEMMA PatientIsSpec == PatientSpec => PSpec
<1>1. [PatientNext]_allVars => [PNext]_allVars
  BY DEF PatientNext
<1> QED BY <1>1, PTL DEF PatientSpec, PSpec

\* A session of the script hears the answers to its own commands, whatever a
\* session before it left behind.
THEOREM SessionInStep == PatientSpec => []LineInv
<1>1. ProvInv /\ LineInv /\ [PatientNext]_allVars => LineInv'
  BY LineKept
<1> QED BY <1>1, LineInit, PatientIsSpec, ProvisioningInvariance, PTL DEF PatientSpec

\* The script never takes a late "done" for that of a reset it has asked for.
THEOREM NoLateDone == PatientSpec => []NoFalseDone
<1>1. ProvInv /\ LineInv => NoFalseDone
  BY DEF LineInv, ChangeLine, Changing, NoFalseDone
<1> QED BY <1>1, SessionInStep, PatientIsSpec, ProvisioningInvariance, PTL

-----------------------------------------------------------------------------
(* The bonds and the keys of a station whose flash works.                  *)

TableInv == Saved /\ LoadInv

LEMMA TableInvKept ==
  ASSUME Faults = {}, ProvInv, ProvInv', TableInv, [PNext]_allVars
  PROVE  TableInv'
<1>1. [ManagedNext]_vars /\ [Next]_vars
  BY StepIsManaged DEF ManagedNext, Next
<1> QED BY <1>1, NextSaved, NextLoad DEF ProvInv, TableInv

\* The slots and the stored addresses are finitely many.
LEMMA HasKeyFact ==
  /\ HasKey = Live /\ IsFiniteSet(HasKey) /\ Cardinality(HasKey) \in Nat
  /\ IsFiniteSet(Slot) /\ Cardinality(Slot) = MaxPaired
<1>1. HasKey = Live
  BY DEF HasKey, Live
<1>2. MaxPaired - 1 \in Int
  BY SizeAssumption
<1>3. IsFiniteSet(Slot) /\ Cardinality(Slot) = MaxPaired
  BY <1>2, FS_Interval, SizeAssumption DEF Slot
<1> QED BY <1>1, <1>3, LiveFact

\* There is a slot for a bond that has a key.
LEMMA RoomForBond ==
  ASSUME ProvInv, BondInv, TableInv, NEW a \in HasKey, \A i \in Slot : bonds[i] # a
  PROVE  \E i \in Slot : bonds[i] = NoAddr
<1> SUFFICES ASSUME \A i \in Slot : bonds[i] # NoAddr PROVE FALSE
  OBVIOUS
<1> DEFINE T == HasKey \ {a}
           f == [i \in Slot |-> bonds[i]]
<1>1. IsFiniteSet(T) /\ Cardinality(T) = Cardinality(HasKey) - 1
  BY HasKeyFact, FS_RemoveElement
<1>2. \A i \in Slot : bonds[i] \in T
  BY DEF BondInv, BondsKeyed, Used
<1>3. \A i, j \in Slot : bonds[i] = bonds[j] => i = j
  BY DEF BondInv, BondsKeyed, Used
<1>4. f \in Injection(Slot, T)
  BY <1>2, <1>3 DEF Injection, IsInjective
<1>5. Cardinality(Slot) <= Cardinality(T)
  BY <1>1, <1>4, FS_Injection
<1> QED BY <1>1, <1>5, HasKeyFact, SizeAssumption DEF TableInv, LoadInv

\* Bonding puts an address with a key into one slot and leaves the others.
LEMMA BondedEffect ==
  ASSUME ProvInv, BondInv, TableInv, NEW a \in HasKey, bonds' = Bonded(a)
  PROVE  /\ \E i \in Slot : bonds'[i] = a
         /\ \A i \in Slot : bonds[i] # NoAddr => bonds'[i] = bonds[i]
         /\ \A i \in Slot : bonds[i] = NoAddr /\ bonds'[i] # NoAddr =>
              bonds'[i] = a /\ \A j \in Slot : bonds[j] # a /\ (bonds'[j] = a => j = i)
<1>0. bonds \in [Slot -> Addrs \cup {NoAddr}] /\ a \in Addrs /\ a # NoAddr
  BY AddrAssumption DEF ProvInv, PTypeOK, StationTypeOK, HasKey
<1>1. CASE \E i \in Slot : bonds[i] = a
  BY <1>1 DEF Bonded
<1>2. CASE \A i \in Slot : bonds[i] # a
  <2> DEFINE free == {i \in Slot : bonds[i] = NoAddr}
  <2>1. free # {} /\ free \in SUBSET Nat
    BY <1>2, RoomForBond, SizeAssumption DEF Slot
  <2>2. First(free) \in free
    BY <2>1, FirstFact
  <2>3. bonds' = [bonds EXCEPT ![First(free)] = a]
    BY <1>2, <2>1 DEF Bonded
  <2> HIDE DEF free
  <2>4. PICK n \in Slot : bonds[n] = NoAddr /\ bonds' = [bonds EXCEPT ![n] = a]
    BY <2>2, <2>3 DEF free
  <2> QED BY <1>0, <1>2, <2>4
<1> QED BY <1>1, <1>2

\* Steps that leave the bonds alone and lose no key of theirs.
LEMMA BondSame ==
  ASSUME ProvInv, BondInv, UNCHANGED bondVars,
         \A a \in bondstore : store'[a] \in Keys,
         job' = job \/ job'.op \in {"idle", "load", "setup"}
           \/ (job'.op = "add" /\ job'.addr \in Addrs /\ store'[job'.addr] \in Keys),
         job'.op = "add" => store'[job'.addr] \in Keys,
         loaded' \/ job'.op \in {"load", "ble"} => loaded \/ job.op \in {"load", "ble"},
         todo' # {} => job'.op \in {"load", "ble"}
  PROVE  BondInv'
<1>1. UNCHANGED <<bonds, bondstore, bondtodo, Used>>
  BY DEF bondVars, Used
<1>2. bondstore' \subseteq HasKey'
  BY <1>1 DEF HasKey, ProvInv, PTypeOK, StationTypeOK
<1>3. job'.op = "add" => job'.addr \in HasKey'
  BY DEF HasKey, BondInv, BondsKeyed
<1> QED BY <1>1, <1>2, <1>3 DEF BondInv, BondsKeyed

\* A reset empties the RAM.
LEMMA BondRestarted ==
  ASSUME ProvInv, BondInv, Restarted, reboot,
         bondstore' \subseteq HasKey'
  PROVE  BondInv'
<1>1. Used' = {} /\ job'.op = "idle" /\ loaded' = FALSE /\ todo' = {} /\ bondtodo' = {}
  BY DEF Used, Restarted, NoBonds, Idle, reboot
<1> QED BY <1>1 DEF BondInv, BondsKeyed

LEMMA BondStarted ==
  ASSUME ProvInv, BondInv, NEW for \in {"load", "ble"}, LoadAll(for)
  PROVE  BondInv'
<1>1. /\ UNCHANGED <<bonds, bondstore, store, Used, HasKey>> /\ bondtodo' = bondstore
      /\ job'.op \in {"load", "ble"} /\ job'.op # "add" /\ job'.op # "del"
  BY DEF LoadAll, settings_load, Used, HasKey
<1> QED BY <1>1 DEF BondInv, BondsKeyed

LEMMA BondDelivered ==
  ASSUME ProvInv, BondInv, TableInv, deliver_bond
  PROVE  BondInv'
<1>1. PICK a \in bondtodo : bondtodo' = bondtodo \ {a} /\ bonds' = Bonded(a)
  BY DEF deliver_bond
<1>2. a \in bondstore /\ a \in HasKey /\ UNCHANGED <<bondstore, store, HasKey, job, loaded, todo>>
  BY <1>1 DEF deliver_bond, BondInv, BondsKeyed, ProvInv, PTypeOK, StationTypeOK, keyVars, HasKey
<1>3. /\ \E i \in Slot : bonds'[i] = a
      /\ \A i \in Slot : bonds[i] # NoAddr => bonds'[i] = bonds[i]
      /\ \A i \in Slot : bonds[i] = NoAddr /\ bonds'[i] # NoAddr =>
           bonds'[i] = a /\ \A j \in Slot : bonds[j] # a /\ (bonds'[j] = a => j = i)
  BY <1>1, <1>2, BondedEffect
<1>4. (\A i \in Used : bonds[i] \in bondstore /\ \A j \in Used : bonds[i] = bonds[j] => i = j)'
  BY <1>2, <1>3 DEF BondInv, BondsKeyed, Used
<1>5. (loaded \/ job.op \in {"load", "ble"} =>
         \A b \in bondstore \ bondtodo : \E i \in Slot : bonds[i] = b)'
  <2> SUFFICES ASSUME loaded \/ job.op \in {"load", "ble"}, NEW b \in bondstore, b \notin bondtodo'
               PROVE  \E i \in Slot : bonds'[i] = b
    BY <1>2
  <2>1. CASE b = a
    BY <1>3, <2>1
  <2>2. CASE b # a
    <3>1. PICK i \in Slot : bonds[i] = b
      BY <1>1, <2>2 DEF BondInv, BondsKeyed
    <3>2. b # NoAddr
      BY AddrAssumption DEF ProvInv, PTypeOK, StationTypeOK
    <3> QED BY <1>3, <3>1, <3>2
  <2> QED BY <2>1, <2>2
<1> QED BY <1>2, <1>4, <1>5 DEF BondInv, BondsKeyed

LEMMA BondStored ==
  ASSUME ProvInv, BondInv, TableInv, bt_keys_store
  PROVE  BondInv'
<1> DEFINE a == job.addr
<1>1. /\ a \in HasKey /\ bondstore' = bondstore \cup {a} /\ bonds' = Bonded(a)
      /\ UNCHANGED <<HasKey, loaded, bondtodo, todo>> /\ job'.op = "idle" /\ job.op = "add"
  BY DEF bt_keys_store, BondInv, BondsKeyed, keyVars, Idle, HasKey
<1> HIDE DEF a
<1>2. /\ \E i \in Slot : bonds'[i] = a
      /\ \A i \in Slot : bonds[i] # NoAddr => bonds'[i] = bonds[i]
      /\ \A i \in Slot : bonds[i] = NoAddr /\ bonds'[i] # NoAddr =>
           bonds'[i] = a /\ \A j \in Slot : bonds[j] # a /\ (bonds'[j] = a => j = i)
  BY <1>1, BondedEffect
<1>3. (\A i \in Used : bonds[i] \in bondstore /\ \A j \in Used : bonds[i] = bonds[j] => i = j)'
  BY <1>1, <1>2 DEF BondInv, BondsKeyed, Used
<1>4. ASSUME loaded, NEW b \in bondstore \cup {a}, b \notin bondtodo
      PROVE  \E i \in Slot : bonds'[i] = b
  <2>1. CASE b = a
    BY <1>2, <2>1
  <2>2. CASE b # a
    <3>1. PICK i \in Slot : bonds[i] = b
      BY <1>4, <2>2 DEF BondInv, BondsKeyed
    <3>2. b # NoAddr
      BY <2>2, AddrAssumption DEF ProvInv, PTypeOK, StationTypeOK
    <3> QED BY <1>2, <3>1, <3>2
  <2> QED BY <2>1, <2>2
<1>5. bondstore' \subseteq HasKey'
  BY <1>1 DEF BondInv, BondsKeyed
<1>6. todo' = {}
  BY <1>1 DEF BondInv, BondsKeyed
<1> QED BY <1>1, <1>3, <1>4, <1>5, <1>6 DEF BondInv, BondsKeyed

\* A deletion that finds no bond has none to find.
LEMMA BondDeleted ==
  ASSUME ProvInv, BondInv, cmd_coin_del
  PROVE  BondInv' /\ bondstore' = bondstore \ {Head(cmd).addr}
<1> DEFINE a     == Head(cmd).addr
           slots == {i \in Slot : bonds[i] = a}
<1>0. Reads("del") /\ ~ble_stack_running
  <2>1. Reads("del")
    BY DEF cmd_coin_del, Configures
  <2> QED BY <2>1, NotRefused
<1>1. /\ bonds' = [i \in Slot |-> IF i \in slots THEN NoAddr ELSE bonds[i]]
      /\ bondstore' = IF slots = {} THEN bondstore ELSE bondstore \ {a}
      /\ job' = [op |-> "del", addr |-> a]
      /\ UNCHANGED <<store, todo, loaded, bondtodo>>
  BY <1>0 DEF cmd_coin_del, Configures, keyVars
<1>2. a \in Addrs /\ loaded
  <2>1. 1 \in DOMAIN cmd /\ Head(cmd) = cmd[1] /\ cmd[1] \in Command /\ cmd[1].op = "del"
    BY <1>0, HeadFact DEF Reads
  <2> QED BY <2>1 DEF Command, ProvInv, LoadedInv
<1>3. bondtodo = {} /\ todo = {}
  <2>1. job.op = "idle"
    BY <1>0 DEF Reads, Idle
  <2> QED BY <2>1 DEF BondInv, BondsKeyed, ProvInv, PTypeOK, StationTypeOK
<1>4. slots = {} => a \notin bondstore
  BY <1>2, <1>3 DEF BondInv, BondsKeyed
<1>5. bondstore' = bondstore \ {a}
  BY <1>1, <1>4
<1>6. \A i \in Slot : bonds'[i] = IF bonds[i] = a THEN NoAddr ELSE bonds[i]
  BY <1>1
<1>7. (\A i \in Used : bonds[i] \in bondstore /\ \A j \in Used : bonds[i] = bonds[j] => i = j)'
  BY <1>5, <1>6 DEF BondInv, BondsKeyed, Used
<1>8. \A b \in bondstore' : \E i \in Slot : bonds'[i] = b
  BY <1>2, <1>3, <1>5, <1>6 DEF BondInv, BondsKeyed
<1>9. bondstore' \subseteq HasKey'
  BY <1>1, <1>5 DEF BondInv, BondsKeyed, HasKey
<1>10. job'.op = "del" /\ job'.addr = a /\ todo' = {}
  BY <1>1, <1>3
<1> HIDE DEF a, slots
<1> QED BY <1>5, <1>7, <1>8, <1>9, <1>10 DEF BondInv, BondsKeyed, a

LEMMA BondShell ==
  ASSUME Faults = {}, ProvInv, ProvInv', BondInv, TableInv, Shell
  PROVE  BondInv'
<1>0. IInv /\ IInv' /\ (\A b \in bondstore : store[b] \in Keys) /\ bondstore \subseteq Addrs
  BY DEF ProvInv, BondInv, BondsKeyed, HasKey, PTypeOK, StationTypeOK
<1>1. CASE cmd_settings_load
  <2>1. Reads("load")
    BY <1>1 DEF cmd_settings_load, Configures
  <2> QED BY <1>1, <2>1, NotRefused, BondStarted DEF cmd_settings_load, Configures
<1>2. CASE deliver_key
  <2>1. /\ UNCHANGED <<bondVars, job, store>> /\ todo' \subseteq todo
        /\ loaded' => loaded \/ todo # {}
    BY <1>2 DEF deliver_key, space_settings_set
  <2> QED BY <1>0, <2>1, BondSame DEF BondInv, BondsKeyed, HasKey
<1>3. CASE deliver_bond
  BY <1>3, BondDelivered
<1>4. CASE settings_loaded
  <2>1. /\ UNCHANGED <<bondVars, store, loaded, todo>> /\ job'.op = "idle" /\ todo = {}
    BY <1>4 DEF settings_loaded, keyVars, Idle
  <2> QED BY <1>0, <1>4, <2>1, BondSame DEF settings_loaded
<1>5. CASE cmd_print
  BY <1>0, <1>5, BondSame DEF cmd_print, stationVars, keyVars, BondInv, BondsKeyed, HasKey
<1>6. CASE cmd_coin_add
  <2>1. Reads("add") /\ ~ble_stack_running
    <3>1. Reads("add")
      BY <1>6 DEF cmd_coin_add, Configures
    <3> QED BY <3>1, NotRefused
  <2>2. Head(cmd) \in Command /\ Head(cmd).op = "add"
    BY <2>1, HeadFact DEF Reads
  <2>3. PICK a \in Addrs, k \in Keys : a = Head(cmd).addr /\ spacekey_add(a, k)
    BY <1>6, <2>1, <2>2 DEF cmd_coin_add, Configures, Command
  <2>4. job' = (IF result' = "ok" THEN [op |-> "add", addr |-> a] ELSE Idle) /\ UNCHANGED bondVars
    BY <1>6, <2>1, <2>3 DEF cmd_coin_add, Configures
  <2>5. todo = {} /\ UNCHANGED <<todo, loaded>>
    BY <2>3 DEF spacekey_add
  <2>6. /\ \A b \in Addrs : b # a => store'[b] = store[b]
        /\ store'[a] = k \/ (store'[a] = store[a] /\ result' # "ok")
    <3>1. store \in [Addrs -> Keys \cup {NoKey, Deleted}]
      BY <1>0 DEF IInv, TypeOK
    <3> QED BY <2>3, <3>1 DEF spacekey_add, SaveRecord
  <2>7. \A b \in bondstore : store'[b] \in Keys
    BY <1>0, <2>6
  <2>8. job'.op = "add" => job'.addr = a /\ store'[a] \in Keys
    BY <2>4, <2>6 DEF Idle
  <2>9. job'.op \in {"add", "idle"} /\ job'.op \notin {"load", "ble"}
    BY <2>4 DEF Idle
  <2> QED BY <2>3, <2>4, <2>5, <2>7, <2>8, <2>9, BondSame
<1>7. CASE bt_keys_store
  BY <1>7, BondStored
<1>8. CASE cmd_coin_del
  BY <1>8, BondDeleted
<1>9. CASE del_spacekey
  <2>1. job.op = "del" /\ job.addr \in Addrs /\ spacekey_del(job.addr) /\ UNCHANGED bondVars /\ job'.op = "idle"
    BY <1>9 DEF del_spacekey, Idle, ProvInv, PTypeOK, StationTypeOK, Job
  <2>2. todo = {} /\ UNCHANGED <<todo, loaded>> /\ \A b \in Addrs \ {job.addr} : store'[b] = store[b]
    BY <1>0, <2>1, DelEffect
  <2>3. \A b \in bondstore : store'[b] \in Keys
    BY <1>0, <2>1, <2>2 DEF BondInv, BondsKeyed
  <2> QED BY <2>1, <2>2, <2>3, BondSame
<1>10. CASE cmd_central_setup
  <2>1. Reads("setup")
    BY <1>10 DEF cmd_central_setup, Configures
  <2>2. ~ble_stack_running
    BY <2>1, NotRefused
  <2>3. UNCHANGED <<bondVars, store, todo, loaded>> /\ job'.op = "setup"
    BY <1>10, <2>2 DEF cmd_central_setup, Configures, keyVars
  <2>4. todo = {}
    BY <2>1 DEF Reads, Idle, BondInv, BondsKeyed
  <2> QED BY <1>0, <2>3, <2>4, BondSame
<1>11. CASE save_irk
  <2>1. UNCHANGED <<bondVars, store, todo, loaded>> /\ job'.op = "idle" /\ job.op = "setup"
    BY <1>11 DEF save_irk, keyVars, Idle
  <2>2. todo = {}
    BY <2>1 DEF BondInv, BondsKeyed
  <2> QED BY <1>0, <2>1, <2>2, BondSame
<1>12. CASE cmd_ble_start
  <2>1. CASE ble_stack_running
    BY <1>0, <1>12, <2>1, BondSame DEF cmd_ble_start, keyVars, BondInv, BondsKeyed, HasKey
  <2> QED BY <1>12, <2>1, BondStarted DEF cmd_ble_start
<1>13. CASE clear_storage
  <2>1. Reads("clear")
    BY <1>13 DEF clear_storage, Configures
  <2>2. PICK failed \in EraseFails :
          /\ cmd_settings_clear(failed) /\ Restarted
          /\ bondstore' = IF failed THEN bondstore ELSE {}
    BY <1>13, <2>1, NotRefused DEF clear_storage, Configures
  <2>3. reboot /\ store' = IF failed THEN store ELSE [a \in Addrs |-> NoKey]
    BY <2>2 DEF cmd_settings_clear
  <2>4. bondstore' \subseteq HasKey'
    BY <2>2, <2>3 DEF HasKey, BondInv, BondsKeyed
  <2> QED BY <2>2, <2>3, <2>4, BondRestarted
<1>14. CASE cmd_reboot
  BY <1>14, BondRestarted DEF cmd_reboot, sys_reboot, BondInv, BondsKeyed, HasKey
<1> QED BY <1>1, <1>2, <1>3, <1>4, <1>5, <1>6, <1>7, <1>8, <1>9, <1>10, <1>11, <1>12, <1>13, <1>14
        DEF Shell

LEMMA BondKept ==
  ASSUME Faults = {}, ProvInv, ProvInv', BondInv, TableInv, [PNext]_allVars
  PROVE  BondInv'
<1>1. CASE watchdog \/ power_cut
  BY <1>1, BondRestarted DEF watchdog, power_cut, sys_reboot, BondInv, BondsKeyed, HasKey
<1>2. CASE UNCHANGED stationVars
  BY <1>2 DEF stationVars, keyVars, bondVars, BondInv, BondsKeyed, HasKey, Used
<1> QED BY <1>1, <1>2, BondShell DEF PNext, line_dropped, host_restarted, allVars

LEMMA BondInit == PInit => BondInv
<1> SUFFICES ASSUME PInit PROVE BondInv
  OBVIOUS
<1>1. Used = {} /\ bondstore = {} /\ job.op = "idle" /\ todo = {} /\ loaded = FALSE
  BY DEF PInit, NoBonds, Used, Idle, Init
<1> QED BY <1>1 DEF BondInv, BondsKeyed

\* Bonds and keys go together, and a station that is loaded knows all of both.
THEOREM BondsHaveKeys ==
  ASSUME Faults = {}
  PROVE  PSpec => [](TableInv /\ BondInv)
<1>1. PInit => TableInv
  BY InitSaved, InitLoad DEF PInit, TableInv
<1>2. ProvInv /\ ProvInv' /\ TableInv /\ BondInv /\ [PNext]_allVars => (TableInv /\ BondInv)'
  BY TableInvKept, BondKept
<1> QED BY <1>1, <1>2, BondInit, ProvisioningInvariance, PTL DEF PSpec

\* Nothing that cuts off an addition or a deletion leaves a bond without a key,
\* and no loading bonds a coin twice.
THEOREM NoBondWithoutKey ==
  ASSUME Faults = {}
  PROVE  PSpec => []BondsKeyed
<1>1. BondInv => BondsKeyed
  BY DEF BondInv
<1> QED BY <1>1, BondsHaveKeys, PTL

-----------------------------------------------------------------------------
(* What the station lists.                                                 *)

\* A listing names every slot once.
LEMMA ListingWhole ==
  ASSUME NEW slots \in SUBSET Slot, NEW used \in Listings(slots)
  PROVE  /\ \A n, m \in DOMAIN used : used[n] = used[m] => n = m
         /\ \A i \in slots : \E n \in DOMAIN used : used[n] = i
<1> DEFINE N == Cardinality(slots)
<1>1. /\ N \in Nat /\ DOMAIN used = 1..N /\ used \in [1..N -> slots] /\ IsFiniteSet(slots)
      /\ \A n, m \in 1..N : n < m => used[n] < used[m]
  BY ListingFact, HasKeyFact, FS_Subset DEF Listings
<1> HIDE DEF N
<1>2. \A n \in 1..N : used[n] \in Int
  <2>1. Slot \subseteq Int
    BY SizeAssumption DEF Slot
  <2>2. \A n \in 1..N : used[n] \in slots
    BY <1>1
  <2> QED BY <2>1, <2>2
<1>3. \A n, m \in 1..N : used[n] = used[m] => n = m
  BY <1>1, <1>2
<1>4. used \in Injection(1..N, slots)
  BY <1>1, <1>3 DEF Injection, IsInjective
<1>5. Cardinality(1..N) = N
  BY <1>1, FS_Interval
<1>6. used \in Surjection(1..N, slots)
  BY <1>1, <1>4, <1>5, FS_Injection DEF N
<1> QED BY <1>1, <1>3, <1>6 DEF Surjection

\* The bonds a loaded station lists are those of its store.
LEMMA BondsPrinted ==
  ASSUME ProvInv, BondInv, print_bonds, loaded, bondtodo = {}
  PROVE  \E list \in Seq(Addrs) :
           Answer([of |-> "bonds", list |-> list]) /\ Enumerates(list, bondstore)
<1>1. PICK used \in Listings(Used), list \in Seq(Addrs) :
        /\ list = [n \in DOMAIN used |-> bonds[used[n]]]
        /\ Answer([of |-> "bonds", list |-> list])
  BY BondsAnswer DEF Used
<1>2. Used \in SUBSET Slot
  BY DEF Used
<1>3. /\ DOMAIN used = 1..Cardinality(Used) /\ Cardinality(Used) \in Nat
      /\ \A n \in DOMAIN used : used[n] \in Used
      /\ \A n, m \in DOMAIN used : used[n] = used[m] => n = m
      /\ \A i \in Used : \E n \in DOMAIN used : used[n] = i
  BY <1>2, ListingFact, ListingWhole
<1>4. \A a \in bondstore : \E i \in Used : bonds[i] = a
  BY AddrAssumption DEF BondInv, BondsKeyed, Used, ProvInv, PTypeOK, StationTypeOK
<1>5. Cardinality(Used) = Cardinality(bondstore)
  <2> DEFINE f == [i \in Used |-> bonds[i]]
  <2>1. f \in Bijection(Used, bondstore)
    BY <1>4 DEF BondInv, BondsKeyed, Bijection, Injection, Surjection, IsInjective
  <2>2. IsFiniteSet(Used)
    BY <1>2, HasKeyFact, FS_Subset
  <2> QED BY <2>1, <2>2, FS_Bijection DEF ExistsBijection
<1>6. DOMAIN list = DOMAIN used /\ \A n \in DOMAIN used : list[n] = bonds[used[n]]
  BY <1>1
<1>7. Len(list) = Cardinality(bondstore)
  BY <1>3, <1>5, <1>6
<1>8. \A i \in DOMAIN list : list[i] \in bondstore /\ \A j \in DOMAIN list : list[i] = list[j] => i = j
  BY <1>3, <1>6 DEF BondInv, BondsKeyed
<1>9. \A a \in bondstore : \E i \in DOMAIN list : list[i] = a
  BY <1>3, <1>4, <1>6
<1> QED BY <1>1, <1>7, <1>8, <1>9 DEF Enumerates

\* The keys it lists are the stored ones, each with its first byte.
LEMMA KeysPrinted ==
  ASSUME ProvInv, TableInv, spacekeys_print, loaded
  PROVE  \E list \in Lines :
           /\ Answer([of |-> "keys", list |-> list])
           /\ KeysListed(list) /\ Len(list) = Cardinality(HasKey)
<1> DEFINE slots == {i \in 0..largest_index_used : keys[i].addr # NoAddr}
<1>1. PICK used \in Listings(slots), list \in Lines :
        /\ list = [n \in DOMAIN used |-> <<keys[used[n]].addr, FirstByte[keys[used[n]].key]>>]
        /\ Answer([of |-> "keys", list |-> list])
  BY KeysAnswer
<1>2. slots \in SUBSET Slot /\ slots = {i \in Slot : keys[i].addr # NoAddr}
  BY SizeAssumption DEF ProvInv, IInv, TypeOK, SlotsInOrder, Slot
<1>3. DOMAIN used = 1..Cardinality(slots) /\ \A n \in DOMAIN used : used[n] \in slots
  BY <1>2, ListingFact
<1>4. Cardinality(slots) = Cardinality(HasKey) /\ Cardinality(slots) \in Nat
  <2>1. HasKey = Known
    BY ValueAssumption DEF HasKey, Known, TableInv, LoadInv, Stored
  <2> QED BY <1>2, <2>1, KnownSlots DEF ProvInv
<1>5. DOMAIN list = DOMAIN used /\ Len(list) = Cardinality(HasKey)
  <2> HIDE DEF slots
  <2> QED BY <1>1, <1>3, <1>4
<1>6. KeysListed(list)
  <2> SUFFICES ASSUME NEW n \in DOMAIN list, store[list[n][1]] \in Keys
               PROVE  FirstByte[store[list[n][1]]] = list[n][2]
    BY DEF KeysListed
  <2> DEFINE i == used[n]
             a == keys[i].addr
  <2>1. list[n] = <<a, FirstByte[keys[i].key]>> /\ i \in Slot /\ a # NoAddr
    BY <1>1, <1>2, <1>3, <1>5
  <2>2. a \in Addrs
    BY <2>1 DEF ProvInv, IInv, TypeOK, Entry
  <2> HIDE DEF i
  <2>3. KeyOf(a) = keys[i].key
    BY <2>1, <2>2, KeyFact DEF ProvInv, IInv, SlotsInOrder
  <2>4. KeyOf(a) = store[a]
    BY <2>1, <2>2 DEF TableInv, LoadInv, Stored
  <2> QED BY <2>1, <2>3, <2>4
<1> QED BY <1>1, <1>5, <1>6

-----------------------------------------------------------------------------
(* What the shell does to the store.                                       *)

Quiet     == /\ UNCHANGED <<store, bondstore>>
             /\ \/ job' = job
                \/ job'.op \in {"idle", "load", "ble", "setup"} /\ job.op \notin {"add", "del"}
AddsKey   == /\ job = Idle /\ cmd # <<>> /\ cmd[1].op = "add"
             /\ UNCHANGED <<bondstore, out>>
             /\ \A b \in Addrs : b # cmd[1].addr => store'[b] = store[b]
             /\ \/ store'[cmd[1].addr] = cmd[1].key /\ job' = [op |-> "add", addr |-> cmd[1].addr]
                \/ UNCHANGED store /\ job' = Idle
AddsBond  == /\ job.op = "add" /\ job' = Idle /\ Done
             /\ bondstore' = bondstore \cup {job.addr} /\ UNCHANGED store
DropsBond == /\ job = Idle /\ cmd # <<>> /\ cmd[1].op = "del"
             /\ job' = [op |-> "del", addr |-> cmd[1].addr] /\ UNCHANGED out
             /\ bondstore' = bondstore \ {cmd[1].addr} /\ UNCHANGED store
DropsKey  == /\ job.op = "del" /\ job' = Idle /\ Done
             /\ \A b \in Addrs : b # job.addr => store'[b] = store[b]
             /\ store'[job.addr] \notin Keys /\ UNCHANGED bondstore
Clears    == /\ job = Idle /\ cmd # <<>> /\ cmd[1].op = "clear" /\ Restarted
             /\ bondstore' = {} /\ store' = [b \in Addrs |-> NoKey]

StoreStep == Quiet \/ AddsKey \/ AddsBond \/ DropsBond \/ DropsKey \/ Clears

LEMMA StoreKinds ==
  ASSUME Faults = {}, ProvInv, ProvInv', TableInv, BondInv, Shell
  PROVE  StoreStep
<1>0. IInv /\ IInv' /\ store \in [Addrs -> Keys \cup {NoKey, Deleted}]
      /\ (cmd # <<>> => Head(cmd) = cmd[1] /\ cmd[1] \in Command)
  BY HeadFact DEF ProvInv, IInv, TypeOK
<1>1. CASE cmd_settings_load
  <2>1. Reads("load")
    BY <1>1 DEF cmd_settings_load, Configures
  <2>2. LoadAll("load")
    BY <1>1, <2>1, NotRefused DEF cmd_settings_load, Configures
  <2> QED BY <2>1, <2>2 DEF Reads, Idle, LoadAll, settings_load, Quiet, StoreStep
<1>2. CASE deliver_key \/ deliver_bond \/ settings_loaded \/ cmd_print
  BY <1>2, JobFact DEF deliver_key, deliver_bond, settings_loaded, cmd_print, space_settings_set, Quiet, StoreStep,
              Idle, bondVars, keyVars, stationVars
<1>3. CASE cmd_coin_add
  <2>1. Reads("add")
    BY <1>3 DEF cmd_coin_add, Configures
  <2>2. /\ spacekey_add(cmd[1].addr, cmd[1].key) /\ UNCHANGED <<bondstore, out>>
        /\ job' = IF result' = "ok" THEN [op |-> "add", addr |-> cmd[1].addr] ELSE Idle
    BY <1>0, <1>3, <2>1, NotRefused DEF cmd_coin_add, Configures, bondVars, Reads
  <2>3. /\ result' # "ok" => UNCHANGED store
        /\ result' = "ok" => store' = [store EXCEPT ![cmd[1].addr] = cmd[1].key]
    BY <2>2 DEF spacekey_add, SaveRecord
  <2>4. cmd[1].addr \in Addrs
    BY <1>0, <2>1 DEF Reads, Command
  <2> QED BY <1>0, <2>1, <2>2, <2>3, <2>4 DEF Reads, AddsKey, StoreStep
<1>4. CASE bt_keys_store
  BY <1>4 DEF bt_keys_store, keyVars, AddsBond, StoreStep
<1>5. CASE cmd_coin_del
  <2>1. Reads("del")
    BY <1>5 DEF cmd_coin_del, Configures
  <2>2. job' = [op |-> "del", addr |-> cmd[1].addr] /\ UNCHANGED <<store, out>>
    BY <1>0, <1>5, <2>1, NotRefused DEF cmd_coin_del, Configures, keyVars, Reads
  <2>3. bondstore' = bondstore \ {cmd[1].addr}
    BY <1>0, <1>5, <2>1, BondDeleted DEF Reads
  <2> QED BY <1>0, <2>1, <2>2, <2>3 DEF Reads, DropsBond, StoreStep
<1>6. CASE del_spacekey
  <2>1. job.op = "del" /\ job.addr \in Addrs /\ job' = Idle /\ spacekey_del(job.addr) /\ Done
        /\ UNCHANGED bondstore
    BY <1>6 DEF del_spacekey, bondVars, ProvInv, PTypeOK, StationTypeOK, Job
  <2>2. /\ \A b \in Addrs \ {job.addr} : store'[b] = store[b]
        /\ store'[job.addr] = Deleted
           \/ (KeyOf(job.addr) = NoKey /\ store'[job.addr] = store[job.addr])
    BY <1>0, <2>1, DelEffect
  <2>3. loaded
    BY <2>1 DEF ProvInv, LoadedInv
  <2>4. KeyOf(job.addr) = Stored(job.addr)
    BY <2>1, <2>3 DEF TableInv, LoadInv
  <2>5. store'[job.addr] \notin Keys
    BY <2>2, <2>4, ValueAssumption DEF Stored
  <2> QED BY <2>1, <2>2, <2>5 DEF DropsKey, StoreStep
<1>7. CASE cmd_central_setup
  <2>1. Reads("setup")
    BY <1>7 DEF cmd_central_setup, Configures
  <2>2. UNCHANGED <<store, bondstore>> /\ job'.op = "setup"
    BY <1>7, <2>1, NotRefused DEF cmd_central_setup, Configures, keyVars, bondVars
  <2> QED BY <2>1, <2>2 DEF Reads, Idle, Quiet, StoreStep
<1>8. CASE save_irk \/ cmd_ble_start
  BY <1>8 DEF Reads, save_irk, cmd_ble_start, LoadAll, settings_load, keyVars, bondVars, Quiet, Idle, StoreStep
<1>9. CASE clear_storage
  <2>1. Reads("clear")
    BY <1>9 DEF clear_storage, Configures
  <2>2. PICK failed \in EraseFails :
          /\ cmd_settings_clear(failed) /\ Restarted
          /\ bondstore' = IF failed THEN bondstore ELSE {}
    BY <1>9, <2>1, NotRefused DEF clear_storage, Configures
  <2>3. ~failed
    BY Zenon DEF EraseFails
  <2> QED BY <1>0, <2>1, <2>2, <2>3 DEF cmd_settings_clear, Clears, Reads, StoreStep
<1>10. CASE cmd_reboot
  BY <1>10 DEF cmd_reboot, Reads, Restarted, sys_reboot, Quiet, Idle, StoreStep
<1> QED BY <1>1, <1>2, <1>3, <1>4, <1>5, <1>6, <1>7, <1>8, <1>9, <1>10 DEF Shell

\* What the shell answers the script, while that waits for a list above all.
Says ==
  \/ UNCHANGED out
  \/ \E a \in Answers :
       /\ port = "open" /\ out' = Append(out, a)
       /\ pc = "bonds" /\ a.of = "bonds" => Enumerates(a.list, bondstore)
       /\ pc = "keys" /\ a.of = "keys" => KeysListed(a.list) /\ Len(a.list) = Cardinality(HasKey)
       /\ a.of = "load" => a.id = id /\ job.op = "load"

LEMMA SaidFact ==
  ASSUME ProvInv, TableInv, BondInv, Shell
  PROVE  Says
<1>1. CASE cmd_print
  <2>1. ASSUME Reads("bonds"), print_bonds, port = "open", pc = "bonds"
        PROVE  \E a \in Answers : out' = Append(out, a) /\ a.of = "bonds" /\ Enumerates(a.list, bondstore)
    <3>1. loaded
      BY <2>1 DEF ProvInv, LoadedInv, Told, waiting
    <3>2. bondtodo = {}
      BY <2>1 DEF Reads, Idle, ProvInv, PTypeOK, StationTypeOK
    <3>3. PICK list \in Seq(Addrs) :
            Answer([of |-> "bonds", list |-> list]) /\ Enumerates(list, bondstore)
      BY <2>1, <3>1, <3>2, BondsPrinted
    <3>4. PICK a \in Answers : a = [of |-> "bonds", list |-> list]
      BY DEF Answers
    <3> QED BY <2>1, <3>3, <3>4 DEF Answer
  <2>2. ASSUME Reads("keys"), spacekeys_print, port = "open", pc = "keys"
        PROVE  \E a \in Answers : /\ out' = Append(out, a) /\ a.of = "keys" /\ KeysListed(a.list)
                                  /\ Len(a.list) = Cardinality(HasKey)
    <3>1. loaded
      BY <2>2 DEF ProvInv, LoadedInv, Told, waiting
    <3>2. PICK list \in Lines :
            /\ Answer([of |-> "keys", list |-> list])
            /\ KeysListed(list) /\ Len(list) = Cardinality(HasKey)
      BY <2>2, <3>1, KeysPrinted
    <3>3. PICK a \in Answers : a = [of |-> "keys", list |-> list]
      BY DEF Answers
    <3> QED BY <2>2, <3>2, <3>3 DEF Answer
  <2>3. ASSUME Reads("bonds"), print_bonds, port = "open", pc # "bonds"
        PROVE  \E a \in Answers : out' = Append(out, a) /\ a.of = "bonds"
    <3>1. PICK list \in Seq(Addrs) : Answer([of |-> "bonds", list |-> list])
      BY <2>3, BondsAnswer
    <3>2. PICK a \in Answers : a = [of |-> "bonds", list |-> list]
      BY DEF Answers
    <3> QED BY <2>3, <3>1, <3>2 DEF Answer
  <2>4. ASSUME Reads("keys"), spacekeys_print, port = "open", pc # "keys"
        PROVE  \E a \in Answers : out' = Append(out, a) /\ a.of = "keys"
    <3>1. PICK list \in Lines : Answer([of |-> "keys", list |-> list])
      BY <2>4, KeysAnswer
    <3>2. PICK a \in Answers : a = [of |-> "keys", list |-> list]
      BY DEF Answers
    <3> QED BY <2>4, <3>1, <3>2 DEF Answer
  <2>5. port # "open" => UNCHANGED out
    BY <1>1 DEF cmd_print, print_bonds, spacekeys_print, Answer
  <2>6. (Reads("bonds") /\ print_bonds) \/ (Reads("keys") /\ spacekeys_print)
    BY <1>1 DEF cmd_print
  <2> QED BY <2>1, <2>2, <2>3, <2>4, <2>5, <2>6 DEF Says
<1>2. CASE Finishes
  <2>1. [of |-> "load", id |-> id] \in Answers /\ [of |-> "done"] \in Answers
    BY DEF Answers, ProvInv, PTypeOK, StationTypeOK
  <2> QED BY <1>2, <2>1 DEF Finishes, Answer, Done, Says
<1>3. CASE Silent \/ Begins \/ Restarted
  BY <1>3 DEF Silent, lineVars, Begins, Restarted, Says
<1> QED BY <1>1, <1>2, <1>3, ShellKinds

=============================================================================
