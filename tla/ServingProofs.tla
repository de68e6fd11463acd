----------------------------- MODULE ServingProofs --------------------------
(* Theorems about what serves for a long time: outline-cli, the Psiphon     *)
(* dialer, a WebSocket connection, the local web proxy, and all parts of    *)
(* Serving together, for every set of callers, clients, Starts and Stops    *)
(* and every bound.  outline-cli: what a run has deferred is always the     *)
(* last few of five calls, so an invariant can say, for each of them, that  *)
(* what the run found is still in place or is about to be put back.         *)
EXTENDS Serving, IpDeviceProofs, SequenceTheorems

(* ------------------------------ outline-cli ------------------------------ *)
\* The calls that are deferred when the k-th and all before it have been.
D0 == <<>>
D1 == <<"tun.Close">>
D2 == <<"enableIPv6", "tun.Close">>
D3 == <<"ss.Close", "enableIPv6", "tun.Close">>
D4 == <<"restoreSystemDNSServer", "ss.Close", "enableIPv6", "tun.Close">>
D5 == <<"stopRouting", "restoreSystemDNSServer", "ss.Close", "enableIPv6", "tun.Close">>

SettingUp == {"tun", "ipv6", "server", "device", "resolv.conf", "resolv.conf.head",
              "subnet", "gateway", "rule", "signal"}

\* What each step of the setting up has deferred before it.
DeferredBefore ==
  /\ step \in {"exited", "tun"} => deferred = D0
  /\ step = "ipv6" => deferred = D1
  /\ step \in {"server", "device"} => deferred = D2
  /\ step \in {"resolv.conf", "resolv.conf.head"} => deferred = D3
  /\ step \in {"subnet", "gateway", "rule"} => deferred = D4
  /\ step = "signal" => deferred = D5
  /\ step = "unwind" => deferred \in {D0, D1, D2, D3, D4, D5} /\ how # "none"
  /\ step \in SettingUp \cup {"unwind", "exited"}

\* The device lives no longer than the call that closes it is deferred, and
\* takes its routes with it; the settings were found without them.
DeviceDeferred ==
  /\ deferred = D0 => tun = "none" /\ table = {}
  /\ found \in [ipv6 : BOOLEAN, table : {{}}, rule : BOOLEAN, conf : [Files -> Contents]]

\* Unless a call has failed: IPv6 is as it was found, or what was found is
\* about to be put back.
IPv6Deferred ==
  step # "exited" /\ ~broken =>
    IF deferred \in {D0, D1} THEN ipv6 = found.ipv6 ELSE prevIPv6 = found.ipv6

\* So is the rule, when all has been set up.
RuleDeferred ==
  /\ step \in SettingUp \ {"signal"} => rule = found.rule
  /\ step = "signal" \/ (step = "unwind" /\ how = "signal") => ~found.rule
  /\ step = "unwind" /\ how = "signal" /\ ~broken /\ deferred # D5 => ~rule

\* So is every resolver file that was touched; the others are as they were.
FilesDeferred ==
  /\ step \in {"tun", "ipv6", "server", "device", "resolv.conf"} => backups = {}
  /\ step = "resolv.conf.head" => backups \subseteq {"resolv.conf"}
  /\ step # "exited" => \A f \in Files \ backups : Settings.conf[f] = found.conf[f]
  /\ \A f \in backups :
       /\ step \in SettingUp \/ (step = "unwind" /\ ~broken /\ deferred \in {D4, D5})
            => backup[f] = found.conf[f]
       /\ step = "unwind" /\ how = "signal" /\ ~broken /\ deferred \notin {D4, D5}
            => Settings.conf[f] = found.conf[f]
  /\ step \in SettingUp => ~broken /\ how = "none"

CliInv == CliTypeOK /\ DeferredBefore /\ DeviceDeferred /\ IPv6Deferred /\ RuleDeferred
            /\ FilesDeferred

\* What pushing an element on a sequence makes.
LEMMA Push ==
  ASSUME NEW S, NEW x \in S, NEW s \in Seq(S), NEW t \in Seq(S),
         Len(t) = Len(s) + 1, t[1] = x, \A i \in 1 .. Len(s) : t[i + 1] = s[i]
  PROVE  <<x>> \o s = t
<1> DEFINE u == <<x>> \o s
<1>1. u \in Seq(S) /\ Len(u) = Len(t)
  OBVIOUS
<1>2. \A i \in 1 .. Len(u) : u[i] = t[i]
  <2> SUFFICES ASSUME NEW i \in 1 .. Len(u) PROVE u[i] = t[i]
    OBVIOUS
  <2>1. CASE i = 1
    BY <2>1
  <2>2. CASE i # 1
    <3>1. i - 1 \in 1 .. Len(s) /\ u[i] = s[i - 1]
      BY <2>2, <1>1
    <3>2. t[(i - 1) + 1] = s[i - 1] /\ (i - 1) + 1 = i
      BY <3>1
    <3> QED
      BY <3>1, <3>2
  <2> QED
    BY <2>1, <2>2
<1> QED
  BY <1>1, <1>2, SeqEqual

\* Deferring pushes the next call, and unwinding pops it.
LEMMA Stacked ==
  /\ <<"tun.Close">> \o D0 = D1 /\ <<"enableIPv6">> \o D1 = D2 /\ <<"ss.Close">> \o D2 = D3
  /\ <<"restoreSystemDNSServer">> \o D3 = D4 /\ <<"stopRouting">> \o D4 = D5
  /\ Tail(D1) = D0 /\ Tail(D2) = D1 /\ Tail(D3) = D2 /\ Tail(D4) = D3 /\ Tail(D5) = D4
  /\ Head(D1) = "tun.Close" /\ Head(D2) = "enableIPv6" /\ Head(D3) = "ss.Close"
  /\ Head(D4) = "restoreSystemDNSServer" /\ Head(D5) = "stopRouting"
<1> DEFINE Calls == {"tun.Close", "enableIPv6", "ss.Close", "restoreSystemDNSServer",
                     "stopRouting"}
<1> USE DEF D0, D1, D2, D3, D4, D5
<1>0. /\ D0 \in Seq(Calls) /\ D1 \in Seq(Calls) /\ D2 \in Seq(Calls)
      /\ D3 \in Seq(Calls) /\ D4 \in Seq(Calls) /\ D5 \in Seq(Calls)
  OBVIOUS
<1>1. <<"tun.Close">> \o D0 = D1
  <2>1. Len(D1) = Len(D0) + 1 /\ D1[1] = "tun.Close" /\ "tun.Close" \in Calls
    OBVIOUS
  <2>2. \A i \in 1 .. Len(D0) : D1[i + 1] = D0[i]
    OBVIOUS
  <2> HIDE DEF D0, D1, D2, D3, D4, D5, Calls
  <2> QED
    BY <1>0, <2>1, <2>2, Push
<1>2. <<"enableIPv6">> \o D1 = D2
  <2>1. Len(D2) = Len(D1) + 1 /\ D2[1] = "enableIPv6" /\ "enableIPv6" \in Calls
    OBVIOUS
  <2>2. \A i \in 1 .. Len(D1) : D2[i + 1] = D1[i]
    OBVIOUS
  <2> HIDE DEF D0, D1, D2, D3, D4, D5, Calls
  <2> QED
    BY <1>0, <2>1, <2>2, Push
<1>3. <<"ss.Close">> \o D2 = D3
  <2>1. Len(D3) = Len(D2) + 1 /\ D3[1] = "ss.Close" /\ "ss.Close" \in Calls
    OBVIOUS
  <2>2. \A i \in 1 .. Len(D2) : D3[i + 1] = D2[i]
    OBVIOUS
  <2> HIDE DEF D0, D1, D2, D3, D4, D5, Calls
  <2> QED
    BY <1>0, <2>1, <2>2, Push
<1>4. <<"restoreSystemDNSServer">> \o D3 = D4
  <2>1. Len(D4) = Len(D3) + 1 /\ D4[1] = "restoreSystemDNSServer"
        /\ "restoreSystemDNSServer" \in Calls
    OBVIOUS
  <2>2. \A i \in 1 .. Len(D3) : D4[i + 1] = D3[i]
    OBVIOUS
  <2> HIDE DEF D0, D1, D2, D3, D4, D5, Calls
  <2> QED
    BY <1>0, <2>1, <2>2, Push
<1>5. <<"stopRouting">> \o D4 = D5
  <2>1. Len(D5) = Len(D4) + 1 /\ D5[1] = "stopRouting" /\ "stopRouting" \in Calls
    OBVIOUS
  <2>2. \A i \in 1 .. Len(D4) : D5[i + 1] = D4[i]
    OBVIOUS
  <2> HIDE DEF D0, D1, D2, D3, D4, D5, Calls
  <2> QED
    BY <1>0, <2>1, <2>2, Push
<1>6. Tail(D1) = D0 /\ Tail(D2) = D1 /\ Tail(D3) = D2 /\ Tail(D4) = D3 /\ Tail(D5) = D4
  OBVIOUS
<1>7. /\ Head(D1) = "tun.Close" /\ Head(D2) = "enableIPv6" /\ Head(D3) = "ss.Close"
      /\ Head(D4) = "restoreSystemDNSServer" /\ Head(D5) = "stopRouting"
  OBVIOUS
<1> QED
  BY <1>1, <1>2, <1>3, <1>4, <1>5, <1>6, <1>7

\* No two of them are the same.
LEMMA Stacks ==
  /\ D0 # D1 /\ D0 # D2 /\ D0 # D3 /\ D0 # D4 /\ D0 # D5
  /\ D1 # D2 /\ D1 # D3 /\ D1 # D4 /\ D1 # D5
  /\ D2 # D3 /\ D2 # D4 /\ D2 # D5 /\ D3 # D4 /\ D3 # D5 /\ D4 # D5
<1>1. Len(D0) = 0 /\ Len(D1) = 1 /\ Len(D2) = 2 /\ Len(D3) = 3 /\ Len(D4) = 4 /\ Len(D5) = 5
  BY DEF D0, D1, D2, D3, D4, D5
<1>2. 0 # 1 /\ 0 # 2 /\ 0 # 3 /\ 0 # 4 /\ 0 # 5 /\ 1 # 2 /\ 1 # 3 /\ 1 # 4 /\ 1 # 5
        /\ 2 # 3 /\ 2 # 4 /\ 2 # 5 /\ 3 # 4 /\ 3 # 5 /\ 4 # 5
  OBVIOUS
<1> QED
  BY <1>1, <1>2, Zenon

\* A call that is popped determines what was deferred, and what still is.
LEMMA Popped ==
  ASSUME CliInv, NEW call, Pop(call)
  PROVE  /\ step = "unwind" /\ step' = "unwind"
         /\ call = "stopRouting" => deferred = D5 /\ deferred' = D4
         /\ call = "restoreSystemDNSServer" => deferred = D4 /\ deferred' = D3
         /\ call = "ss.Close" => deferred = D3 /\ deferred' = D2
         /\ call = "enableIPv6" => deferred = D2 /\ deferred' = D1
         /\ call = "tun.Close" => deferred = D1 /\ deferred' = D0
         /\ UNCHANGED <<runs, how, found, prevIPv6, backups>>
<1>1. deferred \in {D1, D2, D3, D4, D5} /\ Head(deferred) = call /\ deferred' = Tail(deferred)
  BY DEF CliInv, DeferredBefore, Pop, D0
<1> QED
  BY <1>1, Stacked DEF Pop

\* A machine on which no run has begun satisfies the invariant.
LEMMA CliInitInv == CliInit => CliInv
<1> SUFFICES ASSUME CliInit PROVE CliInv
  OBVIOUS
<1>1. CliTypeOK
  <2>1. runs \in 0 .. MaxRuns /\ conf \in [Files -> Contents] /\ backup \in [Files -> Contents]
    BY CliAssumption DEF CliInit, Contents
  <2> QED
    BY <2>1 DEF CliInit, CliTypeOK
<1>2. found \in [ipv6 : BOOLEAN, table : {{}}, rule : BOOLEAN, conf : [Files -> Contents]]
  BY DEF CliInit, Settings, Contents
<1> QED
  BY <1>1, <1>2, Stacks DEF CliInit, CliInv, DeferredBefore, DeviceDeferred, IPv6Deferred,
     RuleDeferred, FilesDeferred, SettingUp, D0

\* A run begins with what it finds, or a process ends.
LEMMA RunKeeps == CliInv /\ (Run \/ Killed \/ WaitReturns \/ Signal) => CliInv'
<1> SUFFICES ASSUME CliInv, Run \/ Killed \/ WaitReturns \/ Signal PROVE CliInv'
  OBVIOUS
<1>1. CASE Run
  <2>1. /\ step' = "tun" /\ deferred' = D0 /\ UNCHANGED osVars /\ backups' = {} /\ ~broken'
        /\ how' = "none" /\ tun = "none" /\ table = {} /\ found' = Settings
    BY <1>1 DEF Run, Forget, D0, CliInv, DeferredBefore, DeviceDeferred
  <2>2. CliTypeOK'
    <3>1. runs' \in 0 .. MaxRuns
      BY <1>1, CliAssumption DEF CliInv, CliTypeOK, Run
    <3> QED
      BY <1>1, <3>1 DEF CliInv, CliTypeOK, Run, Forget, osVars
  <2>3. found' \in [ipv6 : BOOLEAN, table : {{}}, rule : BOOLEAN, conf : [Files -> Contents]]
    BY <2>1 DEF Settings, CliInv, CliTypeOK
  <2>4. Settings' = Settings /\ Settings.ipv6 = ipv6 /\ Settings.rule = rule
    BY <2>1 DEF osVars, Settings
  <2> QED
    BY <2>1, <2>2, <2>3, <2>4, Stacks DEF osVars, CliInv, DeferredBefore, DeviceDeferred,
       IPv6Deferred, RuleDeferred, FilesDeferred, SettingUp
<1>2. CASE Killed
  <2>1. /\ step' = "exited" /\ deferred' = D0 /\ backups' = {} /\ tun' = "none" /\ table' = {}
        /\ UNCHANGED found
    BY <1>2 DEF Killed, Forget, D0
  <2>2. CliTypeOK'
    BY <1>2 DEF CliInv, CliTypeOK, Killed, Forget
  <2> QED
    BY <2>1, <2>2 DEF CliInv, DeferredBefore, DeviceDeferred, IPv6Deferred, RuleDeferred,
       FilesDeferred, SettingUp
<1>3. CASE WaitReturns
  <2>1. step' = "exited" /\ deferred = D0 /\ UNCHANGED <<runs, runVars, osVars, found>>
    BY <1>3 DEF WaitReturns, D0
  <2> QED
    BY <2>1 DEF runVars, osVars, CliInv, CliTypeOK, DeferredBefore, DeviceDeferred, IPv6Deferred,
       RuleDeferred, FilesDeferred, SettingUp
<1>4. CASE Signal
  <2>1. Settings' = Settings
    BY <1>4 DEF Signal, Settings, osVars
  <2> QED
    BY <1>4, <2>1, Stacks DEF Signal, osVars, CliInv, CliTypeOK, DeferredBefore, DeviceDeferred, IPv6Deferred,
       RuleDeferred, FilesDeferred, SettingUp
<1> QED
  BY <1>1, <1>2, <1>3, <1>4

\* A step that fails changes nothing that its run found, but may have moved
\* away one more of the files.
LEMMA UnwindKeeps ==
  ASSUME CliInv, NEW from \in SettingUp \ {"signal"}, Unwind(from),
         UNCHANGED <<tun, ipv6, table, device, copies, prevIPv6>>,
         ipRule' \in BOOLEAN, rule' \in BOOLEAN,
         \/ UNCHANGED <<conf, backup, backups>>
         \/ \E f \in Files : from = f /\ BackupFile(f)
  PROVE  CliInv'
<1>1. /\ step = from /\ step' = "unwind" /\ how' = "error"
      /\ UNCHANGED <<runs, deferred, broken, found>>
  BY DEF Unwind
<1>2. deferred \in {D0, D1, D2, D3, D4, D5} /\ ~broken
  BY <1>1 DEF CliInv, DeferredBefore, SettingUp, FilesDeferred
<1>3. CASE UNCHANGED <<conf, backup, backups>>
  <2>1. CliTypeOK'
    BY <1>1, <1>3 DEF CliInv, CliTypeOK
  <2>2. Settings'.conf = Settings.conf
    BY <1>3 DEF Settings
  <2>3. FilesDeferred'
    BY <1>1, <1>3, <2>2, <1>2 DEF CliInv, FilesDeferred, SettingUp
  <2> QED
    BY <1>1, <1>2, <2>1, <2>3 DEF CliInv, DeferredBefore, DeviceDeferred, IPv6Deferred, RuleDeferred,
       SettingUp
<1>4. ASSUME NEW f \in Files, from = f, BackupFile(f) PROVE CliInv'
  <2>1. CliTypeOK'
    BY <1>1, <1>4 DEF CliInv, CliTypeOK, BackupFile, Contents
  <2>2. \A g \in Files \ backups' : Settings'.conf[g] = Settings.conf[g]
    BY <1>4 DEF Settings, BackupFile, CliInv, CliTypeOK
  <2>3. deferred = D3 /\ backups' = backups \cup {f}
    BY <1>1, <1>4 DEF CliInv, DeferredBefore, BackupFile, Files
  <2>4. FilesDeferred'
    BY <1>1, <1>2, <2>2, <2>3, Stacks DEF CliInv, FilesDeferred, SettingUp
  <2> QED
    BY <1>1, <1>2, <2>1, <2>4 DEF CliInv, DeferredBefore, DeviceDeferred, IPv6Deferred, RuleDeferred,
       SettingUp
<1> QED
  BY <1>3, <1>4

\* Each step of the setting up keeps what it found, and defers what restores it.
LEMMA SetupKeeps ==
  CliInv /\ (NewTunDevice \/ EnableIPv6 \/ ResolveServerIP \/ NewOutlineDevice) => CliInv'
<1> SUFFICES ASSUME CliInv, NewTunDevice \/ EnableIPv6 \/ ResolveServerIP \/ NewOutlineDevice
             PROVE  CliInv'
  OBVIOUS
<1>1. ASSUME NEW from \in {"tun", "ipv6", "server", "device"}, Unwind(from),
             UNCHANGED <<device, copies, prevIPv6, backups, ipRule, osVars>>
      PROVE  CliInv'
  BY <1>1, UnwindKeeps DEF osVars, SettingUp, CliInv, CliTypeOK
<1>2. ASSUME Continue("tun", "ipv6", "tun.Close"), BringUp,
             UNCHANGED <<device, copies, prevIPv6, backups, ipRule, ipv6, conf, backup, table, rule>>
      PROVE  CliInv'
  <2>1. step = "tun" /\ step' = "ipv6" /\ deferred = D0 /\ deferred' = D1 /\ tun' = "up"
    BY <1>2, Stacked DEF Continue, CliInv, DeferredBefore, BringUp
  <2>2. Settings'.conf = Settings.conf /\ UNCHANGED <<runs, how, broken, found>>
    BY <1>2 DEF Settings, Continue
  <2> QED
    BY <1>2, <2>1, <2>2, Stacks DEF CliInv, CliTypeOK, DeferredBefore, DeviceDeferred, IPv6Deferred, RuleDeferred,
       FilesDeferred, SettingUp
<1>3. ASSUME Continue("ipv6", "server", "enableIPv6"), prevIPv6' = ipv6, ipv6' = FALSE,
             UNCHANGED <<device, copies, backups, ipRule, tun, conf, backup, table, rule>>
      PROVE  CliInv'
  <2>1. step = "ipv6" /\ step' = "server" /\ deferred = D1 /\ deferred' = D2
    BY <1>3, Stacked DEF Continue, CliInv, DeferredBefore
  <2>2. Settings'.conf = Settings.conf /\ UNCHANGED <<runs, how, broken, found>>
    BY <1>3 DEF Settings, Continue
  <2> QED
    BY <1>3, <2>1, <2>2, Stacks, ZenonT(60) DEF CliInv, CliTypeOK, DeferredBefore, DeviceDeferred, IPv6Deferred, RuleDeferred,
       FilesDeferred, SettingUp
<1>4. ASSUME Continue("server", "device", "none"),
             UNCHANGED <<device, copies, prevIPv6, backups, ipRule, osVars>>
      PROVE  CliInv'
  <2>1. step = "server" /\ step' = "device" /\ deferred' = deferred
    BY <1>4 DEF Continue
  <2>2. Settings'.conf = Settings.conf /\ UNCHANGED <<runs, how, broken, found>>
    BY <1>4 DEF Settings, Continue, osVars
  <2> QED
    BY <1>4, <2>1, <2>2 DEF osVars, CliInv, CliTypeOK, DeferredBefore, DeviceDeferred, IPv6Deferred, RuleDeferred,
       FilesDeferred, SettingUp
<1>5. ASSUME Continue("device", "resolv.conf", "ss.Close"), device' = "open",
             copies' = [c \in {"up", "down"} |-> "copying"],
             UNCHANGED <<prevIPv6, backups, ipRule, osVars>>
      PROVE  CliInv'
  <2>1. step = "device" /\ step' = "resolv.conf" /\ deferred = D2 /\ deferred' = D3
    BY <1>5, Stacked DEF Continue, CliInv, DeferredBefore
  <2>2. Settings'.conf = Settings.conf /\ UNCHANGED <<runs, how, broken, found>>
    BY <1>5 DEF Settings, Continue, osVars
  <2>3. copies' \in [{"up", "down"} -> {"none", "copying", "stuck", "ended"}]
    BY <1>5
  <2> QED
    BY <1>5, <2>1, <2>2, <2>3, Stacks DEF osVars, CliInv, CliTypeOK, DeferredBefore, DeviceDeferred, IPv6Deferred, RuleDeferred,
       FilesDeferred, SettingUp
<1> QED
  BY <1>1, <1>2, <1>3, <1>4, <1>5 DEF NewTunDevice, EnableIPv6, ResolveServerIP, NewOutlineDevice

\* Setting a resolver file, the routes and the rule do so too.
LEMMA ResolverKeeps == ASSUME CliInv, NEW f \in Files, SetSystemDNSServer(f) PROVE CliInv'
<1>1. CASE Unwind(f)
  <2>1. BackupFile(f) \/ UNCHANGED <<conf, backup, backups>>
    BY <1>1 DEF SetSystemDNSServer, Unwind, Continue, Files
  <2> QED
    BY <1>1, <2>1, UnwindKeeps DEF SetSystemDNSServer, Unwind, Continue, Files, SettingUp, CliInv, CliTypeOK
<1>2. CASE ~Unwind(f)
  <2>1. /\ step = f /\ step' = (IF f = "resolv.conf.head" THEN "subnet" ELSE "resolv.conf.head")
        /\ deferred = D3 /\ deferred' = (IF f = "resolv.conf.head" THEN D4 ELSE D3)
    BY <1>2, Stacked, ZenonT(60) DEF SetSystemDNSServer, Continue, CliInv, DeferredBefore, Files
  <2>2. /\ backup' = [backup EXCEPT ![f] = IF conf[f] = "none" THEN @ ELSE conf[f]]
        /\ conf' = [conf EXCEPT ![f] = "cli"] /\ backups' = backups \cup {f}
        /\ UNCHANGED <<runs, how, broken, found, device, copies, prevIPv6, ipRule, tun, ipv6, table, rule>>
    BY <1>2 DEF SetSystemDNSServer, Continue
  <2>3. CliTypeOK'
    BY <2>2 DEF CliInv, CliTypeOK, Contents
  <2>4. f \notin backups
    BY <2>1 DEF CliInv, FilesDeferred, Files
  <2>5. backup'[f] = Settings.conf[f]
    BY <2>2 DEF Settings, CliInv, CliTypeOK
  <2>6. /\ \A g \in Files \ {f} : Settings'.conf[g] = Settings.conf[g] /\ backup'[g] = backup[g]
        /\ backup'[f] = found.conf[f]
    BY <2>1, <2>2, <2>4, <2>5 DEF Settings, CliInv, CliTypeOK, FilesDeferred, Files
  <2>7. FilesDeferred'
    BY <2>1, <2>2, <2>6 DEF CliInv, FilesDeferred, SettingUp, Files
  <2> QED
    BY <2>1, <2>2, <2>3, <2>7, Stacks DEF CliInv, DeferredBefore, DeviceDeferred, IPv6Deferred, RuleDeferred,
       SettingUp, Files
<1> QED
  BY <1>1, <1>2

\* The routes.
LEMMA RoutingKeeps == ASSUME CliInv, NEW r \in Routes, SetupRoutingTable(r) PROVE CliInv'
<1>1. CASE Unwind(r)
  BY <1>1, UnwindKeeps DEF SetupRoutingTable, Unwind, Continue, Routes, SettingUp, osVars, CliInv, CliTypeOK
<1>2. CASE ~Unwind(r)
  <2>1. /\ step = r /\ step' = (IF r = "subnet" THEN "gateway" ELSE "rule")
        /\ deferred = D4 /\ deferred' = D4 /\ table' = table \cup {r}
        /\ UNCHANGED <<runs, how, broken, found, device, copies, prevIPv6, backups, ipRule, tun, ipv6,
                       conf, backup, rule>>
    BY <1>2 DEF SetupRoutingTable, Continue, CliInv, DeferredBefore, Routes
  <2>2. Settings'.conf = Settings.conf
    BY <2>1 DEF Settings
  <2> QED
    BY <2>1, <2>2, Stacks DEF CliInv, CliTypeOK, DeferredBefore, DeviceDeferred, IPv6Deferred, RuleDeferred,
       FilesDeferred, SettingUp, Routes
<1> QED
  BY <1>1, <1>2

\* The rule.
LEMMA RuleKeeps == CliInv /\ SetupIpRule => CliInv'
<1> SUFFICES ASSUME CliInv, SetupIpRule PROVE CliInv'
  OBVIOUS
<1>1. CASE Unwind("rule")
  <2>1. UNCHANGED <<device, copies, prevIPv6, backups, tun, ipv6, conf, backup, table>>
    BY DEF SetupIpRule
  <2>2. rule' \in BOOLEAN /\ ipRule' \in BOOLEAN
    BY <1>1 DEF SetupIpRule, CleanUpRule, Unwind, Continue, CliInv, CliTypeOK
  <2> QED
    BY <1>1, <2>1, <2>2, UnwindKeeps DEF SettingUp
<1>2. CASE ~Unwind("rule")
  <2>1. /\ step = "rule" /\ step' = "signal" /\ ~rule /\ rule' = TRUE /\ ipRule' = TRUE
        /\ deferred = D4 /\ deferred' = D5
        /\ UNCHANGED <<runs, how, broken, found, device, copies, prevIPv6, backups, tun, ipv6,
                       conf, backup, table>>
    BY <1>2, Stacked DEF SetupIpRule, Continue, CliInv, DeferredBefore
  <2>2. Settings'.conf = Settings.conf
    BY <2>1 DEF Settings
  <2> QED
    BY <2>1, <2>2, Stacks DEF CliInv, CliTypeOK, DeferredBefore, DeviceDeferred, IPv6Deferred, RuleDeferred,
       FilesDeferred, SettingUp
<1> QED
  BY <1>1, <1>2

\* Each deferred call puts back what it was deferred for, or fails and says so.
LEMMA DeferredKeeps ==
  ASSUME CliInv,
         StopRouting \/ RestoreSystemDNSServer \/ CloseDevice \/ RestoreIPv6 \/ CloseTun
           \/ DeferredFails
  PROVE  CliInv'
<1> USE DEF CliInv
<1>1. CASE StopRouting
  <2>1. /\ step = "unwind" /\ step' = "unwind" /\ deferred = D5 /\ deferred' = D4
        /\ table' = {} /\ ~rule'
        /\ UNCHANGED <<runs, how, found, prevIPv6, backups, broken, device, copies, tun, ipv6, conf,
                       backup>>
    BY <1>1, Popped DEF StopRouting, CleanUpRoutingTable, CleanUpRule
  <2>2. Settings'.conf = Settings.conf /\ CliTypeOK'
    BY <1>1, <2>1 DEF Settings, CliTypeOK, StopRouting, CleanUpRule
  <2> QED
    BY <2>1, <2>2, Stacks DEF DeferredBefore, DeviceDeferred, IPv6Deferred, RuleDeferred,
       FilesDeferred, SettingUp
<1>2. CASE RestoreSystemDNSServer
  <2>1. /\ step = "unwind" /\ step' = "unwind" /\ deferred = D4 /\ deferred' = D3
        /\ conf' = [f \in Files |-> IF f \in backups THEN backup[f] ELSE conf[f]]
        /\ backup' = [f \in Files |-> IF f \in backups THEN "none" ELSE backup[f]]
        /\ UNCHANGED <<runs, how, found, prevIPv6, backups, broken, device, copies, ipRule, tun, ipv6,
                       table, rule>>
    BY <1>2, Popped DEF RestoreSystemDNSServer
  <2>2. CliTypeOK'
    BY <2>1 DEF CliTypeOK, Contents
  <2>3. \A f \in Files : Settings'.conf[f] = IF f \in backups THEN backup[f] ELSE Settings.conf[f]
    BY <2>1 DEF Settings
  <2>4. FilesDeferred'
    BY <2>1, <2>3, Stacks DEF FilesDeferred, CliTypeOK, SettingUp
  <2> QED
    BY <2>1, <2>2, <2>4, Stacks DEF DeferredBefore, DeviceDeferred, IPv6Deferred, RuleDeferred,
       SettingUp
<1>3. CASE CloseDevice
  <2>1. /\ step = "unwind" /\ step' = "unwind" /\ deferred = D3 /\ deferred' = D2
        /\ UNCHANGED <<runs, how, found, prevIPv6, backups, broken, ipRule, osVars>>
    BY <1>3, Popped DEF CloseDevice
  <2>2. Settings'.conf = Settings.conf /\ CliTypeOK'
    BY <1>3, <2>1 DEF Settings, CliTypeOK, CloseDevice, osVars
  <2> QED
    BY <2>1, <2>2, Stacks DEF osVars, DeferredBefore, DeviceDeferred, IPv6Deferred, RuleDeferred,
       FilesDeferred, SettingUp
<1>4. CASE RestoreIPv6
  <2>1. /\ step = "unwind" /\ step' = "unwind" /\ deferred = D2 /\ deferred' = D1
        /\ ipv6' = prevIPv6
        /\ UNCHANGED <<runs, how, found, prevIPv6, backups, broken, device, copies, ipRule, tun, conf,
                       backup, table, rule>>
    BY <1>4, Popped DEF RestoreIPv6
  <2>2. Settings'.conf = Settings.conf /\ CliTypeOK'
    BY <2>1 DEF Settings, CliTypeOK
  <2> QED
    BY <2>1, <2>2, Stacks DEF DeferredBefore, DeviceDeferred, IPv6Deferred, RuleDeferred,
       FilesDeferred, SettingUp
<1>5. CASE CloseTun
  <2>1. /\ step = "unwind" /\ step' = "unwind" /\ deferred = D1 /\ deferred' = D0
        /\ tun' = "none" /\ table' = {}
        /\ UNCHANGED <<runs, how, found, prevIPv6, backups, broken, device, ipRule, ipv6, conf, backup,
                       rule>>
    BY <1>5, Popped DEF CloseTun
  <2>2. copies' \in [{"up", "down"} -> {"none", "copying", "stuck", "ended"}]
    BY <1>5 DEF CloseTun, CliTypeOK
  <2>3. Settings'.conf = Settings.conf /\ CliTypeOK'
    BY <2>1, <2>2 DEF Settings, CliTypeOK
  <2> QED
    BY <2>1, <2>3, Stacks DEF DeferredBefore, DeviceDeferred, IPv6Deferred, RuleDeferred,
       FilesDeferred, SettingUp
<1>6. CASE DeferredFails
  <2>1. PICK call \in {"stopRouting", "restoreSystemDNSServer", "enableIPv6"} : Pop(call)
    BY <1>6 DEF DeferredFails
  <2>2. /\ step = "unwind" /\ step' = "unwind" /\ deferred' \in {D1, D3, D4} /\ broken' = TRUE
        /\ UNCHANGED <<runs, how, found, prevIPv6, backups, device, copies, ipRule, osVars>>
    BY <1>6, <2>1, Popped DEF DeferredFails
  <2>3. Settings'.conf = Settings.conf /\ CliTypeOK'
    BY <2>2 DEF Settings, CliTypeOK, osVars
  <2> QED
    BY <2>2, <2>3, Stacks DEF osVars, DeferredBefore, DeviceDeferred, IPv6Deferred, RuleDeferred,
       FilesDeferred, SettingUp
<1> QED
  BY <1>1, <1>2, <1>3, <1>4, <1>5, <1>6

\* Every step preserves the invariant.
LEMMA CliNextInv == CliInv /\ [CliNext]_cliVars => CliInv'
<1> SUFFICES ASSUME CliInv, [CliNext]_cliVars PROVE CliInv'
  OBVIOUS
<1>1. CASE UNCHANGED cliVars
  <2>1. Settings' = Settings
    BY <1>1 DEF cliVars, osVars, Settings
  <2> QED
    BY <1>1, <2>1 DEF cliVars, runVars, osVars, CliInv, CliTypeOK, DeferredBefore, DeviceDeferred,
       IPv6Deferred, RuleDeferred, FilesDeferred, SettingUp
<1>2. CASE CliNext
  BY <1>2, RunKeeps, SetupKeeps, ResolverKeeps, RoutingKeeps, RuleKeeps, DeferredKeeps DEF CliNext
<1> QED
  BY <1>1, <1>2

\* Nothing is left to restore once all that was deferred has run.
LEMMA AllRestored == CliInv => RunsRestore
<1> SUFFICES ASSUME CliInv, step = "unwind", deferred = D0, ~broken
             PROVE  IF how = "signal" THEN Settings = found
                    ELSE /\ ipv6 = found.ipv6 /\ table = {} /\ tun = "none"
                         /\ backups = {} => Settings.conf = found.conf
  BY DEF RunsRestore, D0
<1>1. ipv6 = found.ipv6 /\ table = {} /\ tun = "none" /\ found.table = {}
  BY DEF CliInv, DeviceDeferred, IPv6Deferred
<1>2. ASSUME how = "signal" \/ backups = {} PROVE Settings.conf = found.conf
  <2>1. \A f \in Files : Settings.conf[f] = found.conf[f]
    BY <1>2, Stacks DEF CliInv, FilesDeferred
  <2>2. found.conf \in [Files -> Contents] /\ Settings.conf = [f \in Files |-> Settings.conf[f]]
    BY DEF CliInv, DeviceDeferred, Settings
  <2> QED
    BY <2>1, <2>2
<1>3. ASSUME how = "signal" PROVE Settings = found
  <2>1. rule = found.rule
    BY <1>3, Stacks DEF CliInv, CliTypeOK, RuleDeferred, DeviceDeferred
  <2>2. /\ Settings.ipv6 = ipv6 /\ Settings.table = table /\ Settings.rule = rule
        /\ Settings = [ipv6 |-> Settings.ipv6, table |-> Settings.table, rule |-> Settings.rule,
                       conf |-> Settings.conf]
    BY DEF Settings
  <2>3. found = [ipv6 |-> found.ipv6, table |-> found.table, rule |-> found.rule,
                 conf |-> found.conf]
    BY DEF CliInv, DeviceDeferred
  <2>4. Settings.conf = found.conf
    BY <1>2, <1>3
  <2> HIDE DEF Settings
  <2> QED
    BY <1>1, <2>1, <2>2, <2>3, <2>4
<1> QED
  BY <1>1, <1>2, <1>3

\* A run and the machine keep their types.
THEOREM CliTypes == CliSpec => []CliTypeOK
<1>1. CliInv => CliTypeOK
  BY DEF CliInv
<1> QED
  BY <1>1, CliInitInv, CliNextInv, PTL DEF CliSpec

\* Whatever earlier runs left behind, a run whose deferred calls all worked
\* leaves the machine as it found it.
THEOREM RunsRestoreAll == CliSpec => []RunsRestore
  BY CliInitInv, CliNextInv, AllRestored, PTL DEF CliSpec

(* ----------------------------- Psiphon dialer ---------------------------- *)
PsiphonInv == PsiphonTypeOK /\ TunnelRuns

\* Before the first Start there is no tunnel.
LEMMA PsiphonInitInv == PsiphonInit => PsiphonInv
  BY DEF PsiphonInit, PsiphonInv, PsiphonTypeOK, TunnelRuns

\* A step of one Start keeps the tunnel of another, or takes it away.
LEMMA StartStepKeeps ==
  ASSUME PsiphonInv, NEW s \in Starts, StartBegins(s) \/ StartCancelled(s) \/ StartStep(s)
  PROVE  PsiphonInv'
<1> USE DEF PsiphonInv, PsiphonTypeOK, TunnelRuns
<1>1. CASE StartBegins(s)
  BY <1>1 DEF StartBegins, CallStop
<1>2. CASE StartCancelled(s)
  BY <1>2 DEF StartCancelled
<1>3. CASE StartGoesOn(s)
  BY <1>3 DEF StartGoesOn
<1>4. CASE StartFails(s)
  BY <1>4 DEF StartFails, Ends
<1>5. CASE StartSucceeds(s)
  BY <1>5 DEF StartSucceeds
<1>6. CASE TunnelEnds(s)
  BY <1>6 DEF TunnelEnds, Ends
<1> QED
  BY <1>1, <1>2, <1>3, <1>4, <1>5, <1>6 DEF StartStep

\* Every step preserves the invariant.
LEMMA PsiphonNextInv == PsiphonInv /\ [PsiphonNext]_psiphonVars => PsiphonInv'
<1> SUFFICES ASSUME PsiphonInv, [PsiphonNext]_psiphonVars PROVE PsiphonInv'
  OBVIOUS
<1>1. ASSUME NEW p \in Stops, StopBegins(p) PROVE PsiphonInv'
  BY <1>1 DEF StopBegins, CallStop, PsiphonInv, PsiphonTypeOK, TunnelRuns
<1>2. ASSUME NEW p \in Stops, StopReturnsNil(p) PROVE PsiphonInv'
  BY <1>2 DEF StopReturnsNil, PsiphonInv, PsiphonTypeOK, TunnelRuns
<1>3. CASE UNCHANGED psiphonVars
  BY <1>3 DEF psiphonVars, PsiphonInv, PsiphonTypeOK, TunnelRuns
<1> QED
  BY <1>1, <1>2, <1>3, StartStepKeeps DEF PsiphonNext

\* The tunnel that DialStream is handed runs when it is, however many Starts
\* and Stops run at once.
THEOREM UsedTunnelRuns == PsiphonSpec => []TunnelRuns
<1>1. PsiphonInv => TunnelRuns
  BY DEF PsiphonInv
<1> QED
  BY <1>1, PsiphonInitInv, PsiphonNextInv, PTL DEF PsiphonSpec

(* -------------------------- WebSocket connection ------------------------- *)
\* Once a Read has returned an error of the connection, no Read gets past
\* readErr, or every Read that does finds the error that websocket.Conn keeps:
\* none of them is in a message it has just been given.
EndStays ==
  sawEnd => \/ readErr # "none" /\ reading = "idle"
            \/ wsError # "none" /\ reading # "first"

WebsocketInv == WebsocketTypeOK /\ EndStays

\* No Read that returns after another has returned an error of the connection
\* returns data.
EndIsFinal == reading # "idle" /\ reading' = "idle" /\ sawEnd => lastRead' # "data"

\* A connection that is not made yet has no reader.
LEMMA WebsocketInitInv == WebsocketInit => WebsocketInv
<1> SUFFICES ASSUME WebsocketInit PROVE WebsocketInv
  OBVIOUS
<1>1. 0 \in 0 .. MaxMessages
  BY WebsocketAssumption
<1> QED
  BY <1>1 DEF WebsocketInit, WebsocketInv, WebsocketTypeOK, EndStays

\* Reads preserve the invariant, and end for good.
LEMMA ReadKeeps ==
  ASSUME WebsocketInv,
         \/ Read \/ MessageBytes \/ MessageEnds \/ MessageFails
         \/ NextReaderMessage \/ NextReaderFails
  PROVE  WebsocketInv' /\ EndIsFinal
<1> USE DEF WebsocketInv, WebsocketTypeOK, EndStays, EndIsFinal, ReadReturns, Unread, writeVars
<1>1. CASE Read
  BY <1>1 DEF Read
<1>2. CASE MessageBytes
  <2>1. ~sawEnd /\ reading' = "idle" /\ UNCHANGED <<incoming, wsError, expired, readErr, writeVars>>
    BY <1>2 DEF MessageBytes
  <2>2. sawEnd' => readErr' # "none"
    BY <1>2, <2>1 DEF MessageBytes
  <2>3. WebsocketTypeOK'
    BY <1>2, <2>1 DEF MessageBytes
  <2> QED
    BY <2>1, <2>2, <2>3
<1>5. CASE MessageEnds
  <2>1. UNCHANGED <<incoming, wsError, expired, readErr, writeVars>>
    BY <1>5 DEF MessageEnds
  <2>2. CASE reading = "first"
    BY <1>5, <2>1, <2>2 DEF MessageEnds
  <2>3. CASE reading = "pending" /\ readErr # "none"
    BY <1>5, <2>1, <2>3 DEF MessageEnds
  <2>4. CASE reading = "pending" /\ readErr = "none"
    BY <1>5, <2>1, <2>4 DEF MessageEnds
  <2> QED
    BY <1>5, <2>2, <2>3, <2>4 DEF MessageEnds
<1>6. CASE MessageFails
  BY <1>6 DEF MessageFails, ConnFails, ErrorOf
<1>3. CASE NextReaderMessage
  <2>1. incoming' \in 0 .. MaxMessages
    BY <1>3, WebsocketAssumption DEF NextReaderMessage
  <2>2. ~sawEnd \/ readErr # "none"
    BY <1>3 DEF NextReaderMessage
  <2>3. CASE reading' = "first"
    BY <1>3, <2>1, <2>3 DEF NextReaderMessage
  <2>4. CASE reading' # "first"
    BY <1>3, <2>1, <2>4 DEF NextReaderMessage
  <2> QED
    BY <2>3, <2>4
<1>4. CASE NextReaderFails
  BY <1>4 DEF NextReaderFails, ConnFails, ErrorOf
<1> QED
  BY <1>1, <1>2, <1>3, <1>4, <1>5, <1>6

\* So does everything else.
LEMMA WebsocketNextInv ==
  WebsocketInv /\ [WebsocketNext]_websocketVars => WebsocketInv' /\ [EndIsFinal]_websocketVars
<1> SUFFICES ASSUME WebsocketInv, [WebsocketNext]_websocketVars
             PROVE  WebsocketInv' /\ [EndIsFinal]_websocketVars
  OBVIOUS
<1> USE DEF WebsocketInv, WebsocketTypeOK, EndStays, EndIsFinal, readVars, writeVars
<1>1. CASE NewEndpoint \/ Upgrade \/ CloseConn
  BY <1>1 DEF NewEndpoint, Upgrade, NewGorillaConn, CloseConn
<1>2. CASE PeerSends \/ PeerCloses
  <2>1. incoming' \in 0 .. MaxMessages
    BY <1>2, WebsocketAssumption DEF PeerSends, PeerCloses
  <2> QED
    BY <1>2, <2>1 DEF PeerSends, PeerCloses
<1>3. CASE CloseRead \/ ExpireDeadline \/ SetReadDeadline
  BY <1>3 DEF CloseRead, ExpireDeadline, SetReadDeadline
<1>4. CASE Write
  <2>1. written' \in 0 .. MaxMessages
    BY <1>4, WebsocketAssumption DEF Write
  <2> QED
    BY <1>4, <2>1 DEF Write
<1>7. CASE SendCloseFrame
  BY <1>7 DEF SendCloseFrame
<1>8. CASE SetWriteErr
  BY <1>8 DEF SetWriteErr
<1>5. CASE UNCHANGED websocketVars
  BY <1>5 DEF websocketVars
<1>6. CASE \/ Read \/ MessageBytes \/ MessageEnds \/ MessageFails
           \/ NextReaderMessage \/ NextReaderFails
  BY <1>6, ReadKeeps
<1> QED
  BY <1>1, <1>2, <1>3, <1>4, <1>5, <1>6, <1>7, <1>8 DEF WebsocketNext

\* After a Read that returned an error of the connection no Read returns data:
\* the safety part of ReadEnds.  An empty message's io.EOF is not one.
THEOREM StreamEndIsFinal == WebsocketSpec => [][EndIsFinal]_websocketVars
  BY WebsocketInitInv, WebsocketNextInv, PTL DEF WebsocketSpec

(* ------------------------------ local web proxy -------------------------- *)
\* Only a hijacked connection is relayed.
RelayHijacked == \A c \in Clients : up[c] # "none" => handler[c] \in {"relaying", "returned"}

ProxyInv == ProxyTypeOK /\ RelayHijacked

\* A relay closes its target only when the target has said all it has to say,
\* or nobody listens any more.
TargetReadToEnd ==
  \A c \in Clients :
    up[c] # "none" /\ target[c] = "open" /\ target'[c] = "closed" =>
      "down" \in ended[c] \/ client[c] = "closed"

\* The proxy starts with no request.
LEMMA ProxyInitInv == ProxyInit => ProxyInv
<1> SUFFICES ASSUME ProxyInit PROVE ProxyInv
  OBVIOUS
<1>1. RelayHijacked
  BY DEF ProxyInit, RelayHijacked
<1>2. ended \in [Clients -> SUBSET {"up", "down"}]
  BY DEF ProxyInit
<1>3. via \in [Clients -> Handlers \cup {"none"}]
  BY DEF ProxyInit
<1>4. ProxyTypeOK
  BY <1>2, <1>3 DEF ProxyInit, ProxyTypeOK
<1> QED
  BY <1>1, <1>4 DEF ProxyInv

\* Each step of a request.
LEMMA ClientKeeps ==
  ASSUME ProxyInv, NEW c \in Clients, ClientStep(c)
  PROVE  ProxyInv' /\ TargetReadToEnd
<1> USE DEF ProxyInv, ProxyTypeOK, RelayHijacked, TargetReadToEnd, HandlerGoes, Answer, Keep, Returns,
        Handlers
<1>1. CASE ServeHTTP(c)
  BY <1>1 DEF ServeHTTP
<1>2. CASE Refuse(c)
  BY <1>2 DEF Refuse
<1>3. CASE DialTarget(c)
  BY <1>3 DEF DialTarget
<1>4. CASE HijackFails(c)
  BY <1>4 DEF HijackFails
<1>5. CASE Hijack(c)
  BY <1>5 DEF Hijack
<1>6. CASE UpEnds(c)
  BY <1>6 DEF UpEnds, UpStops
<1>11. CASE UpReads(c)
  BY <1>11 DEF UpReads
<1>12. CASE UpWrites(c)
  BY <1>12 DEF UpWrites
<1>7. CASE DownEnds(c)
  BY <1>7 DEF DownEnds
<1>8. CASE Closer(c)
  BY <1>8 DEF Closer
<1>9. CASE CopyResponse(c)
  BY <1>9 DEF CopyResponse
<1>10. ASSUME NEW dir \in {"up", "down"}, PeerEnds(c, dir) PROVE ProxyInv' /\ TargetReadToEnd
  BY <1>10 DEF PeerEnds
<1> QED
  BY <1>1, <1>2, <1>3, <1>4, <1>5, <1>6, <1>7, <1>8, <1>9, <1>10, <1>11, <1>12 DEF ClientStep

\* Every step preserves the invariant and reads targets to their end.
LEMMA ProxyNextInv == ProxyInv /\ [ProxyNext]_proxyVars => ProxyInv' /\ [TargetReadToEnd]_proxyVars
<1> SUFFICES ASSUME ProxyInv, [ProxyNext]_proxyVars PROVE ProxyInv' /\ [TargetReadToEnd]_proxyVars
  OBVIOUS
<1>1. CASE AddURLProxy \/ Stop \/ StopReturns \/ StopTimesOut
  BY <1>1 DEF AddURLProxy, Stop, StopReturns, StopTimesOut, ProxyInv, ProxyTypeOK, RelayHijacked,
     TargetReadToEnd
<1>2. CASE UNCHANGED proxyVars
  BY <1>2 DEF proxyVars, ProxyInv, ProxyTypeOK, RelayHijacked
<1> QED
  BY <1>1, <1>2, ClientKeeps DEF ProxyNext

\* Until it is stopped or its client is gone a relay reads its target to the
\* end: the safety part of RelaysEnd.
THEOREM RelayReadsToEnd == ProxySpec => [][TargetReadToEnd]_proxyVars
  BY ProxyInitInv, ProxyNextInv, PTL DEF ProxySpec

(* -------------------------------- together ------------------------------- *)
ServingInv ==
  UdpInv /\ DeviceInv /\ CliInv /\ PsiphonInv /\ WebsocketInv /\ ProxyInv

\* A step of Serving is a step of one part, and changes nothing of the others.
LEMMA PartsStep ==
  ASSUME [ServingNext]_servingVars
  PROVE  /\ [UdpNext]_udpVars /\ [DeviceNext]_deviceVars /\ [ProxyNext]_proxyVars
         /\ [WebsocketNext]_websocketVars /\ [PsiphonNext]_psiphonVars /\ [CliNext]_cliVars
<1>1. CASE ServingNext
  BY <1>1 DEF ServingNext
<1>2. CASE UNCHANGED servingVars
  BY <1>2 DEF servingVars
<1> QED
  BY <1>1, <1>2

\* Whatever is proved of a part alone holds of it beside the others: a behaviour
\* of Serving is one of each part.
THEOREM PartsAreAlone ==
  ServingSpec => /\ UdpSpec /\ DeviceSpec /\ ProxySpec /\ WebsocketSpec /\ PsiphonSpec /\ CliSpec
<1>1. ServingInit => /\ UdpInit /\ DeviceInit /\ ProxyInit
                     /\ WebsocketInit /\ PsiphonInit /\ CliInit
  BY DEF ServingInit
<1> QED
  BY <1>1, PartsStep, PTL
     DEF ServingSpec, UdpSpec, DeviceSpec, ProxySpec, WebsocketSpec, PsiphonSpec, CliSpec

\* The invariant of all parts.
LEMMA ServingInvariance == ServingSpec => []ServingInv
<1>1. ServingInit => ServingInv
  BY UdpInitInv, DeviceInitInv, CliInitInv, PsiphonInitInv, WebsocketInitInv, ProxyInitInv
     DEF ServingInit, ServingInv
<1>2. ServingInv /\ [ServingNext]_servingVars => ServingInv'
  BY PartsStep, UdpNextInv, DeviceNextInv, CliNextInv, PsiphonNextInv, WebsocketNextInv, ProxyNextInv
     DEF ServingInv
<1> QED
  BY <1>1, <1>2, PTL DEF ServingSpec

\* All six parts keep their types, and the stored tunnel runs.
THEOREM ServingTypes == ServingSpec => []ServingTypeOK
<1>1. ServingInv => ServingTypeOK
  BY DEF ServingInv, ServingTypeOK, UdpInv, DeviceInv, CliInv, PsiphonInv, WebsocketInv, ProxyInv
<1> QED
  BY <1>1, ServingInvariance, PTL

\* Side by side the parts keep what each promises alone.
THEOREM ServingSafe == ServingSpec => [](SocketsTimed /\ PacketLent /\ RunsRestore)
<1>1. ServingInv => SocketsTimed /\ PacketLent /\ RunsRestore
  BY AllRestored DEF ServingInv, UdpInv, DeviceInv
<1> QED
  BY <1>1, ServingInvariance, PTL
=============================================================================
