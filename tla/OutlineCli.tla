----------------------------- MODULE OutlineCli ----------------------------
(* Run of the Linux outline-cli: it changes the tunnel device, IPv6, the two *)
(* resolver files and the routing of the machine step by step, and what it   *)
(* has deferred undoes them from the last to the first.  Runs follow one     *)
(* another and may be killed; what they leave behind the next one finds.     *)
EXTENDS Naturals, Sequences

CONSTANTS MaxRuns     \* bound: times the program is run
ASSUME CliAssumption == MaxRuns \in Nat

Files == {"resolv.conf", "resolv.conf.head"}
Contents == {"none", "user", "cli"}
Routes == {"subnet", "gateway"}

VARIABLES runs,       \* runs so far
          step,       \* what the run does next
          deferred,   \* its deferred calls, the last one first
          how,        \* why it unwinds: "none", "error" or "signal"
          broken,     \* whether a deferred call has failed
          tun, device, copies, \* the devices, and the two io.Copy goroutines
          ipv6, prevIPv6,      \* enabled or not, now and before the run
          conf, backup,        \* contents of the resolver files, and of the copies
          backups,    \* systemDNSBackups: files to restore
          table, rule,         \* routes in the table, and the kernel's IP rule
          ipRule,     \* whether the program remembers the rule
          found       \* the settings that the run has found

osVars == <<tun, ipv6, conf, backup, table, rule>>
runVars == <<deferred, how, broken, device, copies, prevIPv6, backups, ipRule>>
cliVars == <<runs, step, runVars, osVars, found>>

Settings == [ipv6 |-> ipv6, table |-> table, rule |-> rule,
             conf |-> [f \in Files |-> IF conf[f] = "none" THEN backup[f] ELSE conf[f]]]

Forget ==
  /\ deferred' = <<>> /\ how' = "none" /\ broken' = FALSE /\ device' = "none"
  /\ copies' = [c \in {"up", "down"} |-> "none"] /\ prevIPv6' = TRUE /\ backups' = {}
  /\ ipRule' = FALSE

CliInit ==
  /\ runs = 0 /\ step = "exited"
  /\ deferred = <<>> /\ how = "none" /\ broken = FALSE /\ device = "none"
  /\ copies = [c \in {"up", "down"} |-> "none"] /\ prevIPv6 = TRUE /\ backups = {}
  /\ ipRule = FALSE
  /\ tun = "none" /\ ipv6 \in BOOLEAN /\ conf \in [Files -> {"none", "user"}]
  /\ backup = [f \in Files |-> "none"] /\ table = {} /\ rule = FALSE
  /\ found = Settings

Run ==
  /\ step = "exited" /\ runs < MaxRuns /\ runs' = runs + 1
  /\ step' = "tun" /\ found' = Settings /\ Forget /\ UNCHANGED osVars

(* ------------------------------- setting up ------------------------------ *)
Continue(from, to, call) ==
  /\ step = from /\ step' = to
  /\ deferred' = (IF call = "none" THEN deferred ELSE <<call>> \o deferred)
  /\ UNCHANGED <<runs, how, broken, found>>

\* An error of this step: Run returns, with the calls deferred before it.
Unwind(from) ==
  /\ step = from /\ step' = "unwind" /\ how' = "error"
  /\ UNCHANGED <<runs, deferred, broken, found>>

\* The new link gets its address and is brought up; else it is closed again.
BringUp == tun' = "up"

NewTunDevice ==
  \/ Continue("tun", "ipv6", "tun.Close") /\ BringUp
     /\ UNCHANGED <<device, copies, prevIPv6, backups, ipRule, ipv6, conf, backup, table, rule>>
  \/ Unwind("tun") /\ UNCHANGED <<device, copies, prevIPv6, backups, ipRule, osVars>>

EnableIPv6 ==
  \/ /\ Continue("ipv6", "server", "enableIPv6")
     /\ prevIPv6' = ipv6 /\ ipv6' = FALSE
     /\ UNCHANGED <<device, copies, backups, ipRule, tun, conf, backup, table, rule>>
  \/ Unwind("ipv6") /\ UNCHANGED <<device, copies, prevIPv6, backups, ipRule, osVars>>

\* The configuration names one server, and the server has an IPv4 address.
ResolveServerIP ==
  /\ Continue("server", "device", "none") \/ Unwind("server")
  /\ UNCHANGED <<device, copies, prevIPv6, backups, ipRule, osVars>>

\* Refresh, which chooses the packet proxy, ignores its own error.
NewOutlineDevice ==
  \/ /\ Continue("device", "resolv.conf", "ss.Close") /\ device' = "open"
     /\ copies' = [c \in {"up", "down"} |-> "copying"]
     /\ UNCHANGED <<prevIPv6, backups, ipRule, osVars>>
  \/ Unwind("device") /\ UNCHANGED <<device, copies, prevIPv6, backups, ipRule, osVars>>

\* backupAndWriteFile: what is there is renamed over any older backup.  It may
\* fail before the rename, or after it with nothing written.
BackupFile(f) ==
  /\ conf' = [conf EXCEPT ![f] = "none"]
  /\ backup' = [backup EXCEPT ![f] = IF conf[f] = "none" THEN @ ELSE conf[f]]
  /\ backups' = backups \cup {f}
SetSystemDNSServer(f) ==
  LET last == f = "resolv.conf.head"
  IN \/ /\ Continue(f, IF last THEN "subnet" ELSE "resolv.conf.head",
                    IF last THEN "restoreSystemDNSServer" ELSE "none")
        /\ backup' = [backup EXCEPT ![f] = IF conf[f] = "none" THEN @ ELSE conf[f]]
        /\ conf' = [conf EXCEPT ![f] = "cli"] /\ backups' = backups \cup {f}
        /\ UNCHANGED <<device, copies, prevIPv6, ipRule, tun, ipv6, table, rule>>
     \/ /\ Unwind(f) /\ (BackupFile(f) \/ UNCHANGED <<conf, backup, backups>>)
        /\ UNCHANGED <<device, copies, prevIPv6, ipRule, tun, ipv6, table, rule>>

SetupRoutingTable(r) ==
  \/ /\ Continue(r, IF r = "subnet" THEN "gateway" ELSE "rule", "none")
     /\ table' = table \cup {r}
     /\ UNCHANGED <<device, copies, prevIPv6, backups, ipRule, tun, ipv6, conf, backup, rule>>
  \/ Unwind(r) /\ UNCHANGED <<device, copies, prevIPv6, backups, ipRule, osVars>>

CleanUpRule == rule /\ rule' = FALSE /\ ipRule' = FALSE

\* A rule that cannot be added is taken for one of an earlier run, and deleted.
SetupIpRule ==
  \/ /\ ~rule /\ Continue("rule", "signal", "stopRouting") /\ rule' = TRUE /\ ipRule' = TRUE
     /\ UNCHANGED <<device, copies, prevIPv6, backups, tun, ipv6, conf, backup, table>>
  \/ /\ Unwind("rule")
     /\ (UNCHANGED rule /\ ipRule' \in {ipRule, TRUE}) \/ CleanUpRule
     /\ UNCHANGED <<device, copies, prevIPv6, backups, tun, ipv6, conf, backup, table>>

Signal ==
  /\ step = "signal" /\ step' = "unwind" /\ how' = "signal"
  /\ UNCHANGED <<runs, deferred, broken, found, device, copies, prevIPv6, backups,
                 ipRule, osVars>>

(* ------------------------------- unwinding ------------------------------- *)
Pop(call) ==
  /\ step = "unwind" /\ deferred # <<>> /\ Head(deferred) = call
  /\ deferred' = Tail(deferred) /\ UNCHANGED <<runs, step, how, found, prevIPv6, backups>>

CleanUpRoutingTable == table' = {}
StopRouting ==
  /\ Pop("stopRouting") /\ CleanUpRoutingTable /\ CleanUpRule
  /\ UNCHANGED <<broken, device, copies, tun, ipv6, conf, backup>>

\* Fault: only what was moved away is restored.
RestoreBackupsOnly ==
  /\ Pop("restoreSystemDNSServer")
  /\ conf' = [f \in Files |-> IF f \in backups /\ backup[f] # "none" THEN backup[f] ELSE conf[f]]
  /\ backup' = [f \in Files |-> IF f \in backups THEN "none" ELSE backup[f]]
  /\ UNCHANGED <<broken, device, copies, ipRule, tun, ipv6, table, rule>>

\* A file that was moved away moves back; one that was not there is removed.
RestoreSystemDNSServer ==
  /\ Pop("restoreSystemDNSServer")
  /\ conf' = [f \in Files |-> IF f \in backups THEN backup[f] ELSE conf[f]]
  /\ backup' = [f \in Files |-> IF f \in backups THEN "none" ELSE backup[f]]
  /\ UNCHANGED <<broken, device, copies, ipRule, tun, ipv6, table, rule>>

\* A Read that waits for a packet does not notice that its device is closed.
CloseDevice ==
  /\ Pop("ss.Close") /\ device' = "closed"
  /\ \E s \in {"stuck", "ended"} : copies' = [copies EXCEPT !["down"] = s]
  /\ UNCHANGED <<broken, ipRule, osVars>>

RestoreIPv6 ==
  /\ Pop("enableIPv6") /\ ipv6' = prevIPv6
  /\ UNCHANGED <<broken, device, copies, ipRule, tun, conf, backup, table, rule>>

\* The device takes its routes with it.
CloseTun ==
  /\ Pop("tun.Close") /\ tun' = "none" /\ table' = {}
  /\ copies' = [copies EXCEPT !["up"] = IF @ = "copying" THEN "ended" ELSE @]
  /\ UNCHANGED <<broken, device, ipRule, ipv6, conf, backup, rule>>

\* A deferred call fails, and only says so.
DeferredFails ==
  /\ \E call \in {"stopRouting", "restoreSystemDNSServer", "enableIPv6"} : Pop(call)
  /\ broken' = TRUE /\ UNCHANGED <<device, copies, ipRule, osVars>>

WaitReturns ==
  /\ step = "unwind" /\ deferred = <<>>
  /\ \A c \in {"up", "down"} : copies[c] \notin {"copying", "stuck"}
  /\ step' = "exited" /\ UNCHANGED <<runs, runVars, osVars, found>>

\* The process is killed, which is all that is left when it hangs.
Killed ==
  /\ step # "exited" /\ step' = "exited" /\ tun' = "none" /\ table' = {} /\ Forget
  /\ UNCHANGED <<runs, ipv6, conf, backup, rule, found>>

CliNext ==
  \/ Run \/ NewTunDevice \/ EnableIPv6 \/ ResolveServerIP \/ NewOutlineDevice
  \/ \E f \in Files : SetSystemDNSServer(f)
  \/ \E r \in Routes : SetupRoutingTable(r)
  \/ SetupIpRule \/ Signal \/ StopRouting \/ RestoreSystemDNSServer \/ CloseDevice
  \/ RestoreIPv6 \/ CloseTun \/ DeferredFails \/ WaitReturns \/ Killed

CliSpec == CliInit /\ [][CliNext]_cliVars

(* ------------------------------- properties ------------------------------ *)
\* Types of the run's and of the machine's state.
CliTypeOK ==
  /\ runs \in 0 .. MaxRuns /\ how \in {"none", "error", "signal"} /\ broken \in BOOLEAN
  /\ tun \in {"none", "up"} /\ device \in {"none", "open", "closed"}
  /\ copies \in [{"up", "down"} -> {"none", "copying", "stuck", "ended"}]
  /\ ipv6 \in BOOLEAN /\ prevIPv6 \in BOOLEAN /\ rule \in BOOLEAN /\ ipRule \in BOOLEAN
  /\ conf \in [Files -> Contents] /\ backup \in [Files -> Contents]
  /\ backups \subseteq Files /\ table \subseteq Routes

\* Whatever earlier runs that were killed or have failed left behind, a run
\* leaves the machine as it found it: after a signal its resolver files, IPv6,
\* routes and rule; after an error IPv6 and the routes, and the resolver files
\* unless the error came once they had been touched.  What it found may be the
\* file of a killed run, which BackupFile renames over the user's in the backup:
\* then that file is what it puts back.
RunsRestore ==
  (step = "unwind" /\ deferred = <<>> /\ ~broken) =>
    IF how = "signal" THEN Settings = found
    ELSE /\ ipv6 = found.ipv6 /\ table = {} /\ tun = "none"
         /\ backups = {} => Settings.conf = found.conf
=============================================================================
