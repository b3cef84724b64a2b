------------------------------ MODULE Install -------------------------------
(***************************************************************************)
(* The host as the privileged subcommands leave it: setup, uninstall,      *)
(* rotate-token and update (src/cli).  Each is a list of steps over files, *)
(* accounts and systemd that any step may abandon, by an error or because  *)
(* the command is killed; what is left is where the next command starts.   *)
(* Operators are the accounts that call sudo: each has a configuration     *)
(* directory of its own.  Identities (accounts, keys, tokens) are numbers  *)
(* that are never given twice.                                             *)
(***************************************************************************)
EXTENDS Naturals, Sequences, FiniteSets

CONSTANTS Operators, NoOperator, Versions, MaxCommands

ASSUME InstallAssumption ==
  NoOperator \notin Operators /\ Versions \subseteq Nat \ {0} /\ 1 \in Versions /\ MaxCommands \in Nat

Files == {"key", "token", "config"}

VARIABLES
  osAccounts, \* the group and the user of the daemon, 0 when there is none
  config,     \* config[o][f]: identity and group of a file, whether its mode is right
  data,       \* the data directory: there, the keys its secrets need, who owns them
  unit,       \* the operator of the unit file and of the unit systemd has loaded
  service,    \* the service: its state, what it started with, whether its data is still there
  bins,       \* the installed binary, its backup, and the versions that start
  command,    \* the command in progress
  given,      \* the last identity given
  ran         \* how many commands were called

installVars == <<osAccounts, config, data, unit, service, bins, command, given, ran>>

(* A key, a token or an account number that nobody had before. *)
Fresh == given + 1

NoFile == [id |-> 0, group |-> 0, mode |-> FALSE]
NoCommand == [verb |-> "none"]
Stopped == [state |-> "stopped"]
NoData == [there |-> FALSE, keys |-> {}, owner |-> 0]

InstallInit ==
  /\ osAccounts = [group |-> 0, user |-> 0]
  /\ config = [o \in Operators |-> [f \in Files |-> NoFile]]
  /\ data = NoData
  /\ unit = [file |-> NoOperator, loaded |-> NoOperator]
  /\ service = Stopped
  /\ \E good \in SUBSET Versions :
       1 \in good /\ bins = [target |-> 1, bak |-> 0, good |-> good]
  /\ command = NoCommand /\ given = 0 /\ ran = 0

-----------------------------------------------------------------------------
(* The daemon reads its files through the group; one that cannot, or whose  *)
(* binary does not start, is started again and again.                       *)
Readable(o) ==
  \A f \in Files : config[o][f].id # 0 /\ config[o][f].mode /\ config[o][f].group = osAccounts.group

Started ==
  LET o == unit.loaded IN
  [state |-> IF osAccounts.user # 0 /\ Readable(o) /\ bins.target \in bins.good
             THEN "running" ELSE "flapping",
   op |-> o, key |-> config[o]["key"].id, token |-> config[o]["token"].id, home |-> data.there]

(* systemctl restart *)
restart == unit.loaded # NoOperator /\ service' = Started

(* A service that is started again and again may just be up when asked. *)
wait_active == service.state # "stopped"

Next1 == [command EXCEPT !.step = @ + 1]
AtStep(verb, n) == command.verb = verb /\ command.step = n

-----------------------------------------------------------------------------
(* setup, in the order of its plan.  The group and the user: *)
ensure_group ==
  /\ osAccounts' = [osAccounts EXCEPT !.group = IF @ = 0 THEN Fresh ELSE @]
  /\ given' = Fresh
  /\ UNCHANGED <<config, data, unit, service, bins>>

ensure_user ==
  /\ osAccounts.group # 0
  /\ osAccounts' = [osAccounts EXCEPT !.user = IF @ = 0 THEN Fresh ELSE @]
  /\ given' = Fresh
  /\ UNCHANGED <<config, data, unit, service, bins>>

(* The directories are made and given to the account, what is in them is    *)
(* not.                                                                     *)
ensure_data_dirs ==
  /\ osAccounts.user # 0 /\ data' = [data EXCEPT !.there = TRUE]
  /\ UNCHANGED <<osAccounts, config, unit, service, bins, given>>

(* write_owned_secret: complete, with its mode and group, or not at all. *)
write_owned_secret(o, f) ==
  /\ osAccounts.group # 0
  /\ config' = [config EXCEPT ![o][f] = [id |-> Fresh, group |-> osAccounts.group, mode |-> TRUE]]
  /\ given' = Fresh

IfAbsent(f) ==
  /\ IF config[command.op][f].id # 0 THEN UNCHANGED <<config, given>>
     ELSE write_owned_secret(command.op, f)
  /\ UNCHANGED <<osAccounts, data, unit, service, bins>>

(* Modes and groups of what was there before are put right. *)
repair_user_config_access ==
  /\ osAccounts.group # 0
  /\ config' = [config EXCEPT ![command.op] =
                 [f \in Files |->
                    LET file == config[command.op][f] IN
                    IF file.id = 0 THEN file
                    ELSE [id |-> file.id, group |-> osAccounts.group, mode |-> TRUE]]]
  /\ UNCHANGED <<osAccounts, data, unit, service, bins, given>>

write_unit ==
  /\ unit' = [unit EXCEPT !.file = command.op]
  /\ UNCHANGED <<osAccounts, config, data, service, bins, given>>

daemon_reload ==
  /\ unit' = [unit EXCEPT !.loaded = unit.file]
  /\ UNCHANGED <<osAccounts, config, data, service, bins, given>>

(* A service that runs is left alone. *)
enable_now ==
  /\ unit.loaded # NoOperator
  /\ service' = IF service.state = "stopped" THEN Started ELSE service
  /\ UNCHANGED <<osAccounts, config, data, unit, bins, given>>

Wait == wait_active /\ UNCHANGED <<osAccounts, config, data, unit, service, bins, given>>

setup ==
  /\ \/ AtStep("setup", 1) /\ ensure_group
     \/ AtStep("setup", 2) /\ ensure_user
     \/ AtStep("setup", 3) /\ ensure_data_dirs
     \/ AtStep("setup", 4) /\ IfAbsent("key")
     \/ AtStep("setup", 5) /\ IfAbsent("token")
     \/ AtStep("setup", 6) /\ IfAbsent("config")
     \/ AtStep("setup", 7) /\ repair_user_config_access
     \/ AtStep("setup", 8) /\ write_unit
     \/ AtStep("setup", 9) /\ daemon_reload
     \/ AtStep("setup", 10) /\ enable_now
     \/ AtStep("setup", 11) /\ Wait
  /\ command' = IF command.step = 11 THEN [command EXCEPT !.verb = "set up"] ELSE Next1

-----------------------------------------------------------------------------
(* uninstall.  The result of disable --now is not looked at. *)
disable_now ==
  /\ \/ unit.loaded # NoOperator /\ service' = Stopped
     \/ UNCHANGED service
  /\ UNCHANGED <<osAccounts, config, data, unit, bins, given>>

RemoveUnitFile ==
  /\ unit' = [unit EXCEPT !.file = NoOperator]
  /\ UNCHANGED <<osAccounts, config, data, service, bins, given>>

(* A daemon that still runs loses the mount of its data directory with it.  *)
RemoveDataDir ==
  /\ data' = NoData
  /\ service' = IF service.state = "stopped" THEN service ELSE [service EXCEPT !.home = FALSE]
  /\ UNCHANGED <<osAccounts, config, unit, bins, given>>

RemoveUserConfigDir ==
  /\ config' = [config EXCEPT ![command.op] = [f \in Files |-> NoFile]]
  /\ UNCHANGED <<osAccounts, data, unit, service, bins, given>>

(* userdel refuses while the user has a process, groupdel while it has a    *)
(* member.                                                                  *)
UserDelDenia ==
  /\ service.state = "stopped" /\ osAccounts' = [osAccounts EXCEPT !.user = 0]
  /\ UNCHANGED <<config, data, unit, service, bins, given>>

GroupDelDenia ==
  /\ osAccounts.user = 0 /\ osAccounts' = [osAccounts EXCEPT !.group = 0]
  /\ UNCHANGED <<config, data, unit, service, bins, given>>

(* Slip: the data goes last. *)
purge_DataLast ==
  \/ AtStep("purge", 4) /\ RemoveUserConfigDir
  \/ AtStep("purge", 5) /\ UserDelDenia
  \/ AtStep("purge", 6) /\ GroupDelDenia
  \/ AtStep("purge", 7) /\ RemoveDataDir

purge ==
  \/ AtStep("purge", 4) /\ RemoveDataDir
  \/ AtStep("purge", 5) /\ RemoveUserConfigDir
  \/ AtStep("purge", 6) /\ UserDelDenia
  \/ AtStep("purge", 7) /\ GroupDelDenia

uninstall ==
  /\ \/ command.verb \in {"uninstall", "purge"} /\ command.step = 1 /\ disable_now
     \/ command.verb \in {"uninstall", "purge"} /\ command.step = 2 /\ RemoveUnitFile
     \/ command.verb \in {"uninstall", "purge"} /\ command.step = 3 /\ daemon_reload
     \/ purge
  /\ command' = IF command.step = (IF command.verb = "purge" THEN 7 ELSE 3) THEN NoCommand ELSE Next1

rotate_token ==
  /\ \/ /\ AtStep("rotate", 1) /\ write_owned_secret(command.op, "token")
        /\ UNCHANGED <<osAccounts, data, unit, service, bins>>
     \/ AtStep("rotate", 2) /\ restart /\ UNCHANGED <<osAccounts, config, data, unit, bins, given>>
     \/ AtStep("rotate", 3) /\ Wait
  /\ command' = IF command.step = 3 THEN NoCommand ELSE Next1

-----------------------------------------------------------------------------
(* update.  What the release host answers: the tag of a release, which is   *)
(* not compared with the one of --tag, any binary, and any manifest, of     *)
(* which only those of the releases are signed.                             *)
Manifests == [tag : Versions, sum : Versions \cup {0}, signed : BOOLEAN]
Answers == {a \in [tag_name : Versions, bin : Versions \cup {0}, sums : Manifests] :
              a.sums.signed => a.sums.sum = a.sums.tag}

(* The signature, the release the manifest names, the sum of the binary. *)
verify(a) == a.sums.signed /\ a.sums.tag = a.tag_name /\ a.sums.sum = a.bin

(* What is not newer than the installed binary needs --force. *)
Wanted(a) == a.tag_name > bins.target \/ command.force

FetchRelease ==
  /\ AtStep("update", 1)
  /\ \E a \in Answers :
       Wanted(a) /\ verify(a) /\ command' = [Next1 EXCEPT !.tag = a.tag_name, !.bin = a.bin]
  /\ UNCHANGED <<osAccounts, config, data, unit, service, bins, given>>

(* The backup, and then the rename.  A copy that is cut short leaves a file *)
(* that does not start (version 0).                                         *)
install_binary ==
  /\ \/ AtStep("update", 2) /\ bins' = [bins EXCEPT !.bak = 0]
     \/ AtStep("update", 3) /\ bins' = [bins EXCEPT !.bak = bins.target]
     \/ AtStep("update", 4) /\ bins' = [bins EXCEPT !.target = command.bin]
  /\ command' = Next1
  /\ UNCHANGED <<osAccounts, config, data, unit, service, given>>

(* restart_and_wait; when either fails, the backup is copied back: not over *)
(* a binary that is just being executed, and no error is looked at.         *)
restart_and_wait ==
  /\ AtStep("update", 5)
  /\ \/ restart /\ \/ command' = NoCommand
                   \/ service'.state = "flapping" /\ command' = Next1
     \/ command' = Next1 /\ UNCHANGED service
  /\ UNCHANGED <<osAccounts, config, data, unit, bins, given>>

RollBack ==
  /\ \/ AtStep("update", 6) /\ bins' = [bins EXCEPT !.target = 0] /\ UNCHANGED service
     \/ AtStep("update", 6) /\ service.state = "flapping" /\ UNCHANGED <<bins, service>>
     \/ AtStep("update", 7)
          /\ bins' = [bins EXCEPT !.target = IF @ = 0 THEN bins.bak ELSE @] /\ UNCHANGED service
     \/ AtStep("update", 8) /\ restart /\ UNCHANGED bins
     \/ AtStep("update", 8) /\ UNCHANGED <<service, bins>>
  /\ command' = IF command.step = 8 THEN [command EXCEPT !.verb = "rolled back"] ELSE Next1
  /\ UNCHANGED <<osAccounts, config, data, unit, given>>

update == FetchRelease \/ install_binary \/ restart_and_wait \/ RollBack

-----------------------------------------------------------------------------
Call ==
  /\ command.verb \in {"none", "set up", "rolled back"} /\ ran < MaxCommands /\ ran' = ran + 1
  /\ \/ \E v \in {"setup", "uninstall", "purge", "rotate"}, o \in Operators :
          command' = [verb |-> v, op |-> o, step |-> 1]
     \/ \E f \in BOOLEAN :
          command' = [verb |-> "update", step |-> 1, tag |-> 0, force |-> f, was |-> bins.target, bin |-> 0]
  /\ UNCHANGED <<osAccounts, config, data, unit, service, bins, given>>

(* A step fails, or the command is killed. *)
Abandon ==
  /\ command.verb \notin {"none", "set up", "rolled back"} /\ command' = NoCommand
  /\ UNCHANGED <<osAccounts, config, data, unit, service, bins, given, ran>>

(* The daemon stores a secret, for the key it started with. *)
StoreSecret ==
  /\ service.state = "running" /\ service.home
  /\ data' = [data EXCEPT !.keys = @ \cup {service.key}, !.owner = IF @ = 0 THEN osAccounts.user ELSE @]
  /\ UNCHANGED <<osAccounts, config, unit, service, bins, command, given, ran>>

(* An operator edits a file by hand and leaves it with a mode of their own. *)
EditByHand ==
  /\ command.verb \in {"none", "set up", "rolled back"}
  /\ \E o \in Operators : /\ config[o]["config"].id # 0
                          /\ config' = [config EXCEPT ![o]["config"].mode = FALSE]
  /\ command' = NoCommand
  /\ UNCHANGED <<osAccounts, data, unit, service, bins, given, ran>>

(* Restart=on-failure *)
SystemdRestarts ==
  /\ service.state = "flapping" /\ restart
  /\ UNCHANGED <<osAccounts, config, data, unit, bins, command, given, ran>>

InstallNext ==
  \/ Call \/ Abandon \/ StoreSecret \/ EditByHand \/ SystemdRestarts
  \/ (setup \/ uninstall \/ rotate_token \/ update) /\ UNCHANGED ran

InstallSpec == InstallInit /\ [][InstallNext]_installVars

-----------------------------------------------------------------------------
(* Whatever commands are called and abandoned, what the daemon stored can   *)
(* still be used: the keys of its secrets exist, and the account that owns  *)
(* the files is the account the daemon runs as.                             *)
StoredStaysUsable ==
  /\ \A k \in data.keys : \E o \in Operators : config[o]["key"].id = k
  /\ data.owner # 0 => data.owner = osAccounts.user

(* A setup that completes leaves a host on which the daemon can start: its  *)
(* unit is loaded and its account can read every file of the operator,      *)
(* whatever earlier commands and hands left there.                          *)
SetupRepairs ==
  command.verb = "set up" =>
    /\ unit.loaded = command.op /\ Readable(command.op) /\ osAccounts.user # 0 /\ data.there

(* An update installs the binary of the release that the host announced,    *)
(* whatever pieces of other releases it was given ("a manifest from one     *)
(* release cannot be replayed into another", docs/adr/029), and without     *)
(* --force only a newer one than the binary it replaces.                    *)
InstalledIsAnnounced ==
  command.verb = "update" /\ command.step = 5 =>
    bins.target = command.tag /\ (command.tag > command.was \/ command.force)

(* "If the restart or the readiness wait fails, it restores denia.bak and   *)
(* restarts again" (docs/adr/029).                                          *)
RolledBackIsBack == command.verb = "rolled back" => bins.target = command.was
=============================================================================
