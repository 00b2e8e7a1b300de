------------------------------- MODULE Settings -------------------------------
(***************************************************************************)
(* The settings in force: which file is read, whether it is accepted, and  *)
(* what it allows to be asked of a guest.  A file holds [opens, json, safe,*)
(* single, settings]: whether it can be read, is JSON, has none of the     *)
(* forbidden fields, and is one value of the known fields.                 *)
(*                                                                         *)
(* Settings are [schema, inventory, root, uri, thresholds, observability,  *)
(* host, guest, services, databases]; texts that only have to be there and *)
(* to be well formed are "", "good" or "bad".  A host is [enabled,         *)
(* interval], a guest [enabled, transport, user, timeout, parallel, hosts],*)
(* a service [id, vm, units, checks] with its checks [name, ok], and a     *)
(* database [vm, kind, name, credential].                                  *)
(***************************************************************************)
EXTENDS CommandLine, Functions

CONSTANTS Files,                 \* what is found under a path
          EnvironmentPath,       \* SOLIS_CONFIG
          InstalledDefaultPath   \* the path a build may set

Positive(text, required) == text = "good" \/ (text = "" /\ ~required)

validateGuestObservability(guest) ==
  /\ guest.transport \in {"", "ssh"}
  /\ guest.parallel >= 0
  /\ Positive(guest.timeout, guest.enabled)
  /\ guest.enabled =>
       guest.transport = "ssh" /\ guest.parallel > 0 /\ guest.user = "good" /\ guest.hosts # ""

serviceIdentity(service) == IF service.id # "" THEN service.id ELSE service.vm
Distinct(seq) == IsInjective(seq)

validateServices(services) ==
  /\ Distinct([i \in DOMAIN services |-> serviceIdentity(services[i])])
  /\ \A service \in ToSet(services) :
       /\ service.vm # "" /\ serviceIdentity(service) # "bad"
       /\ Distinct(service.units) /\ "bad" \notin ToSet(service.units)
       /\ Distinct([i \in DOMAIN service.checks |-> service.checks[i].name])
       /\ \A check \in ToSet(service.checks) : check.name # "" /\ check.ok

validateDatabases(databases) ==
  /\ Distinct([i \in DOMAIN databases |-> <<databases[i].vm, databases[i].name>>])
  /\ \A database \in ToSet(databases) :
       /\ database.vm # "" /\ database.kind = "postgresql"
       /\ database.name \notin {"", "bad"} /\ database.credential # "bad"

Validate(settings) ==
  /\ settings.schema \in {"1", "2"}
  /\ settings.schema = "1" => ~settings.observability
  /\ settings.inventory # "" /\ settings.root # "" /\ settings.uri # ""
  /\ settings.thresholds = "good"
  /\ settings.observability =>
       /\ Positive(settings.host.interval, settings.host.enabled)
       /\ validateGuestObservability(settings.guest)
       /\ validateServices(settings.services) /\ validateDatabases(settings.databases)

\* The services and databases have to be of VMs of the inventory.
ValidateWithInventory(settings, names) ==
  /\ Validate(settings)
  /\ settings.observability =>
       \A entry \in ToSet(settings.services) \cup ToSet(settings.databases) : entry.vm \in names

-----------------------------------------------------------------------------
NoHost == [enabled |-> FALSE, interval |-> ""]
NoGuest == [enabled |-> FALSE, transport |-> "", user |-> "", timeout |-> "", parallel |-> 0, hosts |-> ""]

DevelopmentDefaults ==
  [schema |-> "1", inventory |-> "good", root |-> OutputRoot, uri |-> "good", thresholds |-> "good",
   observability |-> FALSE, host |-> NoHost, guest |-> NoGuest, services |-> <<>>, databases |-> <<>>]

\* What a file says is of the type of the settings.
SettingsTyped(settings) ==
  /\ DOMAIN settings = DOMAIN DevelopmentDefaults /\ settings.observability \in BOOLEAN
  /\ DOMAIN settings.guest = DOMAIN NoGuest /\ settings.guest.enabled \in BOOLEAN

ASSUME SettingsAssumption == \A path \in DOMAIN Files : SettingsTyped(Files[path].settings)

EffectiveObservability(settings) ==
  IF settings.observability THEN settings
  ELSE [settings EXCEPT !.host = NoHost, !.guest = NoGuest, !.services = <<>>, !.databases = <<>>]

Load(path) ==
  LET file == Files[path]
  IN [ok |-> /\ path \in DOMAIN Files
             /\ file.opens /\ file.json /\ file.safe /\ file.single /\ Validate(file.settings),
      settings |-> IF path \in DOMAIN Files THEN file.settings ELSE DevelopmentDefaults]

WithoutFlag(args, i) == SubSeq(args, 1, i - 1) \o SubSeq(args, i + 2, Len(args))

\* --config and its path are taken out wherever they are; once.
extractConfigFlag(args) ==
  LET flags == {i \in DOMAIN args : Is(args[i], "--config") /\ args[i].form = "bare"}
      first == CHOOSE i \in flags : TRUE
  IN CASE flags = {} -> [ok |-> TRUE, path |-> "", args |-> args]
       [] flags # {} /\ (flags # {first} \/ first = Len(args)) -> [ok |-> FALSE, path |-> "", args |-> <<>>]
       [] OTHER -> [ok |-> IsWord(args[first + 1]) /\ args[first + 1].text # "",
                    path |-> args[first + 1].text, args |-> WithoutFlag(args, first)]

FirstNonEmpty(paths) == SelectSeq(paths, LAMBDA path : path # "")

Resolve(args) ==
  LET flag == extractConfigFlag(args)
      paths == FirstNonEmpty(<<flag.path, EnvironmentPath, InstalledDefaultPath>>)
      file == IF paths = <<>> THEN [ok |-> TRUE, settings |-> DevelopmentDefaults] ELSE Load(paths[1])
  IN [ok |-> flag.ok /\ file.ok, args |-> flag.args, settings |-> file.settings]
=============================================================================
