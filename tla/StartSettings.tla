--------------------------- MODULE StartSettings ---------------------------
(***************************************************************************)
(* What a program knows about itself: the files startSettings finds, the   *)
(* Settings and the Host it makes of them, the arguments of the program,   *)
(* and the client code that asks for all of these or changes them, at any  *)
(* time.  Files and arguments are kept from the first time they are asked  *)
(* for, which may be before the settings are loaded.                       *)
(*                                                                         *)
(* The merging of hashes and the managers that load them are external: a   *)
(* later file overrides an earlier one, a load may fail.  Placeholders for *)
(* environment variables are not resolved.                                 *)
(***************************************************************************)
EXTENDS Host, Sequences, SequencesExt

CONSTANTS
  FileNames,   \* the names of settings files, in the order they are tried
  Existing,    \* the sets of files there may be, <<path, name, extension>>
  Content,     \* Content[f]: the hash of the JSON file f
  Lower,       \* Lower[t]: the text t in lower case
  CommandLines,\* the arguments there may be, each split at its "="
  Names, Versions, Hosts,  \* what client code may set
  MaxCalls     \* bound: how often client code sets or reads something

Keys == DOMAIN Lower

ASSUME CommandLinesAssumption ==
  /\ Lower \in [Keys -> Keys]
  /\ CommandLines \subseteq Seq(Seq(Keys) \ {<<>>})

ASSUME ClientAssumption ==
  /\ Names \subseteq Texts /\ Versions \subseteq Texts
  /\ \A h \in Hosts : IsHost(h)
  /\ MaxCalls \in Nat

(* The types of the values in a settings file, of those it has. *)
TypedHash(arguments, apr) ==
  /\ DOMAIN arguments \subseteq Keys
  /\ \A k \in DOMAIN apr \cap {"name", "version", "envFile"} : apr[k] \in Texts
  /\ "host" \in DOMAIN apr =>
       /\ \A k \in DOMAIN apr["host"] \cap {"protocol", "hostName", "basePath"} :
            apr["host"][k] \in Texts
       /\ "port" \in DOMAIN apr["host"] => apr["host"]["port"] \in Int

ASSUME ContentAssumption ==
  /\ FileNames \in Seq(ToSet(FileNames))
  /\ \A files \in Existing : \A f \in {g \in files : g[3] = "json"} :
       TypedHash(Content[f].arguments, Content[f].apr)

VARIABLES
  phase,        \* where startSettings is
  exists,       \* the files there are
  settingFile,  \* the files resourceSettings has found
  argv,         \* qApp->arguments() without the program
  managerArguments,  \* those the settings manager has loaded
  arguments,    \* what getArguments keeps
  early,        \* arguments were kept before the manager had loaded
  settings,     \* the SettingsPvt, without its host
  host,         \* its host
  given,        \* what was last set of each property of the host
  calls         \* how many calls of client code changed or read something

startVars == <<phase, exists, argv, managerArguments>>
keptVars == <<settingFile, arguments, early>>
settingsVars == <<settings, host, given>>
vars == <<startVars, keptVars, settingsVars, calls>>

-----------------------------------------------------------------------------
(* The files: of each extension those that exist, by path and then by name.  *)

ListPaths == <<":", ":/qapr">>

inPath(path, ext) == [i \in DOMAIN FileNames |-> <<path, FileNames[i], ext>>]

Exists(f) == f \in exists

(* Mutant: every name is taken for a file. *)
findFileAny(ext) == inPath(ListPaths[1], ext) \o inPath(ListPaths[2], ext)

(* The loops over the paths and the names: what exists is appended. *)
existing(tried) ==
  LET upTo[n \in 0 .. Len(tried)] ==
        IF n = 0 THEN <<>>
        ELSE IF Exists(tried[n]) THEN Append(upTo[n - 1], tried[n]) ELSE upTo[n - 1]
  IN  upTo[Len(tried)]

findFile(ext) == existing(inPath(ListPaths[1], ext) \o inPath(ListPaths[2], ext))

NoFile == [setting |-> <<>>, envs |-> <<>>]

(* Kept once a settings file was found; the file that the settings name as   *)
(* their environment is asked for at that time.                              *)
resourceSettings ==
  IF settingFile.setting # <<>> THEN settingFile
  ELSE IF findFile("json") = <<>> THEN NoFile
  ELSE [setting |-> findFile("json"), envs |-> Append(findFile("env"), <<settings.envFile>>)]

(* vMerge over hashes: the last one that has a key gives its value. *)
vMerge(hashes) ==
  [k \in UNION {DOMAIN hashes[i] : i \in DOMAIN hashes} |->
     hashes[Max({i \in DOMAIN hashes : k \in DOMAIN hashes[i]})][k]]

merged(files) ==
  [arguments |-> vMerge([i \in DOMAIN files |-> Content[files[i]].arguments]),
   apr |-> vMerge([i \in DOMAIN files |-> Content[files[i]].apr])]

-----------------------------------------------------------------------------
(* The arguments: each is a key and what follows its first "=", or stands    *)
(* for itself.                                                               *)

entry(parts) ==
  IF Len(parts) = 1 THEN [k \in {parts[1]} |-> parts]
  ELSE [k \in {Lower[parts[1]]} |-> Tail(parts)]

(* The loop over the command line, from a hash to begin with. *)
insertLine(all) ==
  LET upTo[n \in 0 .. Len(argv)] ==
        IF n = 0 THEN all ELSE insert(upTo[n - 1], entry(argv[n]))
  IN  upTo[Len(argv)]

(* Mutant: those of the command line are inserted last. *)
getArgumentsOver ==
  IF arguments # <<>> THEN arguments ELSE insertLine(managerArguments)

getArguments ==
  IF arguments # <<>> THEN arguments ELSE insert(insertLine(<<>>), managerArguments)

-----------------------------------------------------------------------------
(* Settings. *)

NewSettings == [name |-> Blank, version |-> Blank, envFile |-> Blank]

setName(s, new) == IF s.name = new THEN s ELSE [s EXCEPT !.name = Trimmed[new]]

setVersion(s, new) == [s EXCEPT !.version = new]

(* The code tests and assigns the version. *)
setEnvFile(s, new) == [s EXCEPT !.version = new]

(* setValues: each property of the hash is set, in an order that is not      *)
(* known here.                                                               *)
sets(apr, key, s, set(_, _)) == IF key \in DOMAIN apr THEN set(s, apr[key]) ELSE s

setValues(apr) ==
  LET named == sets(apr, "name", settings, setName)
  IN  {sets(apr, "envFile", sets(apr, "version", named, setVersion), setEnvFile),
       sets(apr, "version", sets(apr, "envFile", named, setEnvFile), setVersion)}

(* Those of the host come one level deeper; a Host declares five properties. *)
HostProperties(values, h) ==
  LET named == sets(values, "hostName", sets(values, "protocol", h, setProtocol), setHostName)
      at == sets(values, "basePath", sets(values, "port", named, setPort), setBasePath)
  IN  sets(values, "headers", at, setHeaders)

hostValues(apr, h) == IF "host" \in DOMAIN apr THEN HostProperties(apr["host"], h) ELSE h

-----------------------------------------------------------------------------
Init ==
  /\ phase = "files"
  /\ exists \in Existing
  /\ settingFile = NoFile
  /\ argv \in CommandLines
  /\ managerArguments = <<>>
  /\ arguments = <<>>
  /\ early = FALSE
  /\ settings = NewSettings
  /\ host = HostPvt
  /\ given = HostPvt
  /\ calls = 0

(* startSettings, in the main thread. *)
FindsFiles ==
  /\ phase = "files" /\ phase' = "manager"
  /\ settingFile' = resourceSettings
  /\ UNCHANGED <<exists, argv, managerArguments, arguments, early, settingsVars, calls>>

LoadsManager ==
  /\ phase = "manager"
  /\ \/ /\ phase' = "settings"
        /\ managerArguments' = merged(settingFile.setting).arguments
     \/ phase' = "failed" /\ UNCHANGED managerArguments
  /\ UNCHANGED <<exists, argv, keptVars, settingsVars, calls>>

LoadsSettings ==
  /\ phase = "settings" /\ phase' \in {"started", "failed"}
  /\ LET apr == merged(settingFile.setting).apr
     IN  /\ settings' \in setValues(apr)
         /\ host' = hostValues(apr, host)
         /\ given' = hostValues(apr, given)
  /\ UNCHANGED <<exists, argv, managerArguments, keptVars, calls>>

-----------------------------------------------------------------------------
(* Client code. *)

Calls == calls < MaxCalls /\ calls' = calls + 1

AsksFiles ==
  /\ Calls
  /\ settingFile' = resourceSettings
  /\ UNCHANGED <<startVars, arguments, early, settingsVars>>

AsksArguments ==
  /\ Calls
  /\ arguments' = getArguments
  /\ early' = IF phase \in {"files", "manager"} /\ arguments' # <<>> THEN TRUE ELSE early
  /\ UNCHANGED <<startVars, settingFile, settingsVars>>

SetsSettings ==
  /\ Calls
  /\ settings' \in {setName(settings, n) : n \in Names \cup {Blank}}
               \cup {setVersion(settings, v) : v \in Versions \cup {Blank}}
               \cup {setEnvFile(settings, v) : v \in Versions \cup {Blank}}
  /\ UNCHANGED <<startVars, keptVars, host, given>>

SetsHostProperty ==
  /\ Calls
  /\ \E h \in Hosts :
       \/ host' = setProtocol(host, h.protocol) /\ given' = setProtocol(given, h.protocol)
       \/ host' = setHostName(host, h.hostName) /\ given' = setHostName(given, h.hostName)
       \/ host' = setPort(host, h.port) /\ given' = setPort(given, h.port)
       \/ host' = setHeaders(host, h.headers) /\ given' = setHeaders(given, h.headers)
       \/ /\ host' = addHeaders(host, h.headers)
          /\ given' = [given EXCEPT !.headers =
                         [k \in DOMAIN @ \cup DOMAIN h.headers |->
                            IF k \in DOMAIN h.headers THEN h.headers[k] ELSE @[k]]]
       \/ host' = setBasePath(host, h.basePath) /\ given' = setBasePath(given, h.basePath)
  /\ UNCHANGED <<startVars, keptVars, settings>>

(* setHost clears the host and then reads the other one, all of its          *)
(* properties; from itself it reads what it is after it was cleared.         *)
SetsHost ==
  /\ Calls
  /\ \E h \in Hosts : host' = shown(h) /\ given' = h
  /\ UNCHANGED <<startVars, keptVars, settings>>

SetsHostItself ==
  /\ Calls
  /\ host' = shown(clear(host))
  /\ given' = HostPvt
  /\ UNCHANGED <<startVars, keptVars, settings>>

ResetsHost ==
  /\ Calls
  /\ host' = clear(host)
  /\ given' = HostPvt
  /\ UNCHANGED <<startVars, keptVars, settings>>

ReadsHost ==
  /\ Calls
  /\ host' \in {hostName(host), port(host), basePath(host), allRead(host)}
  /\ UNCHANGED <<startVars, keptVars, settings, given>>

Start == FindsFiles \/ LoadsManager \/ LoadsSettings

Client ==
  \/ AsksFiles \/ AsksArguments
  \/ SetsSettings \/ SetsHostProperty \/ SetsHost \/ SetsHostItself \/ ResetsHost \/ ReadsHost

Next == Start \/ Client

Spec == Init /\ [][Next]_vars

-----------------------------------------------------------------------------
(* The type of every variable. *)
TypeOK ==
  /\ phase \in {"files", "manager", "settings", "started", "failed"}
  /\ exists \in Existing
  /\ ToSet(settingFile.setting) \subseteq {f \in exists : f[3] = "json"}
  /\ ToSet(settingFile.envs) \subseteq {f \in exists : f[3] = "env"} \cup {<<t>> : t \in Texts}
  /\ argv \in CommandLines
  /\ DOMAIN managerArguments \cup DOMAIN arguments \subseteq Keys
  /\ early \in BOOLEAN
  /\ settings \in [name : Texts, version : Texts, envFile : Texts]
  /\ IsHost(host) /\ IsHost(given)
  /\ calls \in 0 .. MaxCalls

(* The key and the value of an argument of the command line. *)
KeyOf(parts) == IF Len(parts) > 1 THEN Lower[parts[1]] ELSE parts[1]

ValueOf(parts) == IF Len(parts) > 1 THEN SubSeq(parts, 2, Len(parts)) ELSE parts

(* Unless they were asked for before the settings were loaded, the arguments *)
(* are the mix that Application::arguments promises: for each key that of    *)
(* the manager, or else the last one of the command line, however late they  *)
(* are asked for and whatever is called between.                             *)
ArgumentsMixed ==
  arguments # <<>> /\ ~early =>
    /\ DOMAIN arguments = DOMAIN managerArguments \cup {KeyOf(argv[i]) : i \in DOMAIN argv}
    /\ \A k \in DOMAIN arguments :
         LET last == Max({0} \cup {i \in DOMAIN argv : KeyOf(argv[i]) = k})
         IN  arguments[k] = IF k \in DOMAIN managerArguments THEN managerArguments[k]
                            ELSE ValueOf(argv[last])

(* Whatever was read, reset, replaced or merged between, each getter answers *)
(* what was last set, or its default where that was empty.                   *)
HostShowsWhatWasSet ==
  shown(host) =
    [protocol |-> IF Trimmed[given.protocol] = Blank THEN "http" ELSE given.protocol,
     hostName |-> IF given.hostName = Blank THEN "localhost" ELSE given.hostName,
     port |-> IF given.port <= 0 THEN 80 ELSE given.port,
     headers |-> given.headers,
     basePath |-> IF Trimmed[given.basePath] = Blank THEN "/" ELSE given.basePath]

(* The settings declare a property envFile, written by setEnvFile, and the   *)
(* settings file has one: when startSettings is over, that file is one of    *)
(* the environment files it reads.                                           *)
EnvFileUsed ==
  phase = "started" =>
    LET apr == merged(settingFile.setting).apr
    IN  "envFile" \in DOMAIN apr => <<apr["envFile"]>> \in ToSet(settingFile.envs)

=============================================================================
