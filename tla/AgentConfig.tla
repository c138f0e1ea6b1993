----------------------------- MODULE AgentConfig -----------------------------
(***************************************************************************)
(* The start of the agent up to its main loop: main, Config and its three  *)
(* sources, and the constructor of SoftwareContainerAgent as far as it uses*)
(* them.  A setting is a key with its type; a value is known by the source *)
(* it comes from, and the manifest directory also by what its path is.     *)
(*                                                                         *)
(* A key stands for all keys that are treated alike: see TypeMap.          *)
(***************************************************************************)
EXTENDS Naturals, Sequences, FiniteSets, SequencesExt

CONSTANTS
    Mandatory,      \* keys that are mandatory, set by the build system
    Dependencies,   \* for some keys the keys they need; main passes none, Config takes any
    Old             \* number of LXC containers an earlier agent has left

Keys == {"shutdown-timeout", "manifest-dir", "session-bus", "shared-mounts", "bridge", "netmask"}

ASSUME ConfigAssumption ==
    /\ Mandatory \subseteq Keys /\ DOMAIN Dependencies \subseteq Keys
    /\ \A key \in DOMAIN Dependencies : Dependencies[key] \subseteq Keys
    /\ Old \in Nat

\* The type of each key.  The bridge's keys have no default, the others no flag.
TypeMap ==
    [key \in Keys |->
        CASE key \in {"shutdown-timeout", "netmask"} -> "int"
          [] key = "session-bus" -> "bool"
          [] OTHER -> "string"]

Defaults == Keys \ {"bridge", "netmask"}
OnCommandline == {"shutdown-timeout", "manifest-dir", "session-bus"}
Sources == <<"Commandline", "Main", "Default">>

VARIABLES
    options,   \* the command line: keys that are set, and whether it is valid
    file,      \* the config file: can be loaded, has an unknown key, and how each key is there
    dirs,      \* what the manifest path of each source is
    pc, err,   \* the next step, and the error the program ended with
    items,     \* m_allConfigs: key, type and source
    used,      \* the source of every value the agent has asked for
    old        \* what has become of the containers of an earlier agent

configVars == <<options, file, dirs, pc, err, items, used, old>>
inputs == <<options, file, dirs>>

ConfigInit ==
    /\ options \in [valid : BOOLEAN, set : SUBSET OnCommandline]
    /\ file \in [loads : BOOLEAN, unknown : BOOLEAN, has : [Keys -> {"absent", "good", "bad"}]]
    /\ Cardinality({key \in Keys : file.has[key] = "bad"}) <= 1
    /\ dirs \in [ToSet(Sources) -> {"dir", "json", "root"}] /\ dirs["Default"] = "dir"
    /\ pc = "options" /\ err = "none" /\ items = {} /\ used = <<>>
    /\ old = [c \in 1..Old |-> "there"]

----------------------------------------------------------------------------
Goto(step)  == pc' = step /\ UNCHANGED err
Throw(e)    == pc' = "exit" /\ err' = e

Item(key, source) == [key |-> key, type |-> TypeMap[key], source |-> source]

\* main appends "/" to a path of the command line that does not end in one, and a path
\* to a file with a "/" behind it is a path to nothing.
Slashed(path) == IF path = "json" THEN "missing" ELSE path

\* The command line: an unknown option ends the program, the initial values are those
\* that stand for options not set.
ParseOptions ==
    /\ pc = "options"
    /\ IF options.valid THEN Goto("main") ELSE Throw("option")
    /\ items' = IF options.valid THEN {Item(key, "Commandline") : key \in options.set} ELSE items
    /\ UNCHANGED <<inputs, used, old>>

\* typeOf: a key that is not in the map.
Unknown == file.unknown

\* MainConfigSource: load, then one item after the other; which error comes first
\* depends on the order of the groups and keys.
ReadMain ==
    /\ pc = "main"
    /\ LET bad == \E key \in Keys : file.has[key] = "bad" IN
         \/ ~file.loads /\ Throw("file") /\ UNCHANGED items
         \/ file.loads /\ Unknown /\ Throw("unknown") /\ UNCHANGED items
         \/ file.loads /\ bad /\ Throw("file") /\ UNCHANGED items
         \/ /\ file.loads /\ ~Unknown /\ ~bad /\ Goto("defaults")
            /\ items' = items \cup {Item(key, "Main") : key \in {k \in Keys : file.has[k] = "good"}}
    /\ UNCHANGED <<inputs, used, old>>

\* DefaultConfigSource
AddDefaults ==
    /\ pc = "defaults" /\ Goto("config")
    /\ items' = items \cup {Item(key, "Default") : key \in Defaults}
    /\ UNCHANGED <<inputs, used, old>>

Present == {i.key : i \in items}

AllDepsSatisfied(key) == Dependencies[key] \subseteq Present

\* assertDependencies, then assertAllMandatoryPresent.
CheckConfig ==
    /\ pc = "config"
    /\ IF \E key \in DOMAIN Dependencies \cap Present : ~AllDepsSatisfied(key) THEN Throw("dependency")
       ELSE IF ~(Mandatory \subseteq Present) THEN Throw("mandatory")
       ELSE Goto("values")
    /\ UNCHANGED <<inputs, items, used, old>>

\* Mutant: the sources are looked at in the wrong order.
PrioritizedConfigReversed(found) ==
    LET r == {k \in DOMAIN Sources : \E i \in found : i.source = Sources[k]}
    IN  Sources[CHOOSE k \in r : \A j \in r : j <= k]

\* prioritizedConfig
PrioritizedConfig(found) ==
    LET r == {k \in DOMAIN Sources : \E i \in found : i.source = Sources[k]}
    IN  Sources[CHOOSE k \in r : \A j \in r : k <= j]

\* The order in which the constructor of the agent asks for values; main asks for the
\* bus after it.
Asked == <<"shutdown-timeout", "shared-mounts", "bridge", "netmask", "manifest-dir">>

\* getConfig of one value: the items of its type and key, of the first source.
GetConfig(key, found) == used' = Append(used, PrioritizedConfig(found))

NotFound == Throw("notfound")

GetValue ==
    /\ pc = "values" /\ Len(used) < Len(Asked)
    /\ LET key   == Asked[Len(used) + 1]
           found == {i \in items : i.key = key /\ i.type = TypeMap[key]}
       IN  IF found = {} THEN NotFound /\ UNCHANGED used
           ELSE GetConfig(key, found) /\ UNCHANGED <<pc, err>>
    /\ UNCHANGED <<inputs, items, old>>

\* The path the filtered store is made with.
ManifestPath == LET s == used[5] IN IF s = "Commandline" THEN Slashed(dirs[s]) ELSE dirs[s]

\* The stores are loaded; a manifest may be malformed.
MakeStores ==
    /\ pc = "values" /\ Len(used) = Len(Asked)
    /\ \/ ManifestPath \in {"root", "missing"} /\ Throw("path")
       \/ ManifestPath \in {"dir", "json"} /\ Throw("manifest")
       \/ ManifestPath \in {"dir", "json"} /\ Goto("stores")
    /\ UNCHANGED <<inputs, items, used, old>>

\* removeOldContainers stops and destroys one container after the other and throws at the
\* first that LXC does not stop or destroy, with those before it gone; checkWorkspace, after
\* it, may throw too.
RemovedBefore(c, state) ==
    [d \in 1..Old |-> IF d < c THEN "gone" ELSE IF d = c THEN state ELSE old[d]]

CleanUp ==
    /\ pc = "stores"
    /\ \/ UNCHANGED old /\ Throw("list")
       \/ \E c \in 1..Old, state \in {"there", "stopped"} :
              old' = RemovedBefore(c, state) /\ Throw("remove")
       \/ old' = [c \in 1..Old |-> "gone"] /\ (Throw("workspace") \/ Goto("agent"))
    /\ UNCHANGED <<inputs, items, used>>

\* main asks for the bus and makes the adaptor.
MakeAdaptor ==
    /\ pc = "agent" /\ Goto("running")
    /\ LET found == {i \in items : i.key = "session-bus" /\ i.type = "bool"} IN GetConfig("session-bus", found)
    /\ UNCHANGED <<inputs, items, old>>

ConfigRest == pc \in {"running", "exit"} /\ UNCHANGED configVars

ConfigNext ==
    \/ ParseOptions \/ ReadMain \/ AddDefaults \/ CheckConfig \/ GetValue \/ MakeStores
    \/ CleanUp \/ MakeAdaptor \/ ConfigRest

\* main is one thread that runs until it is done.
ConfigSpec == ConfigInit /\ [][ConfigNext]_configVars /\ WF_configVars(ConfigNext)

----------------------------------------------------------------------------
\* No item has a type that its getter does not look for.
ConfigTypeOK ==
    /\ pc \in {"options", "main", "defaults", "config", "values", "stores", "agent", "running", "exit"}
    /\ err \in {"none", "option", "file", "unknown", "dependency", "mandatory", "notfound", "path", "manifest",
               "list", "remove", "workspace"}
    /\ old \in [1..Old -> {"there", "stopped", "gone"}]
    /\ items \subseteq [key : Keys, type : {"int", "bool", "string"}, source : ToSet(Sources)]
    /\ used \in Seq(ToSet(Sources))
    /\ \A i \in items : i.key = "session-bus" => i.type = "bool"

AskedAll == Append(Asked, "session-bus")

\* "the order of precedence is: command line, config file, defaults": whichever of them
\* set a key, the agent runs with the value of the first that did.
FirstSourceWins ==
    \A k \in DOMAIN used :
        LET key == AskedAll[k] IN
        used[k] = IF key \in options.set THEN "Commandline"
                  ELSE IF file.has[key] = "good" THEN "Main" ELSE "Default"

\* A config file with an unknown key or a value of the wrong type never gets the agent to
\* run, also if the command line overrides it; nor do missing mandatory keys, or keys
\* whose dependencies are not met.
BadConfigNeverRuns ==
    pc = "running" =>
        /\ file.loads /\ ~file.unknown
        /\ \A key \in Keys : file.has[key] # "bad"
        /\ \A key \in Mandatory : file.has[key] = "good" \/ key \in options.set \cup Defaults
        /\ \A key \in DOMAIN Dependencies : file.has[key] = "good" =>
               \A k \in Dependencies[key] : file.has[k] = "good" \/ k \in options.set \cup Defaults

\* The clean-up comes after everything that can be wrong with the configuration and the
\* manifests: a program that ends for one of these has not stopped or removed a container
\* of its predecessor.  Only the clean-up itself can end it with some of them gone; and an
\* agent that runs has removed all of them, so that their ids are free.
CleanUpErrors == {"remove", "workspace"}

OldContainersGoLast ==
    /\ err \notin {"none"} \cup CleanUpErrors => \A c \in 1..Old : old[c] = "there"
    /\ pc = "running" => \A c \in 1..Old : old[c] = "gone"

\* The agent runs with the values its sources gave and without a container of its
\* predecessor, or it ends; then only a failure of the clean-up has changed the host.
StartIsSound == FirstSourceWins /\ BadConfigNeverRuns /\ OldContainersGoLast
=============================================================================
