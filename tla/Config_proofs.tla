---------------------------- MODULE Config_proofs ----------------------------
(***************************************************************************)
(* The start of the agent is sound for every table of mandatory keys and   *)
(* of dependencies: whatever the command line and the config file say, the *)
(* agent runs with the value of the first source that has one, or ends;    *)
(* containers of its predecessor are gone then only if their removal was   *)
(* what failed, or the check behind it.                                    *)
(*                                                                         *)
(* The invariant says, for every step of main, which items the sources have*)
(* delivered so far and what the checks behind it have excluded; what a    *)
(* source delivers is determined by the command line and the file, which   *)
(* do not change.                                                          *)
(*                                                                         *)
(* The second part is about the capability stores, for any manifests and   *)
(* requests: references are counted right, what is stored is whole and is  *)
(* not changed by use, and requests get what they ask for.                 *)
(***************************************************************************)
EXTENDS MCConfig, FiniteSetTheorems, TLAPS

\* The source whose value is used for a key.
FirstSource(key) ==
    IF key \in options.set THEN "Commandline"
    ELSE IF file.has[key] = "good" THEN "Main" ELSE "Default"

Good == {key \in Keys : file.has[key] = "good"}

FromCommandline == {Item(key, "Commandline") : key \in options.set}
FromMain        == {Item(key, "Main") : key \in Good}
FromDefaults    == {Item(key, "Default") : key \in Defaults}

AllItems == FromCommandline \cup FromMain \cup FromDefaults

\* A key some source has a value for.
Given(key) == key \in options.set \/ key \in Good \/ key \in Defaults

InputsOK ==
    /\ options.set \subseteq OnCommandline
    /\ DOMAIN file.has = Keys

\* The steps after those of the sources, and after the checks of Config.
Loaded  == {"config", "values", "stores", "agent", "running"}
Checked == Loaded \ {"config"}

\* What the sources have delivered when each step is taken.
ItemsInv ==
    /\ pc = "options" => items = {}
    /\ pc = "main" => items = FromCommandline
    /\ pc = "defaults" => items = FromCommandline \cup FromMain
    /\ pc \in Loaded => items = AllItems
    /\ items \subseteq AllItems

\* What the sources and the checks have excluded.
FileInv ==
    pc \in Loaded \cup {"defaults"} =>
        file.loads /\ ~file.unknown /\ \A key \in Keys : file.has[key] # "bad"

ChecksInv ==
    pc \in Checked =>
        /\ \A key \in Mandatory : Given(key)
        /\ \A key \in DOMAIN Dependencies : Given(key) => \A k \in Dependencies[key] : Given(k)

\* How many values the agent has asked for, and where they came from.
UsedInv ==
    /\ used \in Seq({"Commandline", "Main", "Default"})
    /\ Len(used) <= 6
    /\ pc \in {"options", "main", "defaults", "config"} => Len(used) = 0
    /\ pc = "values" => Len(used) <= 5
    /\ pc \in {"stores", "agent"} => Len(used) = 5
    /\ \A k \in 1..Len(used) : used[k] = FirstSource(AskedAll[k])

\* The containers of the predecessor go last: none is touched before, all are gone after.
EndInv ==
    /\ pc # "exit" => err = "none"
    /\ pc \notin {"agent", "running"} /\ err \notin CleanUpErrors => \A c \in 1..Old : old[c] = "there"
    /\ pc \in {"agent", "running"} => \A c \in 1..Old : old[c] = "gone"
    /\ old \in [1..Old -> {"there", "stopped", "gone"}]
    /\ pc \in {"options", "main", "defaults", "config", "values", "stores", "agent", "running", "exit"}
    /\ err \in {"none", "option", "file", "unknown", "dependency", "mandatory", "notfound", "path", "manifest",
               "list", "remove", "workspace"}

Inv == InputsOK /\ ItemsInv /\ FileInv /\ ChecksInv /\ UsedInv /\ EndInv

----------------------------------------------------------------------------
\* The items of a key and of the type its getter looks for.
Found(key) == {i \in items : i.key = key /\ i.type = TypeMap[key]}

\* prioritizedConfig, on items that have one: the first source in the order of Sources.
LEMMA PrioritizedLemma ==
    ASSUME NEW found
    PROVE  /\ (\E i \in found : i.source = "Commandline") => PrioritizedConfig(found) = "Commandline"
           /\ (\E i \in found : i.source = "Main") /\ ~(\E i \in found : i.source = "Commandline")
                  => PrioritizedConfig(found) = "Main"
           /\ (/\ \E i \in found : i.source = "Default"
               /\ ~(\E i \in found : i.source = "Commandline")
               /\ ~(\E i \in found : i.source = "Main"))
                  => PrioritizedConfig(found) = "Default"
<1> DEFINE r == {k \in DOMAIN Sources : \E i \in found : i.source = Sources[k]}
           least == CHOOSE k \in r : \A j \in r : k <= j
<1>1. /\ DOMAIN Sources = {1, 2, 3}
      /\ Sources[1] = "Commandline" /\ Sources[2] = "Main" /\ Sources[3] = "Default"
  BY DEF Sources
<1>2. /\ 1 \in r <=> \E i \in found : i.source = "Commandline"
      /\ 2 \in r <=> \E i \in found : i.source = "Main"
      /\ 3 \in r <=> \E i \in found : i.source = "Default"
      /\ r \subseteq {1, 2, 3}
  BY <1>1
<1>3. PrioritizedConfig(found) = Sources[least]
  BY DEF PrioritizedConfig
<1> HIDE DEF r
<1>4. ASSUME NEW m \in r, \A j \in r : m <= j
      PROVE  least = m
  <2>1. least \in r /\ \A j \in r : least <= j
    BY <1>4
  <2>2. least <= m /\ m <= least
    BY <1>4, <2>1
  <2>3. least \in {1, 2, 3} /\ m \in {1, 2, 3}
    BY <1>2, <1>4, <2>1
  <2> HIDE DEF least
  <2> QED
    BY <2>2, <2>3
<1>5. 1 \in r => least = 1
  BY <1>2, <1>4
<1>6. 2 \in r /\ ~(1 \in r) => least = 2
  BY <1>2, <1>4
<1>7. 3 \in r /\ ~(1 \in r) /\ ~(2 \in r) => least = 3
  BY <1>2, <1>4
<1> HIDE DEF least
<1>8. /\ 1 \in r => PrioritizedConfig(found) = "Commandline"
      /\ 2 \in r /\ ~(1 \in r) => PrioritizedConfig(found) = "Main"
      /\ 3 \in r /\ ~(1 \in r) /\ ~(2 \in r) => PrioritizedConfig(found) = "Default"
  BY <1>1, <1>3, <1>5, <1>6, <1>7, Zenon
<1> QED
  BY <1>2, <1>8, Zenon

\* An item has the key, the type and the source it was made with.
LEMMA ItemLemma ==
    ASSUME NEW key, NEW source
    PROVE  /\ Item(key, source).key = key
           /\ Item(key, source).type = TypeMap[key]
           /\ Item(key, source).source = source
BY DEF Item

\* Where an item comes from.
LEMMA AllItemsLemma ==
    \A i : i \in AllItems <=>
        \/ \E key \in options.set : i = Item(key, "Commandline")
        \/ \E key \in Good : i = Item(key, "Main")
        \/ \E key \in Defaults : i = Item(key, "Default")
BY DEF AllItems, FromCommandline, FromMain, FromDefaults

\* Once all sources are read, the keys that are present are those some source has.
LEMMA PresentLemma ==
    ASSUME items = AllItems
    PROVE  \A key : key \in Present <=> Given(key)
<1> TAKE key
<1>1. key \in Present <=> \E i \in AllItems : key = i.key
  BY DEF Present
<1>2. ASSUME NEW i \in AllItems, key = i.key PROVE Given(key)
  BY <1>2, AllItemsLemma, ItemLemma DEF Given
<1>3. ASSUME Given(key) PROVE \E i \in AllItems : key = i.key
  <2>1. CASE key \in options.set
    BY <2>1, AllItemsLemma, ItemLemma
  <2>2. CASE key \in Good
    BY <2>2, AllItemsLemma, ItemLemma
  <2>3. CASE key \in Defaults
    BY <2>3, AllItemsLemma, ItemLemma
  <2> QED
    BY <1>3, <2>1, <2>2, <2>3 DEF Given
<1> QED
  BY <1>1, <1>2, <1>3

\* getConfig: it finds something if some source has the key, and uses the first one.
LEMMA FoundLemma ==
    ASSUME items = AllItems, NEW key
    PROVE  /\ Found(key) = {} <=> ~Given(key)
           /\ Given(key) => PrioritizedConfig(Found(key)) = FirstSource(key)
<1>1. \A i : i \in Found(key) <=>
          \/ key \in options.set /\ i = Item(key, "Commandline")
          \/ key \in Good /\ i = Item(key, "Main")
          \/ key \in Defaults /\ i = Item(key, "Default")
  <2>1. \A i : i \in Found(key) <=> i \in AllItems /\ i.key = key /\ i.type = TypeMap[key]
    BY DEF Found
  <2> QED
    BY <2>1, AllItemsLemma, ItemLemma
<1>2. Found(key) = {} <=> ~Given(key)
  BY <1>1, Zenon DEF Given
<1>3. /\ (\E i \in Found(key) : i.source = "Commandline") <=> key \in options.set
      /\ (\E i \in Found(key) : i.source = "Main") <=> key \in Good
      /\ (\E i \in Found(key) : i.source = "Default") <=> key \in Defaults
  <2>1. "Commandline" # "Main" /\ "Commandline" # "Default" /\ "Main" # "Default"
    OBVIOUS
  <2> QED
    BY <1>1, <2>1, ItemLemma
<1>4. key \in Good => file.has[key] = "good"
  BY DEF Good
<1>5. Given(key) /\ ~(key \in options.set) /\ ~(key \in Good) => file.has[key] # "good"
  BY DEF Given, Good, Defaults
<1>6. CASE key \in options.set
  BY <1>2, <1>3, <1>6, PrioritizedLemma DEF FirstSource
<1>7. CASE ~(key \in options.set) /\ key \in Good
  BY <1>2, <1>3, <1>4, <1>7, PrioritizedLemma DEF FirstSource
<1>8. CASE ~(key \in options.set) /\ ~(key \in Good)
  BY <1>2, <1>3, <1>5, <1>8, PrioritizedLemma DEF FirstSource, Given
<1> QED
  BY <1>6, <1>7, <1>8

\* The values the constructor asks for, and that of main after it.
LEMMA AskedLemma ==
    /\ Len(Asked) = 5
    /\ \A k \in 1..5 : AskedAll[k] = Asked[k] /\ AskedAll[k] \in Keys
    /\ AskedAll[6] = "session-bus"
    /\ Len(AskedAll) = 6
<1>1. Len(Asked) = 5 /\ Asked \in Seq(Keys)
  BY DEF Asked, Keys
<1> QED
  BY <1>1 DEF AskedAll, Asked, Keys

----------------------------------------------------------------------------
\* The program starts with no items.
LEMMA InitInv == ConfigInit => Inv
<1> SUFFICES ASSUME ConfigInit PROVE Inv
  OBVIOUS
<1>1. InputsOK
  BY DEF ConfigInit, InputsOK
<1>2. ItemsInv
  BY DEF ConfigInit, ItemsInv, Loaded
<1>3. FileInv /\ ChecksInv
  BY DEF ConfigInit, FileInv, ChecksInv, Checked, Loaded
<1>4. UsedInv
  BY DEF ConfigInit, UsedInv
<1>5. EndInv
  BY DEF ConfigInit, EndInv
<1> QED
  BY <1>1, <1>2, <1>3, <1>4, <1>5 DEF Inv

\* What the sources have does not depend on anything but the command line and the file.
LEMMA SourcesStay ==
    ASSUME UNCHANGED inputs
    PROVE  /\ AllItems' = AllItems
           /\ FromCommandline' = FromCommandline
           /\ FromMain' = FromMain
           /\ \A key : Given(key)' <=> Given(key)
           /\ \A key : FirstSource(key)' = FirstSource(key)
           /\ InputsOK => InputsOK'
BY DEF inputs, AllItems, FromCommandline, FromMain, FromDefaults, Good, Given, FirstSource, InputsOK

\* The end of the program with an error: nothing else is left to show.
LEMMA ThrowLemma ==
    ASSUME Inv, NEW e \in {"option", "file", "unknown", "dependency", "mandatory", "notfound", "path", "manifest",
                             "list", "remove", "workspace"},
           Throw(e), pc \notin {"agent", "running", "exit"}, UNCHANGED <<inputs, items, used>>,
           \/ UNCHANGED old
           \/ e \in CleanUpErrors /\ old' \in [1..Old -> {"there", "stopped", "gone"}]
    PROVE  Inv'
<1>1. InputsOK'
  BY SourcesStay DEF Inv
<1>2. ItemsInv'
  BY SourcesStay DEF Inv, ItemsInv, Throw, Loaded
<1>3. FileInv' /\ ChecksInv'
  BY DEF FileInv, ChecksInv, Throw, Loaded, Checked
<1>4. UsedInv'
  BY SourcesStay DEF Inv, UsedInv, Throw
<1>5. EndInv'
  BY DEF Inv, EndInv, Throw, CleanUpErrors
<1> QED
  BY <1>1, <1>2, <1>3, <1>4, <1>5 DEF Inv

\* One more value, of the first source that has it.
LEMMA UsedLemma ==
    ASSUME UsedInv, UNCHANGED inputs, Len(used) <= 5,
           \/ pc = "values" /\ pc' = "values" /\ Len(used) <= 4
           \/ pc = "agent" /\ pc' = "running",
           NEW source, source = FirstSource(AskedAll[Len(used) + 1]), used' = Append(used, source)
    PROVE  UsedInv'
<1>1. source \in {"Commandline", "Main", "Default"}
  BY DEF FirstSource
<1>2. used \in Seq({"Commandline", "Main", "Default"})
  BY DEF UsedInv
<1>3. used' \in Seq({"Commandline", "Main", "Default"}) /\ Len(used') = Len(used) + 1
  BY <1>1, <1>2
<1>4. \A k \in 1..Len(used') : used'[k] = FirstSource(AskedAll[k])
  <2> TAKE k \in 1..Len(used')
  <2>1. CASE k = Len(used) + 1
    BY <1>2, <2>1
  <2>2. CASE k # Len(used) + 1
    <3>1. k \in 1..Len(used) /\ used'[k] = used[k]
      BY <1>2, <1>3, <2>2
    <3> QED
      BY <3>1 DEF UsedInv
  <2> QED
    BY <2>1, <2>2
<1>5. \A key : FirstSource(key)' = FirstSource(key)
  BY SourcesStay
<1>6. \A k \in 1..Len(used') : used'[k] = FirstSource(AskedAll[k])'
  BY <1>4, <1>5
<1> QED
  BY <1>2, <1>3, <1>6 DEF UsedInv

\* Every step of main keeps the invariant.
LEMMA NextInv == Inv /\ [ConfigNext]_configVars => Inv'
<1> SUFFICES ASSUME Inv, [ConfigNext]_configVars PROVE Inv'
  OBVIOUS
<1> USE DEF Goto
<1>1. CASE ParseOptions
  <2>1. CASE ~options.valid
    <3>1. Throw("option") /\ UNCHANGED <<inputs, items, used, old>> /\ pc \notin {"agent", "running", "exit"}
      BY <1>1, <2>1 DEF ParseOptions
    <3> QED
      BY <3>1, ThrowLemma
  <2>2. CASE options.valid
    <3>1. /\ pc = "options" /\ pc' = "main" /\ items' = FromCommandline
          /\ UNCHANGED <<err, inputs, used, old>>
      BY <1>1, <2>2 DEF ParseOptions, FromCommandline
    <3>2. InputsOK'
      BY <3>1, SourcesStay DEF Inv
    <3>3. ItemsInv'
      BY <3>1, SourcesStay DEF ItemsInv, Loaded, AllItems
    <3>4. FileInv' /\ ChecksInv'
      BY <3>1 DEF FileInv, ChecksInv, Checked, Loaded
    <3>5. UsedInv'
      BY <3>1, SourcesStay DEF Inv, UsedInv
    <3>6. EndInv'
      BY <3>1 DEF Inv, EndInv
    <3> QED
      BY <3>2, <3>3, <3>4, <3>5, <3>6 DEF Inv
  <2> QED
    BY <2>1, <2>2
<1>2. CASE ReadMain
  <2>1. CASE \E e \in {"file", "unknown"} : Throw(e) /\ UNCHANGED items
    <3>1. PICK e \in {"file", "unknown"} : Throw(e) /\ UNCHANGED items
      BY <2>1
    <3>2. UNCHANGED <<inputs, items, used, old>> /\ pc \notin {"agent", "running", "exit"}
      BY <1>2, <3>1 DEF ReadMain
    <3> QED
      BY <3>1, <3>2, ThrowLemma
  <2>2. CASE /\ file.loads /\ ~Unknown /\ ~(\E key \in Keys : file.has[key] = "bad")
             /\ Goto("defaults")
             /\ items' = items \cup {Item(key, "Main") : key \in {k \in Keys : file.has[k] = "good"}}
    <3>1. /\ pc = "main" /\ pc' = "defaults" /\ items' = items \cup FromMain
          /\ UNCHANGED <<err, inputs, used, old>>
      BY <1>2, <2>2 DEF ReadMain, FromMain, Good
    <3>2. InputsOK'
      BY <3>1, SourcesStay DEF Inv
    <3>3. ItemsInv'
      BY <3>1, SourcesStay DEF Inv, ItemsInv, Loaded, AllItems
    <3>4. FileInv'
      BY <2>2, <3>1 DEF FileInv, inputs, Unknown
    <3>5. ChecksInv'
      BY <3>1 DEF ChecksInv, Checked, Loaded
    <3>6. UsedInv'
      BY <3>1, SourcesStay DEF Inv, UsedInv
    <3>7. EndInv'
      BY <3>1 DEF Inv, EndInv
    <3> QED
      BY <3>2, <3>3, <3>4, <3>5, <3>6, <3>7 DEF Inv
  <2> QED
    BY <1>2, <2>1, <2>2 DEF ReadMain
<1>3. CASE AddDefaults
  <2>1. /\ pc = "defaults" /\ pc' = "config" /\ items' = items \cup FromDefaults
        /\ UNCHANGED <<err, inputs, used, old>>
    BY <1>3 DEF AddDefaults, FromDefaults
  <2>2. InputsOK'
    BY <2>1, SourcesStay DEF Inv
  <2>3. ItemsInv'
    BY <2>1, SourcesStay DEF Inv, ItemsInv, Loaded, AllItems
  <2>4. FileInv'
    BY <2>1 DEF Inv, FileInv, inputs
  <2>5. ChecksInv'
    BY <2>1 DEF ChecksInv, Checked, Loaded
  <2>6. UsedInv'
    BY <2>1, SourcesStay DEF Inv, UsedInv
  <2>7. EndInv'
    BY <2>1 DEF Inv, EndInv
  <2> QED
    BY <2>2, <2>3, <2>4, <2>5, <2>6, <2>7 DEF Inv
<1>4. CASE CheckConfig
  <2>1. CASE \E e \in {"dependency", "mandatory"} : Throw(e)
    <3>1. PICK e \in {"dependency", "mandatory"} : Throw(e)
      BY <2>1
    <3>2. UNCHANGED <<inputs, items, used, old>> /\ pc \notin {"agent", "running", "exit"}
      BY <1>4 DEF CheckConfig
    <3> QED
      BY <3>1, <3>2, ThrowLemma
  <2>2. CASE /\ ~(\E key \in DOMAIN Dependencies \cap Present : ~AllDepsSatisfied(key))
             /\ Mandatory \subseteq Present
             /\ Goto("values")
    <3>1. /\ pc = "config" /\ pc' = "values"
          /\ UNCHANGED <<err, inputs, items, used, old>>
      BY <1>4, <2>2 DEF CheckConfig
    <3>2. InputsOK'
      BY <3>1, SourcesStay DEF Inv
    <3>3. ItemsInv' /\ items = AllItems
      BY <3>1, SourcesStay DEF Inv, ItemsInv, Loaded
    <3>4. FileInv'
      BY <3>1 DEF Inv, FileInv, inputs, Loaded
    <3>5. /\ \A key \in Mandatory : Given(key)
          /\ \A key \in DOMAIN Dependencies : Given(key) => \A k \in Dependencies[key] : Given(k)
      BY <2>2, <3>3, PresentLemma DEF AllDepsSatisfied
    <3>6. ChecksInv'
      BY <3>1, <3>5, SourcesStay DEF ChecksInv
    <3>7. UsedInv'
      BY <3>1, SourcesStay DEF Inv, UsedInv
    <3>8. EndInv'
      BY <3>1 DEF Inv, EndInv
    <3> QED
      BY <3>2, <3>3, <3>4, <3>6, <3>7, <3>8 DEF Inv
  <2> QED
    BY <1>4, <2>1, <2>2 DEF CheckConfig
<1>5. CASE GetValue
  <2> DEFINE key == Asked[Len(used) + 1]
  <2>1. /\ items = AllItems /\ pc = "values" /\ Len(used) <= 4 /\ Len(used) <= 5
        /\ key = AskedAll[Len(used) + 1]
    <3>1. pc = "values" /\ Len(used) < Len(Asked)
      BY <1>5 DEF GetValue
    <3>2. items = AllItems
      BY <3>1 DEF Inv, ItemsInv, Loaded
    <3> DEFINE n == Len(used)
    <3>3. n \in Nat /\ n < 5
      BY <3>1, AskedLemma DEF Inv, UsedInv
    <3> HIDE DEF n
    <3>4. n <= 4 /\ n <= 5 /\ n + 1 \in 1..5
      BY <3>3
    <3> USE DEF n
    <3> QED
      BY <3>1, <3>2, <3>4, AskedLemma
  <2>2. CASE Found(key) = {}
    <3>1. Throw("notfound") /\ UNCHANGED <<inputs, items, used, old>> /\ pc \notin {"agent", "running", "exit"}
      BY <1>5, <2>1, <2>2 DEF GetValue, Found, NotFound
    <3> QED
      BY <3>1, ThrowLemma
  <2>3. CASE Found(key) # {}
    <3>1. used' = Append(used, PrioritizedConfig(Found(key))) /\ UNCHANGED <<pc, err, inputs, items, old>>
      BY <1>5, <2>1, <2>3 DEF GetValue, Found, GetConfig
    <3>2. PrioritizedConfig(Found(key)) = FirstSource(AskedAll[Len(used) + 1])
      BY <2>1, <2>3, FoundLemma
    <3>3. UsedInv'
      <4>1. pc' = "values"
        BY <2>1, <3>1
      <4> HIDE DEF key
      <4> QED
        BY <2>1, <3>1, <3>2, <4>1, UsedLemma DEF Inv
    <3>4. InputsOK' /\ ItemsInv'
      BY <3>1, SourcesStay DEF Inv, ItemsInv
    <3>5. FileInv' /\ EndInv'
      BY <3>1 DEF Inv, FileInv, EndInv, inputs
    <3>6. ChecksInv'
      BY <3>1, SourcesStay DEF Inv, ChecksInv
    <3> QED
      BY <3>3, <3>4, <3>5, <3>6 DEF Inv
  <2> QED
    BY <2>2, <2>3
<1>6. CASE MakeStores
  <2>1. CASE \E e \in {"path", "manifest"} : Throw(e)
    <3>1. PICK e \in {"path", "manifest"} : Throw(e)
      BY <2>1
    <3>2. UNCHANGED <<inputs, items, used, old>> /\ pc \notin {"agent", "running", "exit"}
      BY <1>6 DEF MakeStores
    <3> QED
      BY <3>1, <3>2, ThrowLemma
  <2>2. CASE Goto("stores")
    <3>1. /\ pc = "values" /\ pc' = "stores" /\ Len(used) = 5
          /\ UNCHANGED <<err, inputs, items, used, old>>
      BY <1>6, <2>2, AskedLemma DEF MakeStores
    <3>2. InputsOK' /\ ItemsInv'
      BY <3>1, SourcesStay DEF Inv, ItemsInv, Loaded
    <3>3. FileInv'
      BY <3>1 DEF Inv, FileInv, inputs, Loaded
    <3>4. ChecksInv'
      BY <3>1, SourcesStay DEF Inv, ChecksInv, Checked, Loaded
    <3>5. UsedInv'
      BY <3>1, SourcesStay DEF Inv, UsedInv
    <3>6. EndInv'
      BY <3>1 DEF Inv, EndInv
    <3> QED
      BY <3>2, <3>3, <3>4, <3>5, <3>6 DEF Inv
  <2> QED
    BY <1>6, <2>1, <2>2 DEF MakeStores
<1>7. CASE CleanUp
  <2> DEFINE States == {"there", "stopped", "gone"}
  <2>1. CASE UNCHANGED old /\ Throw("list")
    <3>1. UNCHANGED <<inputs, items, used>> /\ pc \notin {"agent", "running", "exit"}
      BY <1>7 DEF CleanUp
    <3> QED
      BY <2>1, <3>1, ThrowLemma
  <2>2. CASE \E c \in 1..Old, state \in {"there", "stopped"} : old' = RemovedBefore(c, state) /\ Throw("remove")
    <3>1. PICK c \in 1..Old, state \in {"there", "stopped"} : old' = RemovedBefore(c, state) /\ Throw("remove")
      BY <2>2
    <3>2. UNCHANGED <<inputs, items, used>> /\ pc \notin {"agent", "running", "exit"}
      BY <1>7 DEF CleanUp
    <3>3. old \in [1..Old -> States]
      BY DEF Inv, EndInv
    <3>4. old' \in [1..Old -> States]
      BY <3>1, <3>3 DEF RemovedBefore
    <3> QED
      BY <3>1, <3>2, <3>4, ThrowLemma DEF CleanUpErrors
  <2>3. CASE old' = [c \in 1..Old |-> "gone"] /\ Throw("workspace")
    <3>1. UNCHANGED <<inputs, items, used>> /\ pc \notin {"agent", "running", "exit"}
      BY <1>7 DEF CleanUp
    <3>2. old' \in [1..Old -> States]
      BY <2>3
    <3> QED
      BY <2>3, <3>1, <3>2, ThrowLemma DEF CleanUpErrors
  <2>4. CASE old' = [c \in 1..Old |-> "gone"] /\ Goto("agent")
   <3>1. /\ pc = "stores" /\ pc' = "agent" /\ old' = [c \in 1..Old |-> "gone"]
         /\ UNCHANGED <<err, inputs, items, used>>
     BY <1>7, <2>4 DEF CleanUp
   <3>2. InputsOK' /\ ItemsInv'
     BY <3>1, SourcesStay DEF Inv, ItemsInv, Loaded
   <3>3. FileInv'
     BY <3>1 DEF Inv, FileInv, inputs, Loaded
   <3>4. ChecksInv'
     BY <3>1, SourcesStay DEF Inv, ChecksInv, Checked, Loaded
   <3>5. UsedInv'
     BY <3>1, SourcesStay DEF Inv, UsedInv
   <3>6. EndInv'
     BY <3>1 DEF Inv, EndInv, CleanUpErrors
   <3> QED
     BY <3>2, <3>3, <3>4, <3>5, <3>6 DEF Inv
  <2> QED
    BY <1>7, <2>1, <2>2, <2>3, <2>4 DEF CleanUp
<1>8. CASE MakeAdaptor
  <2> DEFINE key == "session-bus"
  <2>1. /\ pc = "agent" /\ pc' = "running" /\ items = AllItems
        /\ UNCHANGED <<err, inputs, items, old>>
    BY <1>8 DEF MakeAdaptor, Inv, ItemsInv, Loaded
  <2>2. Len(used) = 5 /\ key = AskedAll[Len(used) + 1]
    <3>1. Len(used) = 5
      BY <2>1 DEF Inv, UsedInv
    <3> QED
      BY <3>1, AskedLemma
  <2>3. used' = Append(used, PrioritizedConfig(Found(key)))
    BY <1>8 DEF MakeAdaptor, GetConfig, Found, TypeMap, Keys
  <2>4. PrioritizedConfig(Found(key)) = FirstSource(AskedAll[Len(used) + 1])
    BY <2>1, <2>2, FoundLemma DEF Given, Defaults, Keys
  <2>5. UsedInv'
    BY <2>1, <2>2, <2>3, <2>4, UsedLemma DEF Inv
  <2>6. InputsOK' /\ ItemsInv'
    BY <2>1, SourcesStay DEF Inv, ItemsInv, Loaded
  <2>7. FileInv'
    BY <2>1 DEF Inv, FileInv, inputs, Loaded
  <2>8. ChecksInv'
    BY <2>1, SourcesStay DEF Inv, ChecksInv, Checked, Loaded
  <2>9. EndInv'
    BY <2>1 DEF Inv, EndInv
  <2> QED
    BY <2>5, <2>6, <2>7, <2>8, <2>9 DEF Inv
<1>9. CASE UNCHANGED configVars
  <2>1. UNCHANGED <<pc, err, inputs, items, used, old>>
    BY <1>9 DEF configVars, inputs
  <2>2. InputsOK' /\ ItemsInv'
    BY <2>1, SourcesStay DEF Inv, ItemsInv
  <2>3. FileInv' /\ EndInv'
    BY <2>1 DEF Inv, FileInv, EndInv, inputs
  <2>4. ChecksInv'
    BY <2>1, SourcesStay DEF Inv, ChecksInv
  <2>5. UsedInv'
    BY <2>1, SourcesStay DEF Inv, UsedInv
  <2> QED
    BY <2>2, <2>3, <2>4, <2>5 DEF Inv
<1> QED
  BY <1>1, <1>2, <1>3, <1>4, <1>5, <1>6, <1>7, <1>8, <1>9 DEF ConfigNext, ConfigRest

----------------------------------------------------------------------------
\* The invariant implies what the run checks.
LEMMA InvSound == Inv => StartIsSound
<1> SUFFICES ASSUME Inv PROVE StartIsSound
  OBVIOUS
<1>1. FirstSourceWins
  <2>1. DOMAIN used = 1..Len(used)
    BY DEF Inv, UsedInv
  <2> QED
    BY <2>1 DEF FirstSourceWins, FirstSource, Inv, UsedInv
<1>2. BadConfigNeverRuns
  <2> SUFFICES ASSUME pc = "running" PROVE BadConfigNeverRuns
    BY DEF BadConfigNeverRuns
  <2>1. file.loads /\ ~file.unknown /\ \A key \in Keys : file.has[key] # "bad"
    BY DEF Inv, FileInv, Loaded
  <2>2. /\ \A key \in Mandatory : Given(key)
        /\ \A key \in DOMAIN Dependencies : Given(key) => \A k \in Dependencies[key] : Given(k)
    BY DEF Inv, ChecksInv, Checked, Loaded
  <2>3. \A key : Given(key) => file.has[key] = "good" \/ key \in options.set \cup Defaults
    BY DEF Given, Good
  <2>4. \A key \in Keys : file.has[key] = "good" => Given(key)
    BY DEF Given, Good
  <2>5. \A key \in DOMAIN Dependencies : key \in Keys
    BY ConfigAssumption
  <2> QED
    BY <2>1, <2>2, <2>3, <2>4, <2>5 DEF BadConfigNeverRuns
<1>3. OldContainersGoLast
  BY DEF OldContainersGoLast, Inv, EndInv
<1> QED
  BY <1>1, <1>2, <1>3 DEF StartIsSound

\* ... and the types.
LEMMA InvTypes == Inv => ConfigTypeOK
<1> SUFFICES ASSUME Inv PROVE ConfigTypeOK
  OBVIOUS
<1>1. ToSet(Sources) = {"Commandline", "Main", "Default"}
  BY DEF ToSet, Sources
<1>2. \A key \in Keys : TypeMap[key] \in {"int", "bool", "string"}
  BY DEF TypeMap, Keys
<1>3. TypeMap["session-bus"] = "bool"
  BY DEF TypeMap, Keys
<1>4. options.set \subseteq Keys /\ Good \subseteq Keys /\ Defaults \subseteq Keys
  BY DEF Inv, InputsOK, OnCommandline, Good, Defaults, Keys
<1>5. \A i \in AllItems : \E key \in Keys, source \in ToSet(Sources) : i = Item(key, source)
  BY <1>1, <1>4, AllItemsLemma
<1>6. \A key \in Keys, source \in ToSet(Sources) :
          /\ Item(key, source) \in [key : Keys, type : {"int", "bool", "string"}, source : ToSet(Sources)]
          /\ Item(key, source).key = "session-bus" => Item(key, source).type = "bool"
  BY <1>2, <1>3 DEF Item
<1>7. items \subseteq AllItems
  BY DEF Inv, ItemsInv
<1>8. /\ items \subseteq [key : Keys, type : {"int", "bool", "string"}, source : ToSet(Sources)]
      /\ \A i \in items : i.key = "session-bus" => i.type = "bool"
  BY <1>5, <1>6, <1>7
<1>9. used \in Seq(ToSet(Sources))
  BY <1>1 DEF Inv, UsedInv
<1> QED
  BY <1>8, <1>9 DEF ConfigTypeOK, Inv, EndInv

\* Whatever the command line, the config file and the tables of the build system are: the
\* agent runs with the value of the first source that has one, a bad configuration never
\* gets it to run, and it ends with an error only while the containers of its predecessor
\* are still there (StartIsSound of main, of Config and of the agent's constructor).
THEOREM StartSound == SettingsSpec => []StartIsSound
<1>1. SettingsInit => Inv
  BY InitInv DEF SettingsInit
<1>2. Inv /\ [SettingsNext]_settingsVars => Inv'
  <2> SUFFICES ASSUME Inv, [SettingsNext]_settingsVars PROVE Inv'
    OBVIOUS
  <2>1. [ConfigNext]_configVars
    BY DEF SettingsNext, settingsVars
  <2> QED
    BY <2>1, NextInv
<1> QED
  BY <1>1, <1>2, InvSound, PTL DEF SettingsSpec

\* The types of the agent's configuration: no item has a type its getter does not look for.
THEOREM ConfigTypeCorrect == ConfigSpec => []ConfigTypeOK
BY InitInv, NextInv, InvTypes, PTL DEF ConfigSpec

----------------------------------------------------------------------------
(***************************************************************************)
(* The stores.  The invariant says that every array belongs to one object, *)
(* which is what makes the counts right and keeps a call from changing     *)
(* what a store holds: objects are copied when they are appended, and what *)
(* is shared by the assignment loses its other owner in the same step.  On *)
(* that rest the contents: each capability was collected from the first    *)
(* entry of its name, and the loops of a call have put together what they  *)
(* have passed, counted element by element.                                *)
(***************************************************************************)

\* The names of the elements of a configuration.
Origin == Names \X Nat \X Nat \X Nat

\* A heap whose arrays belong to the objects of M, a function from objects to their maps:
\* each array to one of them.
HeapOK(h, M) ==
    /\ IsFiniteSet(DOMAIN h)
    /\ h \in [DOMAIN h -> [elems : Seq(Origin), refs : {1}]]
    /\ \A o \in DOMAIN M : \A id \in DOMAIN M[o] : M[o][id] \in DOMAIN h /\ M[o][id][2] = id
    /\ \A o, p \in DOMAIN M : \A id \in DOMAIN M[o] \cap DOMAIN M[p] :
          M[o][id] = M[p][id] => o = p
    /\ \A a \in DOMAIN h : \E o \in DOMAIN M : a[2] \in DOMAIN M[o] /\ a = M[o][a[2]]

\* What an object has for a gateway id: nothing, if there is no such key.
ArrayOf(h, map, id) == IF id \in DOMAIN map THEN h[map[id]].elems ELSE <<>>

\* The set of the values of a function on a finite set is finite and not larger.
LEMMA ImageIsFinite ==
    ASSUME NEW S, IsFiniteSet(S), NEW f, DOMAIN f = S, f = [x \in S |-> f[x]],
           NEW T, T = {f[x] : x \in S}
    PROVE  IsFiniteSet(T) /\ Cardinality(T) <= Cardinality(S)
<1>1. f \in Surjection(S, T)
  BY DEF Surjection
<1> QED
  BY <1>1, FS_Surjection

\* There is a number that no array has.
LEMMA FreeNumber ==
    ASSUME NEW h, IsFiniteSet(DOMAIN h)
    PROVE  \A a \in DOMAIN h : a[1] # Free(h)
<1> DEFINE S == DOMAIN h
           f == [a \in S |-> a[1]]
           T == {f[a] : a \in S}
           C == Cardinality(S)
<1>1. C \in Nat
  BY FS_CardinalityType
<1>2. IsFiniteSet(T) /\ Cardinality(T) <= C
  <2>1. DOMAIN f = S /\ f = [x \in S |-> f[x]]
    OBVIOUS
  <2> QED
    BY <2>1, ImageIsFinite
<1>3. IsFiniteSet(0..C) /\ Cardinality(0..C) = C + 1
  BY <1>1, FS_Interval
<1>4. \E n \in 0..C : n \notin T
  <2>1. SUFFICES ASSUME 0..C \subseteq T PROVE FALSE
    OBVIOUS
  <2> HIDE DEF T, C
  <2>2. Cardinality(0..C) <= Cardinality(T)
    BY <2>1, <1>2, FS_Subset
  <2>3. Cardinality(T) \in Nat
    BY <1>2, FS_CardinalityType
  <2> QED
    BY <1>1, <1>2, <1>3, <2>2, <2>3
<1>5. \E n \in 0..Cardinality(DOMAIN h) : \A a \in DOMAIN h : a[1] # n
  BY <1>4
<1> QED
  BY <1>5 DEF Free

\* What an append of more to the object o does: its arrays grow, it has new ones, and
\* those of the other objects stay what they are.
AppendsTo(h, M, o, more, g) ==
    /\ HeapOK(g.heap, [M EXCEPT ![o] = g.map])
    /\ DOMAIN g.map = DOMAIN M[o] \cup DOMAIN more
    /\ \A id \in DOMAIN g.map :
          ArrayOf(g.heap, g.map, id) =
              ArrayOf(h, M[o], id) \o (IF id \in DOMAIN more THEN more[id] ELSE <<>>)
    /\ \A p \in DOMAIN M \ {o} : \A id \in DOMAIN M[p] :
          M[p][id] \in DOMAIN g.heap /\ g.heap[M[p][id]] = h[M[p][id]]

\* The new arrays of the ids D have addresses of their own.
AreNew(h, new, D) ==
    /\ DOMAIN new = D
    /\ \A id \in DOMAIN new : new[id][2] = id /\ new[id] \notin DOMAIN h
    /\ IsFiniteSet(Targets(new))
    /\ \A a \in Targets(new) : a[2] \in DOMAIN new /\ a = new[a[2]] /\ a \notin DOMAIN h

\* The arrays an append makes are new.
LEMMA NewArraysLemma ==
    ASSUME NEW h, IsFiniteSet(DOMAIN h), NEW map, NEW more, IsFiniteSet(DOMAIN more),
           NEW new, new = NewArrays([heap |-> h, map |-> map], more)
    PROVE  AreNew(h, new, DOMAIN more \ DOMAIN map)
<1>1. DOMAIN new = DOMAIN more \ DOMAIN map
  BY DEF NewArrays
<1>2. \A id \in DOMAIN new : new[id] = <<Free(h), id>>
  BY DEF NewArrays
<1>3. \A id \in DOMAIN new : new[id][2] = id /\ new[id][1] = Free(h)
  BY <1>2
<1>4. \A id \in DOMAIN new : new[id] \notin DOMAIN h
  BY <1>3, FreeNumber
<1>5. IsFiniteSet(DOMAIN new)
  BY <1>1, FS_Difference
<1>6. IsFiniteSet(Targets(new))
  <2>1. new = [x \in DOMAIN new |-> new[x]]
    BY DEF NewArrays
  <2> QED
    BY <2>1, <1>5, ImageIsFinite DEF Targets
<1> QED
  BY <1>1, <1>3, <1>4, <1>6 DEF Targets, AreNew

\* An append does what it says.
LEMMA AppendLemma ==
    ASSUME NEW h, NEW M, HeapOK(h, M), NEW o \in DOMAIN M,
           NEW more, IsFiniteSet(DOMAIN more), \A id \in DOMAIN more : more[id] \in Seq(Origin),
           NEW g, g = Appended([heap |-> h, map |-> M[o]], more)
    PROVE  AppendsTo(h, M, o, more, g)
<1> DEFINE w    == [heap |-> h, map |-> M[o]]
           new  == NewArrays(w, more)
           prior  == Grown(w, more)
           made == [a \in Targets(new) |-> [elems |-> more[a[2]], refs |-> 1]]
           N    == [M EXCEPT ![o] = g.map]
<1>1. /\ DOMAIN new = DOMAIN more \ DOMAIN M[o]
      /\ \A id \in DOMAIN new : new[id][2] = id /\ new[id] \notin DOMAIN h
      /\ IsFiniteSet(Targets(new))
      /\ \A a \in Targets(new) : a[2] \in DOMAIN new /\ a = new[a[2]] /\ a \notin DOMAIN h
  <2> HIDE DEF new
  <2>1. new = NewArrays([heap |-> h, map |-> M[o]], more)
    BY DEF new
  <2>2. IsFiniteSet(DOMAIN h)
    BY DEF HeapOK
  <2> DEFINE map == M[o]
  <2>3. new = NewArrays([heap |-> h, map |-> map], more)
    BY <2>1
  <2> HIDE DEF map
  <2>4. AreNew(h, new, DOMAIN more \ DOMAIN map)
    BY <2>2, <2>3, NewArraysLemma
  <2> QED
    BY <2>4 DEF map, AreNew
<1>2. g.heap = Joined(prior, made) /\ g.map = Joined(M[o], new)
  BY DEF Appended
<1>3. DOMAIN prior = DOMAIN h /\ DOMAIN made = Targets(new)
  BY DEF Grown
<1> HIDE DEF new
<1>4. /\ DOMAIN g.map = DOMAIN M[o] \cup DOMAIN more
      /\ \A id \in DOMAIN g.map : g.map[id] = IF id \in DOMAIN M[o] THEN M[o][id] ELSE new[id]
  BY <1>1, <1>2 DEF Joined
<1>5. /\ DOMAIN g.heap = DOMAIN h \cup Targets(new)
      /\ \A a \in DOMAIN g.heap : g.heap[a] = IF a \in DOMAIN h THEN prior[a] ELSE made[a]
      /\ g.heap = [a \in DOMAIN g.heap |-> g.heap[a]]
  BY <1>2, <1>3 DEF Joined
<1>6. \A a \in DOMAIN h : a \in Targets(M[o]) <=> a[2] \in DOMAIN M[o] /\ a = M[o][a[2]]
  BY DEF HeapOK, Targets
<1>7. \A a \in DOMAIN h :
        prior[a] = IF a \in Targets(M[o]) /\ a[2] \in DOMAIN more
                 THEN [h[a] EXCEPT !.elems = @ \o more[a[2]]] ELSE h[a]
  BY DEF Grown
<1>8. \A a \in DOMAIN h : h[a] \in [elems : Seq(Origin), refs : {1}]
  BY DEF HeapOK
<1>9. \A a \in DOMAIN h :
        a \in Targets(M[o]) /\ a[2] \in DOMAIN more =>
           /\ prior[a].elems = h[a].elems \o more[a[2]]
           /\ prior[a].elems \in Seq(Origin)
           /\ prior[a] \in [elems : Seq(Origin), refs : {1}]
  <2> TAKE a \in DOMAIN h
  <2> HAVE a \in Targets(M[o]) /\ a[2] \in DOMAIN more
  <2> HIDE DEF prior
  <2>1. prior[a] = [h[a] EXCEPT !.elems = @ \o more[a[2]]]
    BY <1>7
  <2>2. h[a].elems \in Seq(Origin) /\ more[a[2]] \in Seq(Origin)
    BY <1>8
  <2>3. h[a].elems \o more[a[2]] \in Seq(Origin)
    BY <2>2
  <2> QED
    BY <2>1, <2>3, <1>8
<1>10. \A a \in DOMAIN h : prior[a] \in [elems : Seq(Origin), refs : {1}]
  BY <1>7, <1>8, <1>9
<1>11. \A a \in Targets(new) : made[a].elems = more[a[2]] /\ made[a] \in [elems : Seq(Origin), refs : {1}]
  BY <1>1
<1> HIDE DEF prior, made
<1>12. \A p \in DOMAIN M \ {o} : \A id \in DOMAIN M[p] :
          M[p][id] \in DOMAIN g.heap /\ g.heap[M[p][id]] = h[M[p][id]]
  <2> TAKE p \in DOMAIN M \ {o}
  <2> TAKE id \in DOMAIN M[p]
  <2>1. M[p][id] \in DOMAIN h /\ M[p][id][2] = id
    BY DEF HeapOK
  <2>2. M[p][id] \notin Targets(M[o])
    BY <2>1, <1>6 DEF HeapOK
  <2> QED
    BY <2>1, <2>2, <1>5, <1>7
<1>13. \A id \in DOMAIN g.map :
          /\ g.map[id] \in DOMAIN g.heap /\ g.map[id][2] = id
          /\ ArrayOf(g.heap, g.map, id) =
              ArrayOf(h, M[o], id) \o (IF id \in DOMAIN more THEN more[id] ELSE <<>>)
  <2> TAKE id \in DOMAIN g.map
  <2>1. CASE id \in DOMAIN M[o]
    <3>1. M[o][id] \in DOMAIN h /\ M[o][id][2] = id /\ g.map[id] = M[o][id]
      BY <2>1, <1>4 DEF HeapOK
    <3>2. M[o][id] \in Targets(M[o])
      BY <2>1 DEF Targets
    <3>3. ArrayOf(g.heap, g.map, id) = prior[M[o][id]].elems
      BY <3>1, <1>5, <2>1, <1>4 DEF ArrayOf
    <3>4. ArrayOf(h, M[o], id) = h[M[o][id]].elems /\ h[M[o][id]].elems \in Seq(Origin)
      BY <2>1, <3>1, <1>8 DEF ArrayOf
    <3>5. CASE id \in DOMAIN more
      BY <3>1, <3>2, <3>3, <3>4, <3>5, <1>9, <1>5
    <3>6. CASE id \notin DOMAIN more
      <4>1. prior[M[o][id]] = h[M[o][id]]
        BY <3>1, <3>2, <3>6, <1>7
      <4>2. h[M[o][id]].elems \o <<>> = h[M[o][id]].elems
        BY <3>4
      <4> QED
        BY <4>1, <4>2, <3>1, <3>3, <3>4, <3>6, <1>5
    <3> QED
      BY <3>5, <3>6
  <2>2. CASE id \notin DOMAIN M[o]
    <3>1. id \in DOMAIN new /\ id \in DOMAIN more /\ g.map[id] = new[id]
      BY <2>2, <1>4, <1>1
    <3>2. new[id] \in Targets(new) /\ new[id] \notin DOMAIN h /\ new[id][2] = id
      BY <3>1, <1>1 DEF Targets
    <3>3. g.heap[new[id]].elems = more[id]
      BY <3>1, <3>2, <1>5, <1>11
    <3>4. <<>> \o more[id] = more[id]
      BY <3>1
    <3> QED
      BY <2>2, <3>1, <3>2, <3>3, <3>4, <1>5 DEF ArrayOf
  <2> QED
    BY <2>1, <2>2
<1>14. HeapOK(g.heap, N)
  <2>1. DOMAIN N = DOMAIN M /\ N[o] = g.map /\ \A p \in DOMAIN M \ {o} : N[p] = M[p]
    OBVIOUS
  <2> HIDE DEF N
  <2>2. IsFiniteSet(DOMAIN g.heap)
    <3>1. IsFiniteSet(DOMAIN h) /\ IsFiniteSet(Targets(new))
      BY <1>1 DEF HeapOK
    <3>2. IsFiniteSet(DOMAIN h \cup Targets(new))
      BY <3>1, FS_Union
    <3> QED
      BY <3>2, <1>5
  <2>3. g.heap \in [DOMAIN g.heap -> [elems : Seq(Origin), refs : {1}]]
    BY <1>5, <1>10, <1>11
  <2>4. \A p \in DOMAIN N : \A id \in DOMAIN N[p] : N[p][id] \in DOMAIN g.heap /\ N[p][id][2] = id
    BY <2>1, <1>12, <1>13 DEF HeapOK
  <2>5. ASSUME NEW p \in DOMAIN M \ {o}, NEW id \in DOMAIN M[p] \cap DOMAIN g.map
        PROVE  M[p][id] # g.map[id]
    <3>1. M[p][id] \in DOMAIN h
      BY DEF HeapOK
    <3>2. CASE id \in DOMAIN M[o]
      <4>1. g.map[id] = M[o][id]
        BY <3>2, <1>4
      <4> QED
        BY <3>2, <4>1 DEF HeapOK
    <3>3. CASE id \notin DOMAIN M[o]
      <4>1. id \in DOMAIN new /\ g.map[id] = new[id]
        BY <3>3, <1>1, <1>4
      <4> QED
        BY <3>1, <4>1, <1>1
    <3> QED
      BY <3>2, <3>3
  <2>6. \A p, q \in DOMAIN N : \A id \in DOMAIN N[p] \cap DOMAIN N[q] : N[p][id] = N[q][id] => p = q
    BY <2>1, <2>5 DEF HeapOK
  <2>7. \A a \in DOMAIN g.heap : \E p \in DOMAIN N : a[2] \in DOMAIN N[p] /\ a = N[p][a[2]]
    <3> TAKE a \in DOMAIN g.heap
    <3>1. CASE a \in Targets(new)
      <4>1. a[2] \in DOMAIN new /\ a = new[a[2]]
        BY <3>1, <1>1
      <4>2. a[2] \in DOMAIN g.map /\ g.map[a[2]] = new[a[2]]
        BY <4>1, <1>1, <1>4
      <4> QED
        BY <4>1, <4>2, <2>1
    <3>2. CASE a \in DOMAIN h
      <4>1. PICK p \in DOMAIN M : a[2] \in DOMAIN M[p] /\ a = M[p][a[2]]
        BY <3>2 DEF HeapOK
      <4> QED
        BY <4>1, <2>1, <1>4
    <3> QED
      BY <3>1, <3>2, <1>5
  <2> QED
    BY <2>2, <2>3, <2>4, <2>6, <2>7 DEF HeapOK
<1> QED
  BY <1>4, <1>12, <1>13, <1>14 DEF AppendsTo

\* The arrays of the objects of M have not changed.
Keeps(h, k, M) == \A p \in DOMAIN M : \A id \in DOMAIN M[p] : k[M[p][id]] = h[M[p][id]]

\* N has the objects of M, but not o.
Without(M, N, o) == DOMAIN N = DOMAIN M \ {o} /\ \A p \in DOMAIN N : N[p] = M[p]

\* A destructor removes the arrays of its object and no others.
LEMMA DestroyedLemma ==
    ASSUME NEW h, NEW M, HeapOK(h, M), NEW o \in DOMAIN M, NEW N, Without(M, N, o),
           NEW k, k = Destroyed(h, M[o])
    PROVE  HeapOK(k, N) /\ Keeps(h, k, N)
<1> DEFINE left == [a \in DOMAIN h |-> IF a \in Targets(M[o]) THEN [h[a] EXCEPT !.refs = @ - 1] ELSE h[a]]
<1>1. \A a \in DOMAIN h : h[a] \in [elems : Seq(Origin), refs : {1}]
  BY DEF HeapOK
<1>2. \A a \in DOMAIN h : left[a].refs = IF a \in Targets(M[o]) THEN 0 ELSE 1
  BY <1>1
<1>3. k = [a \in {b \in DOMAIN h : left[b].refs > 0} |-> left[a]]
  BY DEF Destroyed
<1>4. DOMAIN k = DOMAIN h \ Targets(M[o])
  BY <1>2, <1>3
<1>5. \A a \in DOMAIN k : k[a] = h[a]
  BY <1>3, <1>4
<1>6. k = [a \in DOMAIN k |-> k[a]]
  BY <1>3
<1> HIDE DEF left
<1>7. IsFiniteSet(DOMAIN k)
  <2>1. IsFiniteSet(DOMAIN h)
    BY DEF HeapOK
  <2>2. IsFiniteSet(DOMAIN h \ Targets(M[o]))
    BY <2>1, FS_Difference
  <2> QED
    BY <2>2, <1>4
<1>8. \A p \in DOMAIN N : p \in DOMAIN M /\ p # o /\ N[p] = M[p]
  BY DEF Without
<1>9. \A p \in DOMAIN N : \A id \in DOMAIN N[p] : N[p][id] \in DOMAIN k
  <2> TAKE p \in DOMAIN N
  <2> TAKE id \in DOMAIN N[p]
  <2>1. M[p][id] \in DOMAIN h /\ M[p][id][2] = id
    BY <1>8 DEF HeapOK
  <2>2. M[p][id] \notin Targets(M[o])
    <3>1. SUFFICES ASSUME NEW jd \in DOMAIN M[o], M[p][id] = M[o][jd] PROVE FALSE
      BY DEF Targets
    <3>2. jd = id
      BY <3>1, <2>1 DEF HeapOK
    <3> QED
      BY <3>1, <3>2, <1>8 DEF HeapOK
  <2> QED
    BY <2>1, <2>2, <1>4, <1>8
<1>10. \A a \in DOMAIN k : \E p \in DOMAIN N : a[2] \in DOMAIN N[p] /\ a = N[p][a[2]]
  <2> TAKE a \in DOMAIN k
  <2>1. PICK p \in DOMAIN M : a[2] \in DOMAIN M[p] /\ a = M[p][a[2]]
    BY <1>4 DEF HeapOK
  <2>2. p # o
    BY <2>1, <1>4 DEF Targets
  <2> QED
    BY <2>1, <2>2, <1>8 DEF Without
<1>11. k \in [DOMAIN k -> [elems : Seq(Origin), refs : {1}]]
  BY <1>1, <1>4, <1>5, <1>6
<1>12. \A p \in DOMAIN N : \A id \in DOMAIN N[p] : N[p][id][2] = id
  BY <1>8 DEF HeapOK
<1>13. \A p, q \in DOMAIN N : \A id \in DOMAIN N[p] \cap DOMAIN N[q] : N[p][id] = N[q][id] => p = q
  BY <1>8 DEF HeapOK
<1>14. HeapOK(k, N)
  BY <1>7, <1>9, <1>10, <1>11, <1>12, <1>13 DEF HeapOK
<1> QED
  BY <1>5, <1>9, <1>14 DEF Keeps

\* N has the objects of M, and o, which has no arrays yet.
LEMMA NewLemma ==
    ASSUME NEW h, NEW M, HeapOK(h, M), NEW N, NEW o, Without(N, M, o), o \in DOMAIN N,
           N[o] = Empty
    PROVE  HeapOK(h, N)
<1>1. DOMAIN N[o] = {}
  BY DEF Empty
<1>2. \A p \in DOMAIN N : p # o => p \in DOMAIN M /\ N[p] = M[p]
  BY DEF Without
<1>3. \A p \in DOMAIN M : p \in DOMAIN N /\ N[p] = M[p]
  BY DEF Without
<1>4. \A p \in DOMAIN N : \A id \in DOMAIN N[p] : p \in DOMAIN M /\ N[p] = M[p]
  BY <1>1, <1>2
<1>5. \A p \in DOMAIN N : \A id \in DOMAIN N[p] : N[p][id] \in DOMAIN h /\ N[p][id][2] = id
  BY <1>4 DEF HeapOK
<1>6. \A p, q \in DOMAIN N : \A id \in DOMAIN N[p] \cap DOMAIN N[q] : N[p][id] = N[q][id] => p = q
  BY <1>4 DEF HeapOK
<1>7. \A a \in DOMAIN h : \E p \in DOMAIN N : a[2] \in DOMAIN N[p] /\ a = N[p][a[2]]
  BY <1>3 DEF HeapOK
<1> QED
  BY <1>5, <1>6, <1>7 DEF HeapOK

\* An object may get another name.
LEMMA RenamedLemma ==
    ASSUME NEW h, NEW M, HeapOK(h, M), NEW N, NEW o \in DOMAIN M, NEW q \in DOMAIN N,
           q \notin DOMAIN M \ {o}, DOMAIN N = (DOMAIN M \ {o}) \cup {q}, N[q] = M[o],
           \A p \in DOMAIN M \ {o} : N[p] = M[p]
    PROVE  HeapOK(h, N)
<1>1. \A p \in DOMAIN N : p # q => p \in DOMAIN M \ {o} /\ N[p] = M[p]
  OBVIOUS
<1>5. \A p \in DOMAIN N : \A id \in DOMAIN N[p] : N[p][id] \in DOMAIN h /\ N[p][id][2] = id
  BY <1>1 DEF HeapOK
<1>6. \A p, r \in DOMAIN N : \A id \in DOMAIN N[p] \cap DOMAIN N[r] : N[p][id] = N[r][id] => p = r
  BY <1>1 DEF HeapOK
<1>7. \A a \in DOMAIN h : \E p \in DOMAIN N : a[2] \in DOMAIN N[p] /\ a = N[p][a[2]]
  <2> TAKE a \in DOMAIN h
  <2>1. PICK p \in DOMAIN M : a[2] \in DOMAIN M[p] /\ a = M[p][a[2]]
    BY DEF HeapOK
  <2> QED
    BY <2>1
<1> QED
  BY <1>5, <1>6, <1>7 DEF HeapOK

\* An object that is assigned and destroyed leaves the heap as it was.
LEMMA AssignedDestroyed ==
    ASSUME NEW h, NEW M, HeapOK(h, M), NEW map
    PROVE  Destroyed(Assigned(h, map), map) = h
<1> DEFINE up   == Assigned(h, map)
           left == [a \in DOMAIN up |-> IF a \in Targets(map) THEN [up[a] EXCEPT !.refs = @ - 1] ELSE up[a]]
           Rec  == [elems : Seq(Origin), refs : {1}]
<1>1. \A a \in DOMAIN h : h[a] \in Rec
  BY DEF HeapOK
<1>2. DOMAIN up = DOMAIN h
  BY DEF Assigned
<1>3. \A a \in DOMAIN h : up[a] = IF a \in Targets(map) THEN [h[a] EXCEPT !.refs = @ + 1] ELSE h[a]
  BY DEF Assigned
<1>4. \A a \in DOMAIN h : left[a] = h[a]
  <2> TAKE a \in DOMAIN h
  <2> HIDE DEF up
  <2>1. h[a].refs = 1 /\ h[a] = [elems |-> h[a].elems, refs |-> h[a].refs]
    BY <1>1
  <2>2. CASE a \in Targets(map)
    <3>1. up[a] = [h[a] EXCEPT !.refs = 2]
      BY <2>1, <2>2, <1>3
    <3>3. up[a] = [elems |-> h[a].elems, refs |-> 2]
      BY <3>1, <1>1
    <3>2. [up[a] EXCEPT !.refs = @ - 1] = [elems |-> h[a].elems, refs |-> 1]
      BY <3>3
    <3> QED
      BY <2>1, <2>2, <3>2, <1>2
  <2>3. CASE a \notin Targets(map)
    BY <2>3, <1>3, <1>2
  <2> QED
    BY <2>2, <2>3
<1>5. Destroyed(up, map) = [a \in {b \in DOMAIN up : left[b].refs > 0} |-> left[a]]
  BY DEF Destroyed
<1> HIDE DEF up, left
<1>6. {b \in DOMAIN up : left[b].refs > 0} = DOMAIN h
  <2>1. \A b \in DOMAIN h : left[b].refs = 1
    BY <1>1, <1>4
  <2> QED
    BY <2>1, <1>2
<1>7. Destroyed(up, map) = [a \in DOMAIN h |-> h[a]]
  BY <1>4, <1>5, <1>6
<1>8. h = [a \in DOMAIN h |-> h[a]]
  BY DEF HeapOK
<1> QED
  BY <1>7, <1>8 DEF up

\* The ids of an object are finitely many.
LEMMA IdsAreFinite ==
    ASSUME NEW h, NEW M, HeapOK(h, M), NEW o \in DOMAIN M
    PROVE  IsFiniteSet(DOMAIN M[o])
<1> DEFINE f == [a \in DOMAIN h |-> a[2]]
           T == {f[a] : a \in DOMAIN h}
<1>1. IsFiniteSet(T)
  <2> DEFINE D == DOMAIN h
  <2>1. DOMAIN f = D /\ f = [a \in D |-> f[a]] /\ IsFiniteSet(D) /\ T = {f[a] : a \in D}
    BY DEF HeapOK
  <2> HIDE DEF D, f, T
  <2> QED
    BY <2>1, ImageIsFinite
<1>2. \A id \in DOMAIN M[o] : id \in T
  <2> TAKE id \in DOMAIN M[o]
  <2>1. M[o][id] \in DOMAIN h /\ M[o][id][2] = id
    BY DEF HeapOK
  <2> QED
    BY <2>1
<1> HIDE DEF T
<1> QED
  BY <1>1, <1>2, FS_Subset

\* The append of a configuration: the arrays of p go to o.
LEMMA AppendConfLemma ==
    ASSUME NEW h, NEW M, HeapOK(h, M), NEW o \in DOMAIN M, NEW p \in DOMAIN M,
           NEW more, more = Value([heap |-> h, map |-> M[p]]),
           NEW g, g = AppendConf([heap |-> h, map |-> M[o]], M[p])
    PROVE  AppendsTo(h, M, o, more, g)
<1>1. DOMAIN more = DOMAIN M[p] /\ \A id \in DOMAIN more : more[id] = h[M[p][id]].elems
  BY DEF Value
<1>2. IsFiniteSet(DOMAIN more)
  BY <1>1, IdsAreFinite
<1>3. \A id \in DOMAIN more : more[id] \in Seq(Origin)
  BY <1>1 DEF HeapOK
<1>4. g = Appended([heap |-> h, map |-> M[o]], more)
  BY DEF AppendConf
<1> QED
  BY <1>2, <1>3, <1>4, AppendLemma

\* The append of an array with one element.
LEMMA AppendArrayLemma ==
    ASSUME NEW h, NEW M, HeapOK(h, M), NEW o \in DOMAIN M, NEW id, NEW elems \in Seq(Origin),
           NEW more, more = One(id, elems),
           NEW g, g = AppendArray([heap |-> h, map |-> M[o]], id, elems)
    PROVE  AppendsTo(h, M, o, more, g)
<1>1. DOMAIN more = {id} /\ more[id] = elems
  BY DEF One
<1>2. IsFiniteSet(DOMAIN more)
  BY <1>1, FS_Singleton
<1>3. \A i \in DOMAIN more : more[i] \in Seq(Origin)
  BY <1>1
<1>4. g = Appended([heap |-> h, map |-> M[o]], more)
  BY DEF AppendArray
<1> QED
  BY <1>2, <1>3, <1>4, AppendLemma

----------------------------------------------------------------------------
(***************************************************************************)
(* How often an element is in an array.                                    *)
(***************************************************************************)

\* The places of an element are finitely many.
LEMMA OccurrencesType ==
    ASSUME NEW S, NEW s \in Seq(S), NEW x
    PROVE  IsFiniteSet({i \in DOMAIN s : s[i] = x}) /\ Occurrences(s, x) \in Nat
<1> DEFINE A == {i \in DOMAIN s : s[i] = x}
<1>1. Len(s) \in Nat /\ A \subseteq 1..Len(s)
  OBVIOUS
<1>2. IsFiniteSet(1..Len(s))
  BY <1>1, FS_Interval
<1> HIDE DEF A
<1>3. IsFiniteSet(A)
  BY <1>1, <1>2, FS_Subset
<1>4. Cardinality(A) \in Nat
  BY <1>3, FS_CardinalityType
<1> QED
  BY <1>3, <1>4 DEF Occurrences, A

\* An element is in two arrays, one behind the other, as often as in both.
LEMMA OccurrencesConcat ==
    ASSUME NEW S, NEW s \in Seq(S), NEW t \in Seq(S), NEW x
    PROVE  Occurrences(s \o t, x) = Occurrences(s, x) + Occurrences(t, x)
<1> DEFINE n == Len(s)
           A == {i \in DOMAIN s : s[i] = x}
           B == {i \in DOMAIN t : t[i] = x}
           C == {i \in DOMAIN (s \o t) : (s \o t)[i] = x}
           f == [i \in B |-> i + n]
           T == {f[i] : i \in B}
<1>1. n \in Nat /\ Len(t) \in Nat
  OBVIOUS
<1>2. IsFiniteSet(A) /\ IsFiniteSet(B)
  BY OccurrencesType
<1>3. Cardinality(A) \in Nat /\ Cardinality(B) \in Nat
  BY <1>2, FS_CardinalityType
<1>4. /\ DOMAIN (s \o t) = 1..(n + Len(t))
      /\ \A i \in 1..n : (s \o t)[i] = s[i]
      /\ \A i \in 1..Len(t) : (s \o t)[i + n] = t[i]
  OBVIOUS
<1>5. \A i \in T : i \in C /\ i \notin A
  <2> TAKE i \in T
  <2>1. PICK j \in B : i = j + n
    OBVIOUS
  <2>2. j \in 1..Len(t) /\ t[j] = x
    BY <1>1
  <2> QED
    BY <2>1, <2>2, <1>1, <1>4
<1>6. \A i \in C : i \in A \/ i \in T
  <2> TAKE i \in C
  <2>1. i \in 1..(n + Len(t)) /\ (s \o t)[i] = x
    BY <1>4
  <2>2. CASE i <= n
    BY <2>1, <2>2, <1>1, <1>4
  <2>3. CASE i > n
    <3>1. i - n \in 1..Len(t) /\ (i - n) + n = i
      BY <2>1, <2>3, <1>1
    <3>2. t[i - n] = x
      BY <3>1, <2>1, <1>4
    <3>3. i - n \in B
      BY <3>1, <3>2
    <3>4. f[i - n] = i
      BY <3>1, <3>3
    <3> QED
      BY <3>3, <3>4
  <2> QED
    BY <2>1, <2>2, <2>3, <1>1
<1>7. \A i \in A : i \in C
  BY <1>1, <1>4
<1>8. C = A \cup T /\ A \cap T = {}
  BY <1>5, <1>6, <1>7
<1>9. f \in Bijection(B, T)
  <2>1. f \in Surjection(B, T)
    BY DEF Surjection
  <2>2. B \subseteq Nat
    BY <1>1
  <2>3. \A i, j \in B : f[i] = f[j] => i = j
    BY <2>2, <1>1
  <2>4. f \in [B -> T]
    OBVIOUS
  <2> HIDE DEF f, B, T
  <2>5. f \in Injection(B, T)
    BY <2>3, <2>4 DEF Injection, IsInjective
  <2> QED
    BY <2>1, <2>5 DEF Bijection
<1> HIDE DEF A, B, C, T, f
<1>10. IsFiniteSet(T) /\ Cardinality(T) = Cardinality(B)
  BY <1>2, <1>9, FS_Bijection DEF ExistsBijection
<1>11. Cardinality(A \cup T) = Cardinality(A) + Cardinality(T) - Cardinality(A \cap T)
  BY <1>2, <1>10, FS_Union
<1>12. Cardinality(A \cap T) = 0
  BY <1>8, FS_EmptySet
<1>13. Cardinality(C) = Cardinality(A) + Cardinality(B)
  BY <1>3, <1>8, <1>10, <1>11, <1>12
<1> QED
  BY <1>13 DEF Occurrences, A, B, C

\* In an array without duplicates an element is once, or not at all.
LEMMA OccurrencesDistinct ==
    ASSUME NEW S, NEW s \in Seq(S), IsInjective(s), NEW x
    PROVE  Occurrences(s, x) = IF x \in ToSet(s) THEN 1 ELSE 0
<1> DEFINE A == {i \in DOMAIN s : s[i] = x}
<1>1. CASE x \in ToSet(s)
  <2>1. PICK i \in DOMAIN s : s[i] = x
    BY <1>1 DEF ToSet
  <2>2. A = {i}
    BY <2>1 DEF IsInjective
  <2> QED
    BY <1>1, <2>2, FS_Singleton DEF Occurrences
<1>2. CASE x \notin ToSet(s)
  <2>1. A = {}
    BY <1>2 DEF ToSet
  <2> QED
    BY <1>2, <2>1, FS_EmptySet DEF Occurrences
<1> QED
  BY <1>1, <1>2

\* In the array without elements nothing is.
LEMMA OccurrencesEmpty == \A x : Occurrences(<<>>, x) = 0
<1> TAKE x
<1>1. {i \in DOMAIN <<>> : <<>>[i] = x} = {}
  OBVIOUS
<1> QED
  BY <1>1, FS_EmptySet DEF Occurrences

\* A further place of a counted set, or none.
LEMMA CountOne ==
    ASSUME NEW A, IsFiniteSet(A), NEW d, d \notin A, NEW B,
           NEW yes \in BOOLEAN, B = IF yes THEN A \cup {d} ELSE A
    PROVE  /\ IsFiniteSet(B) 
           /\ Cardinality(B) = Cardinality(A) + (IF yes THEN 1 ELSE 0)
<1>1. Cardinality(A) \in Nat
  BY FS_CardinalityType
<1> QED
  BY <1>1, FS_AddElement

----------------------------------------------------------------------------
(***************************************************************************)
(* The objects of the stores and of the stack, and what they hold.         *)
(***************************************************************************)

MapsOf(cm, l) ==
    [o \in InStores(cm) \cup OnStack(l) |->
       IF o[1] = "local" THEN l[o[2]] ELSE cm[o[1]][o[2]]]

\* The arrays of the stores have not changed.
HeapKept(h, k, cm) ==
    \A s \in Names : \A c \in DOMAIN cm[s] : \A id \in DOMAIN cm[s][c] :
        k[cm[s][c][id]] = h[cm[s][c][id]]

\* The first n gateways of an entry have been collected in a map.
Collected(h, map, s, m, k, gs, n) ==
    /\ DOMAIN map = {gs[j].id : j \in 1..n}
    /\ \A id \in DOMAIN map :
          /\ IsInjective(h[map[id]].elems)
          /\ ToSet(h[map[id]].elems) = {<<s, m, k, j>> : j \in {i \in 1..n : gs[i].id = id}}

GatewaysOf(s, m, k) == content[s][m].entries[k].gateways
NameOf(s, m, k)     == content[s][m].entries[k].name

\* The entry k of the manifest m is the first one with the name c.
IsFirst(s, c, m, k) ==
    /\ m \in DOMAIN content[s] /\ k \in DOMAIN content[s][m].entries /\ NameOf(s, m, k) = c
    /\ \A m2 \in DOMAIN content[s] : \A k2 \in DOMAIN content[s][m2].entries :
          NameOf(s, m2, k2) = c => m < m2 \/ (m = m2 /\ k <= k2)

TypesInv ==
    /\ content \in [Names -> Seq(ManifestRec)]
    /\ status \in {"loading", "up", "failing", "failed"} /\ answer \in {"none", "ok", "notfound"}
    /\ store \in DOMAIN Stores /\ next \in 0..(Len(content[Current]) + 1)
    /\ entry \in Nat /\ gateway \in Nat
    /\ DOMAIN capMap = Names /\ \A s \in Names : IsFiniteSet(DOMAIN capMap[s])
    /\ requests \in 0..MaxRequests
    /\ call \in {"none", "setCapabilities", "execute"}
    /\ status # "up" => call = "none" /\ answer = "none"
    /\ call # "none" => answer = "none"

LocalInv ==
    /\ call = "setCapabilities" => DOMAIN local = {"gatewayConfigs", "filteredConfigs"}
    /\ call = "execute" => DOMAIN local = {"gatewayConfigs"}
    /\ call = "none" /\ local # Empty =>
          DOMAIN local = {"gwConf"} /\ status \in {"loading", "failing"}

\* The arrays are owned, each by one object.
HeapInv == HeapOK(heap, MapsOf(capMap, local))

\* What the stores hold comes from the first entries.
EntryInv ==
    \A s \in Names : \A c \in DOMAIN capMap[s] : \E m, k \in Nat :
        IsFirst(s, c, m, k)
        /\ Collected(heap, capMap[s][c], s, m, k, GatewaysOf(s, m, k), Len(GatewaysOf(s, m, k)))

\* What has been read is there, and the loop is where the entry on the stack says.
Passed(s, m, k) == m < next \/ (m = next /\ k < entry)

LoadInv ==
    status = "loading" =>
        /\ next \notin DOMAIN content[Current] => entry = 1 /\ local = Empty
        /\ next \in DOMAIN content[Current] => entry \in 1..(Len(CurrentManifest.entries) + 1)
        /\ \A m \in DOMAIN content[Current] : \A k \in DOMAIN content[Current][m].entries :
              Passed(Current, m, k) => NameOf(Current, m, k) \in DOMAIN capMap[Current]
        /\ local # Empty =>
              /\ entry \in DOMAIN CurrentManifest.entries
              /\ CurrentEntry.name \notin DOMAIN capMap[Current]
              /\ gateway \in 1..(Len(CurrentEntry.gateways) + 1)
              /\ Collected(heap, local["gwConf"], Current, next, entry, CurrentEntry.gateways,
                           gateway - 1)

\* What the loops of configs and of configsByID have put together.
DefaultsDone == DOMAIN capMap["default"] \ todo

DefaultsInv ==
    call # "none" =>
        /\ todo \subseteq DOMAIN capMap["default"]
        /\ DOMAIN local["gatewayConfigs"] = UNION {IdsOf("default", c) : c \in DefaultsDone}
        /\ \A id, x : Occurrences(ArrayOf(heap, local["gatewayConfigs"], id), x) =
                          Cardinality({c \in DefaultsDone : HasElement("default", c, id, x)})

FilteredInv ==
    call = "setCapabilities" =>
        /\ request \in Seq(STRING) /\ pos \in 1..(Len(request) + 1)
        /\ DOMAIN local["filteredConfigs"] = UNION {IdsOf("filtered", request[k]) : k \in 1..(pos - 1)}
        /\ \A id, x : Occurrences(ArrayOf(heap, local["filteredConfigs"], id), x) =
                          Cardinality({k \in 1..(pos - 1) : HasElement("filtered", request[k], id, x)})

\* What a successful request gave, with or without unknown names.
GivenIsAll ==
    answer = "ok" /\ request # <<>> =>
        /\ DOMAIN given = UNION ({IdsOf("filtered", request[k]) : k \in DOMAIN request}
                                 \cup {IdsOf("default", c) : c \in DOMAIN capMap["default"]})
        /\ \A id \in DOMAIN given : \A x \in ToSet(given[id]) \cup Stored :
             Occurrences(given[id], x) =
                 Cardinality({k \in DOMAIN request : HasElement("filtered", request[k], id, x)})
                 + Cardinality({c \in DOMAIN capMap["default"] : HasElement("default", c, id, x)})

StInv ==
    /\ TypesInv /\ LocalInv /\ HeapInv /\ EntryInv /\ LoadInv
    /\ DefaultsInv /\ FilteredInv /\ GivenIsAll

----------------------------------------------------------------------------
(***************************************************************************)
(* What the steps do to the objects.                                       *)
(***************************************************************************)

\* M is the maps of the objects, in terms that are easier to use.
AreMaps(M, cm, l) ==
    /\ \A v \in DOMAIN l : <<"local", v>> \in DOMAIN M /\ M[<<"local", v>>] = l[v]
    /\ \A s \in Names : \A c \in DOMAIN cm[s] : <<s, c>> \in DOMAIN M /\ M[<<s, c>>] = cm[s][c]
    /\ \A o \in DOMAIN M : \/ \E v \in DOMAIN l : o = <<"local", v>>
                           \/ \E s \in Names : \E c \in DOMAIN cm[s] : o = <<s, c>>

\* The maps of the objects are what they are said to be.
LEMMA MapsLemma == \A cm, l : AreMaps(MapsOf(cm, l), cm, l)
<1> TAKE cm, l
<1> DEFINE M == MapsOf(cm, l)
<1>1. DOMAIN M = InStores(cm) \cup OnStack(l)
  BY DEF MapsOf
<1>2. \A o \in DOMAIN M : M[o] = IF o[1] = "local" THEN l[o[2]] ELSE cm[o[1]][o[2]]
  BY DEF MapsOf
<1> HIDE DEF M
<1>3. \A v \in DOMAIN l : <<"local", v>> \in DOMAIN M /\ M[<<"local", v>>] = l[v]
  <2> TAKE v \in DOMAIN l
  <2> DEFINE o == <<"local", v>>
  <2>1. o[1] = "local" /\ o[2] = v
    OBVIOUS
  <2>2. o \in DOMAIN M
    <3>1. o \in OnStack(l)
      BY DEF OnStack
    <3> HIDE DEF o
    <3> QED
      BY <3>1, <1>1
  <2> HIDE DEF o
  <2>3. M[o] = l[v]
    BY <2>1, <2>2, <1>2
  <2> QED
    BY <2>2, <2>3 DEF o
<1>4. \A s \in Names : \A c \in DOMAIN cm[s] : <<s, c>> \in DOMAIN M /\ M[<<s, c>>] = cm[s][c]
  <2> TAKE s \in Names
  <2> TAKE c \in DOMAIN cm[s]
  <2> DEFINE o == <<s, c>>
  <2>1. o[1] = s /\ o[2] = c /\ s # "local"
    BY DEF Names
  <2>2. o \in DOMAIN M
    <3>1. o \in {<<s, d>> : d \in DOMAIN cm[s]}
      OBVIOUS
    <3>2. o \in InStores(cm)
      BY <3>1 DEF InStores
    <3> HIDE DEF o
    <3> QED
      BY <3>2, <1>1
  <2> HIDE DEF o
  <2>3. M[o] = cm[s][c]
    BY <2>1, <2>2, <1>2
  <2> QED
    BY <2>2, <2>3 DEF o
<1>5. \A o \in DOMAIN M : \/ \E v \in DOMAIN l : o = <<"local", v>>
                          \/ \E s \in Names : \E c \in DOMAIN cm[s] : o = <<s, c>>
  <2> TAKE o \in DOMAIN M
  <2>1. CASE o \in OnStack(l)
    BY <2>1 DEF OnStack
  <2>2. CASE o \in InStores(cm)
    <3>1. PICK s \in Names : o \in {<<s, c>> : c \in DOMAIN cm[s]}
      BY <2>2 DEF InStores
    <3> QED
      BY <3>1
  <2> QED
    BY <2>1, <2>2, <1>1
<1> QED
  BY <1>3, <1>4, <1>5 DEF AreMaps, M

\* Objects have different names.
LEMMA ObjectNames ==
    /\ \A v, w : <<"local", v>> = <<"local", w>> => v = w
    /\ \A s, t \in Names : \A c, d : <<s, c>> = <<t, d>> => s = t /\ c = d
    /\ \A s \in Names : \A c, v : <<s, c>> # <<"local", v>>
BY DEF Names

\* One object less on the stack.
LEMMA LocalGone ==
    ASSUME NEW cm, NEW l, NEW k, NEW v \in DOMAIN l, DOMAIN k = DOMAIN l \ {v},
           \A w \in DOMAIN k : k[w] = l[w]
    PROVE  Without(MapsOf(cm, l), MapsOf(cm, k), <<"local", v>>)
<1> DEFINE M == MapsOf(cm, l)
           N == MapsOf(cm, k)
<1>1. AreMaps(M, cm, l) /\ AreMaps(N, cm, k)
  BY MapsLemma
<1> HIDE DEF M, N
<1>2. \A o \in DOMAIN N : o \in DOMAIN M /\ o # <<"local", v>> /\ N[o] = M[o]
  <2> TAKE o \in DOMAIN N
  <2>1. CASE \E w \in DOMAIN k : o = <<"local", w>>
    BY <2>1, <1>1, ObjectNames DEF AreMaps
  <2>2. CASE \E s \in Names : \E c \in DOMAIN cm[s] : o = <<s, c>>
    BY <2>2, <1>1, ObjectNames DEF AreMaps
  <2> QED
    BY <2>1, <2>2, <1>1 DEF AreMaps
<1>3. \A o \in DOMAIN M : o # <<"local", v>> => o \in DOMAIN N
  BY <1>1, ObjectNames DEF AreMaps
<1> QED
  BY <1>2, <1>3 DEF Without, M, N

\* One object less in a store.
LEMMA CapabilityGone ==
    ASSUME NEW cm, NEW dm, NEW l, NEW s \in Names, NEW c \in DOMAIN cm[s],
           DOMAIN dm[s] = DOMAIN cm[s] \ {c}, \A d \in DOMAIN dm[s] : dm[s][d] = cm[s][d],
           \A t \in Names \ {s} : dm[t] = cm[t]
    PROVE  Without(MapsOf(cm, l), MapsOf(dm, l), <<s, c>>)
<1> DEFINE M == MapsOf(cm, l)
           N == MapsOf(dm, l)
<1>1. AreMaps(M, cm, l) /\ AreMaps(N, dm, l)
  BY MapsLemma
<1> HIDE DEF M, N
<1>2. \A o \in DOMAIN N : o \in DOMAIN M /\ o # <<s, c>> /\ N[o] = M[o]
  <2> TAKE o \in DOMAIN N
  <2>1. CASE \E w \in DOMAIN l : o = <<"local", w>>
    BY <2>1, <1>1, ObjectNames DEF AreMaps
  <2>2. CASE \E t \in Names : \E d \in DOMAIN dm[t] : o = <<t, d>>
    BY <2>2, <1>1, ObjectNames DEF AreMaps
  <2> QED
    BY <2>1, <2>2, <1>1 DEF AreMaps
<1>3. \A o \in DOMAIN M : o # <<s, c>> => o \in DOMAIN N
  BY <1>1, ObjectNames DEF AreMaps
<1> QED
  BY <1>2, <1>3 DEF Without, M, N

\* N has another map for o.
Changed(M, N, o, map) == N = [M EXCEPT ![o] = map]

\* An object of the stack with another map.
LEMMA LocalChanged ==
    ASSUME NEW cm, NEW l, NEW k, NEW v \in DOMAIN l, NEW map, DOMAIN k = DOMAIN l, k[v] = map,
           \A w \in DOMAIN l \ {v} : k[w] = l[w]
    PROVE  Changed(MapsOf(cm, l), MapsOf(cm, k), <<"local", v>>, map)
<1> DEFINE M == MapsOf(cm, l)
           N == MapsOf(cm, k)
           o == <<"local", v>>
<1>1. AreMaps(M, cm, l) /\ AreMaps(N, cm, k)
  BY MapsLemma
<1>2. M = [p \in DOMAIN M |-> M[p]] /\ N = [p \in DOMAIN N |-> N[p]]
  BY DEF MapsOf
<1> HIDE DEF M, N
<1>3. DOMAIN N = DOMAIN M
  BY DEF M, N, MapsOf, OnStack
<1>4. N[o] = map
  BY <1>1 DEF AreMaps
<1>5. \A p \in DOMAIN M : p # o => N[p] = M[p]
  <2> TAKE p \in DOMAIN M
  <2>1. CASE \E w \in DOMAIN l : p = <<"local", w>>
    BY <2>1, <1>1, ObjectNames DEF AreMaps
  <2>2. CASE \E t \in Names : \E d \in DOMAIN cm[t] : p = <<t, d>>
    BY <2>2, <1>1, ObjectNames DEF AreMaps
  <2> QED
    BY <2>1, <2>2, <1>1 DEF AreMaps
<1> HIDE DEF o
<1>6. N = [M EXCEPT ![o] = map]
  BY <1>2, <1>3, <1>4, <1>5
<1> QED
  BY <1>6 DEF M, N, o, Changed

\* The object of the stack is moved into a store.
LEMMA MovedLemma ==
    ASSUME NEW h, NEW cm, NEW dm, NEW l, HeapOK(h, MapsOf(cm, l)),
           NEW v, DOMAIN l = {v}, NEW s \in Names, NEW c, c \notin DOMAIN cm[s],
           DOMAIN dm[s] = DOMAIN cm[s] \cup {c}, dm[s][c] = l[v],
           \A d \in DOMAIN cm[s] : dm[s][d] = cm[s][d],
           \A t \in Names \ {s} : dm[t] = cm[t]
    PROVE  HeapOK(h, MapsOf(dm, Empty))
<1> DEFINE M == MapsOf(cm, l)
           N == MapsOf(dm, Empty)
           o == <<"local", v>>
           q == <<s, c>>
<1>1. AreMaps(M, cm, l) /\ AreMaps(N, dm, Empty)
  BY MapsLemma
<1>2. DOMAIN Empty = {}
  BY DEF Empty
<1> HIDE DEF M, N
<1>3. o \in DOMAIN M /\ q \in DOMAIN N /\ N[q] = M[o]
  BY <1>1 DEF AreMaps
<1>4. \A p \in DOMAIN M \ {o} : p \in DOMAIN N /\ p # q /\ N[p] = M[p]
  <2> TAKE p \in DOMAIN M \ {o}
  <2>1. PICK t \in Names : \E d \in DOMAIN cm[t] : p = <<t, d>>
    BY <1>1 DEF AreMaps
  <2>2. PICK d \in DOMAIN cm[t] : p = <<t, d>>
    BY <2>1
  <2>3. d \in DOMAIN dm[t] /\ dm[t][d] = cm[t][d]
    OBVIOUS
  <2>4. p # q
    BY <2>2, ObjectNames
  <2> QED
    BY <2>2, <2>3, <2>4, <1>1 DEF AreMaps
<1>5. \A p \in DOMAIN N : p # q => p \in DOMAIN M \ {o}
  <2> TAKE p \in DOMAIN N
  <2>1. PICK t \in Names : \E d \in DOMAIN dm[t] : p = <<t, d>>
    BY <1>1, <1>2 DEF AreMaps
  <2>2. PICK d \in DOMAIN dm[t] : p = <<t, d>>
    BY <2>1
  <2>3. p # q => d \in DOMAIN cm[t]
    BY <2>2
  <2>4. p # o
    BY <2>2, ObjectNames
  <2> QED
    BY <2>2, <2>3, <2>4, <1>1 DEF AreMaps
<1> HIDE DEF o, q
<1>6. DOMAIN N = (DOMAIN M \ {o}) \cup {q} /\ q \notin DOMAIN M \ {o}
  BY <1>3, <1>4, <1>5
<1>7. HeapOK(h, M)
  BY DEF M
<1>8. HeapOK(h, N)
  BY <1>3, <1>4, <1>6, <1>7, RenamedLemma
<1> QED
  BY <1>8 DEF N

\* The arrays of the objects V of the stack have not changed.
StackKept(h, k, l, V) == \A w \in V : \A id \in DOMAIN l[w] : k[l[w][id]] = h[l[w][id]]

\* A step from the heap h to k, where the objects are those of cm and l.
Kept(h, k, cm, l) ==
    HeapOK(k, MapsOf(cm, l)) /\ HeapKept(h, k, cm) /\ StackKept(h, k, l, DOMAIN l)

\* What the arrays of the objects keep, they keep by name.
LEMMA KeepsLemma ==
    ASSUME NEW h, NEW k, NEW cm, NEW l, HeapOK(k, MapsOf(cm, l)), Keeps(h, k, MapsOf(cm, l))
    PROVE  Kept(h, k, cm, l)
<1> DEFINE M == MapsOf(cm, l)
<1>1. AreMaps(M, cm, l)
  BY MapsLemma
<1>2. Keeps(h, k, M)
  OBVIOUS
<1> HIDE DEF M
<1>3. HeapKept(h, k, cm)
  <2> SUFFICES ASSUME NEW s \in Names, NEW c \in DOMAIN cm[s], NEW id \in DOMAIN cm[s][c]
               PROVE  k[cm[s][c][id]] = h[cm[s][c][id]]
    BY DEF HeapKept
  <2> DEFINE o == <<s, c>>
  <2>1. o \in DOMAIN M /\ M[o] = cm[s][c]
    BY <1>1 DEF AreMaps
  <2> HIDE DEF o
  <2> QED
    BY <2>1, <1>2 DEF Keeps
<1>4. StackKept(h, k, l, DOMAIN l)
  <2> SUFFICES ASSUME NEW w \in DOMAIN l, NEW id \in DOMAIN l[w]
               PROVE  k[l[w][id]] = h[l[w][id]]
    BY DEF StackKept
  <2> DEFINE o == <<"local", w>>
  <2>1. o \in DOMAIN M /\ M[o] = l[w]
    BY <1>1 DEF AreMaps
  <2> HIDE DEF o
  <2> QED
    BY <2>1, <1>2 DEF Keeps
<1> QED
  BY <1>3, <1>4 DEF Kept

\* An object of the stack is destroyed.
LEMMA LocalDestroyed ==
    ASSUME NEW h, NEW cm, NEW l, HeapOK(h, MapsOf(cm, l)), NEW k, NEW v \in DOMAIN l,
           DOMAIN k = DOMAIN l \ {v}, \A w \in DOMAIN k : k[w] = l[w],
           NEW map, map = l[v], NEW e, e = Destroyed(h, map)
    PROVE  Kept(h, e, cm, k)
<1> DEFINE M == MapsOf(cm, l)
           N == MapsOf(cm, k)
           o == <<"local", v>>
<1>1. Without(M, N, o)
  BY LocalGone
<1>2. o \in DOMAIN M /\ M[o] = l[v]
  BY MapsLemma DEF AreMaps
<1>3. HeapOK(h, M)
  OBVIOUS
<1> HIDE DEF M, N, o
<1>4. e = Destroyed(h, M[o])
  BY <1>2
<1>5. HeapOK(e, N) /\ Keeps(h, e, N)
  BY <1>1, <1>2, <1>3, <1>4, DestroyedLemma
<1> QED
  BY <1>5, KeepsLemma DEF N

\* An object of a store is destroyed.
LEMMA CapabilityDestroyed ==
    ASSUME NEW h, NEW cm, NEW l, HeapOK(h, MapsOf(cm, l)), NEW dm,
           NEW s \in Names, NEW c \in DOMAIN cm[s],
           DOMAIN dm[s] = DOMAIN cm[s] \ {c}, \A d \in DOMAIN dm[s] : dm[s][d] = cm[s][d],
           \A t \in Names \ {s} : dm[t] = cm[t],
           NEW e, e = Destroyed(h, cm[s][c])
    PROVE  Kept(h, e, dm, l)
<1> DEFINE M == MapsOf(cm, l)
           N == MapsOf(dm, l)
           o == <<s, c>>
<1>1. Without(M, N, o)
  BY CapabilityGone
<1>2. o \in DOMAIN M /\ M[o] = cm[s][c]
  BY MapsLemma DEF AreMaps
<1>3. HeapOK(h, M)
  OBVIOUS
<1> HIDE DEF M, N, o
<1>4. e = Destroyed(h, M[o])
  BY <1>2
<1>5. HeapOK(e, N) /\ Keeps(h, e, N)
  BY <1>1, <1>2, <1>3, <1>4, DestroyedLemma
<1> QED
  BY <1>5, KeepsLemma DEF N

\* A new object on the stack.
LEMMA LocalMade ==
    ASSUME NEW h, NEW cm, NEW l, HeapOK(h, MapsOf(cm, l)), NEW k, NEW v \in DOMAIN k,
           DOMAIN l = DOMAIN k \ {v}, \A w \in DOMAIN l : k[w] = l[w], k[v] = Empty
    PROVE  HeapOK(h, MapsOf(cm, k))
<1> DEFINE M == MapsOf(cm, l)
           N == MapsOf(cm, k)
           o == <<"local", v>>
<1>1. Without(N, M, o)
  BY LocalGone
<1>2. o \in DOMAIN N /\ N[o] = Empty
  BY MapsLemma DEF AreMaps
<1>3. HeapOK(h, M)
  OBVIOUS
<1> HIDE DEF M, N, o
<1>4. HeapOK(h, N)
  BY <1>1, <1>2, <1>3, NewLemma
<1> QED
  BY <1>4 DEF N

\* The object v of the stack has the arrays of more behind those it had.
Extended(h, cm, l, v, more, g, k) ==
    /\ HeapOK(g.heap, MapsOf(cm, k)) /\ HeapKept(h, g.heap, cm)
    /\ StackKept(h, g.heap, l, DOMAIN l \ {v})
    /\ DOMAIN g.map = DOMAIN l[v] \cup DOMAIN more
    /\ \A id \in DOMAIN g.map :
          ArrayOf(g.heap, g.map, id) =
              ArrayOf(h, l[v], id) \o (IF id \in DOMAIN more THEN more[id] ELSE <<>>)

\* An append to an object of the stack extends it, and no other object.
LEMMA ExtendedLemma ==
    ASSUME NEW h, NEW cm, NEW l, NEW v \in DOMAIN l, NEW more, NEW g,
           AppendsTo(h, MapsOf(cm, l), <<"local", v>>, more, g),
           NEW k, DOMAIN k = DOMAIN l, k[v] = g.map, \A w \in DOMAIN l \ {v} : k[w] = l[w]
    PROVE  Extended(h, cm, l, v, more, g, k)
<1> DEFINE M == MapsOf(cm, l)
           N == MapsOf(cm, k)
           o == <<"local", v>>
           map == g.map
<1>1. N = [M EXCEPT ![o] = map]
  <2>1. k[v] = map
    OBVIOUS
  <2> HIDE DEF map
  <2>2. Changed(M, N, o, map)
    BY <2>1, LocalChanged
  <2> QED
    BY <2>2 DEF Changed
<1>2. o \in DOMAIN M /\ M[o] = l[v] /\ AreMaps(M, cm, l)
  BY MapsLemma DEF AreMaps
<1>3. AppendsTo(h, M, o, more, g)
  OBVIOUS
<1>4. \A s \in Names : \A c \in DOMAIN cm[s] : <<s, c>> # o
  BY ObjectNames
<1>5. \A w \in DOMAIN l \ {v} : <<"local", w>> # o
  BY ObjectNames
<1> HIDE DEF M, N, o
<1>6. HeapOK(g.heap, N)
  BY <1>1, <1>3 DEF AppendsTo
<1>7. HeapKept(h, g.heap, cm)
  <2> SUFFICES ASSUME NEW s \in Names, NEW c \in DOMAIN cm[s], NEW id \in DOMAIN cm[s][c]
               PROVE  g.heap[cm[s][c][id]] = h[cm[s][c][id]]
    BY DEF HeapKept
  <2> DEFINE p == <<s, c>>
  <2>1. p \in DOMAIN M /\ M[p] = cm[s][c] /\ p # o
    BY <1>2, <1>4 DEF AreMaps
  <2> HIDE DEF p
  <2> QED
    BY <2>1, <1>3 DEF AppendsTo
<1>8. StackKept(h, g.heap, l, DOMAIN l \ {v})
  <2> SUFFICES ASSUME NEW w \in DOMAIN l \ {v}, NEW id \in DOMAIN l[w]
               PROVE  g.heap[l[w][id]] = h[l[w][id]]
    BY DEF StackKept
  <2> DEFINE p == <<"local", w>>
  <2>1. p \in DOMAIN M /\ M[p] = l[w] /\ p # o
    BY <1>2, <1>5 DEF AreMaps
  <2> HIDE DEF p
  <2> QED
    BY <2>1, <1>3 DEF AppendsTo
<1>9. /\ DOMAIN g.map = DOMAIN l[v] \cup DOMAIN more
      /\ \A id \in DOMAIN g.map :
          ArrayOf(g.heap, g.map, id) =
              ArrayOf(h, l[v], id) \o (IF id \in DOMAIN more THEN more[id] ELSE <<>>)
  BY <1>2, <1>3 DEF AppendsTo
<1> QED
  BY <1>6, <1>7, <1>8, <1>9 DEF Extended, N

\* The arrays of a capability are appended to an object of the stack.
LEMMA ExtendedByCapability ==
    ASSUME NEW h, NEW cm, NEW l, HeapOK(h, MapsOf(cm, l)), NEW v \in DOMAIN l,
           NEW s \in Names, NEW c \in DOMAIN cm[s],
           NEW more, more = Value([heap |-> h, map |-> cm[s][c]]),
           NEW g, g = AppendConf([heap |-> h, map |-> l[v]], cm[s][c]),
           NEW k, DOMAIN k = DOMAIN l, k[v] = g.map, \A w \in DOMAIN l \ {v} : k[w] = l[w]
    PROVE  Extended(h, cm, l, v, more, g, k)
<1> DEFINE M == MapsOf(cm, l)
           o == <<"local", v>>
           p == <<s, c>>
<1>1. o \in DOMAIN M /\ M[o] = l[v] /\ p \in DOMAIN M /\ M[p] = cm[s][c]
  BY MapsLemma DEF AreMaps
<1>2. HeapOK(h, M)
  OBVIOUS
<1> HIDE DEF M, o, p
<1>3. more = Value([heap |-> h, map |-> M[p]]) /\ g = AppendConf([heap |-> h, map |-> M[o]], M[p])
  BY <1>1
<1>4. AppendsTo(h, M, o, more, g)
  BY <1>1, <1>2, <1>3, AppendConfLemma
<1>5. AppendsTo(h, MapsOf(cm, l), <<"local", v>>, more, g)
  BY <1>4 DEF M, o
<1> QED
  BY <1>5, ExtendedLemma

\* The arrays of an object of the stack are appended to another one.
LEMMA ExtendedByLocal ==
    ASSUME NEW h, NEW cm, NEW l, HeapOK(h, MapsOf(cm, l)), NEW v \in DOMAIN l, NEW u \in DOMAIN l,
           NEW more, more = Value([heap |-> h, map |-> l[u]]),
           NEW g, g = AppendConf([heap |-> h, map |-> l[v]], l[u]),
           NEW k, DOMAIN k = DOMAIN l, k[v] = g.map, \A w \in DOMAIN l \ {v} : k[w] = l[w]
    PROVE  Extended(h, cm, l, v, more, g, k)
<1> DEFINE M == MapsOf(cm, l)
           o == <<"local", v>>
           p == <<"local", u>>
<1>1. o \in DOMAIN M /\ M[o] = l[v] /\ p \in DOMAIN M /\ M[p] = l[u]
  BY MapsLemma DEF AreMaps
<1>2. HeapOK(h, M)
  OBVIOUS
<1> HIDE DEF M, o, p
<1>3. more = Value([heap |-> h, map |-> M[p]]) /\ g = AppendConf([heap |-> h, map |-> M[o]], M[p])
  BY <1>1
<1>4. AppendsTo(h, M, o, more, g)
  BY <1>1, <1>2, <1>3, AppendConfLemma
<1>5. AppendsTo(h, MapsOf(cm, l), <<"local", v>>, more, g)
  BY <1>4 DEF M, o
<1> QED
  BY <1>5, ExtendedLemma

\* An array is appended to an object of the stack.
LEMMA ExtendedByArray ==
    ASSUME NEW h, NEW cm, NEW l, HeapOK(h, MapsOf(cm, l)), NEW v \in DOMAIN l,
           NEW id, NEW elems \in Seq(Origin), NEW more, more = One(id, elems),
           NEW g, g = AppendArray([heap |-> h, map |-> l[v]], id, elems),
           NEW k, DOMAIN k = DOMAIN l, k[v] = g.map, \A w \in DOMAIN l \ {v} : k[w] = l[w]
    PROVE  Extended(h, cm, l, v, more, g, k)
<1> DEFINE M == MapsOf(cm, l)
           o == <<"local", v>>
<1>1. o \in DOMAIN M /\ M[o] = l[v]
  BY MapsLemma DEF AreMaps
<1>2. HeapOK(h, M)
  OBVIOUS
<1> HIDE DEF M, o
<1>3. g = AppendArray([heap |-> h, map |-> M[o]], id, elems)
  BY <1>1
<1>4. AppendsTo(h, M, o, more, g)
  BY <1>1, <1>2, <1>3, AppendArrayLemma
<1>5. AppendsTo(h, MapsOf(cm, l), <<"local", v>>, more, g)
  BY <1>4 DEF M, o
<1> QED
  BY <1>5, ExtendedLemma

----------------------------------------------------------------------------
(***************************************************************************)
(* What the capabilities are made of.                                      *)
(***************************************************************************)

\* What was collected stays collected.
LEMMA CollectedKept ==
    ASSUME NEW h, NEW k, NEW map, NEW s, NEW m, NEW e, NEW gs, NEW n,
           Collected(h, map, s, m, e, gs, n), \A id \in DOMAIN map : k[map[id]] = h[map[id]]
    PROVE  Collected(k, map, s, m, e, gs, n)
BY DEF Collected

\* Nothing was collected in an empty map.
LEMMA CollectedNone ==
    ASSUME NEW h, NEW s, NEW m, NEW e, NEW gs
    PROVE  Collected(h, Empty, s, m, e, gs, 0)
BY DEF Collected, Empty

\* An append to an array without duplicates of something that is not there.
LEMMA AppendDistinct ==
    ASSUME NEW a \in Seq(Origin), IsInjective(a), NEW x \in Origin, x \notin ToSet(a),
           NEW b, b = a \o <<x>>
    PROVE  IsInjective(b) /\ ToSet(b) = ToSet(a) \cup {x}
<1>1. /\ Len(a) \in Nat /\ DOMAIN a = 1..Len(a) /\ DOMAIN b = 1..(Len(a) + 1)
      /\ \A i \in 1..Len(a) : b[i] = a[i]
      /\ b[Len(a) + 1] = x
  OBVIOUS
<1>2. \A i \in 1..Len(a) : a[i] # x
  BY <1>1 DEF ToSet
<1>3. IsInjective(b)
  BY <1>1, <1>2 DEF IsInjective
<1>4. ToSet(b) = ToSet(a) \cup {x}
  BY <1>1 DEF ToSet
<1> QED
  BY <1>3, <1>4

\* One gateway more.
LEMMA CollectedNext ==
    ASSUME NEW h, NEW cm, NEW l, NEW v \in DOMAIN l, NEW g, NEW k, NEW s, NEW m, NEW e, NEW gs,
           NEW n \in Nat, HeapOK(h, MapsOf(cm, l)), <<s, m, e, n + 1>> \in Origin,
           Collected(h, l[v], s, m, e, gs, n),
           NEW more, more = One(gs[n + 1].id, <<<<s, m, e, n + 1>>>>),
           Extended(h, cm, l, v, more, g, k)
    PROVE  Collected(g.heap, g.map, s, m, e, gs, n + 1)
<1> DEFINE x   == <<s, m, e, n + 1>>
           key == gs[n + 1].id
           Of(id, j) == {<<s, m, e, i>> : i \in {q \in 1..j : gs[q].id = id}}
<1>1. DOMAIN more = {key} /\ more[key] = <<x>>
  BY DEF One
<1>2. DOMAIN g.map = {gs[j].id : j \in 1..(n + 1)}
  <2>1. DOMAIN g.map = DOMAIN l[v] \cup {key}
    BY <1>1 DEF Extended
  <2>2. DOMAIN l[v] = {gs[j].id : j \in 1..n}
    BY DEF Collected
  <2> QED
    BY <2>1, <2>2
<1>3. \A id \in DOMAIN l[v] : h[l[v][id]].elems \in Seq(Origin)
  <2> DEFINE M == MapsOf(cm, l)
             o == <<"local", v>>
  <2>1. o \in DOMAIN M /\ M[o] = l[v] /\ HeapOK(h, M)
    BY MapsLemma DEF AreMaps
  <2> HIDE DEF M, o
  <2> QED
    BY <2>1 DEF HeapOK
<1>4. \A id : x \notin Of(id, n)
  <2> SUFFICES ASSUME NEW id, NEW i \in {q \in 1..n : gs[q].id = id}, x = <<s, m, e, i>>
               PROVE  FALSE
    OBVIOUS
  <2> QED
    OBVIOUS
<1>5. Of(key, n + 1) = Of(key, n) \cup {x}
  OBVIOUS
<1>6. \A id : id # key => Of(id, n + 1) = Of(id, n)
  <2> TAKE id
  <2> HAVE id # key
  <2>1. {q \in 1..(n + 1) : gs[q].id = id} = {q \in 1..n : gs[q].id = id}
    OBVIOUS
  <2> QED
    BY <2>1
<1>7. ASSUME NEW id \in DOMAIN g.map
      PROVE  /\ IsInjective(g.heap[g.map[id]].elems)
             /\ ToSet(g.heap[g.map[id]].elems) = Of(id, n + 1)
  <2> DEFINE a == h[l[v][id]].elems
             b == g.heap[g.map[id]].elems
  <2>1. b = ArrayOf(h, l[v], id) \o (IF id \in DOMAIN more THEN more[id] ELSE <<>>)
    <3>1. ArrayOf(g.heap, g.map, id) = b
      BY DEF ArrayOf
    <3> QED
      BY <3>1 DEF Extended
  <2>2. id \in DOMAIN l[v] => ArrayOf(h, l[v], id) = a /\ a \in Seq(Origin)
                              /\ IsInjective(a) /\ ToSet(a) = Of(id, n)
    BY <1>3 DEF ArrayOf, Collected
  <2>3. id \notin DOMAIN l[v] => ArrayOf(h, l[v], id) = <<>> /\ id = key
    BY <1>1 DEF ArrayOf, Extended
  <2> HIDE DEF a, b
  <2>4. CASE id \in DOMAIN l[v] /\ id = key
    <3>1. b = a \o <<x>>
      BY <2>1, <2>2, <2>4, <1>1
    <3>2. x \notin ToSet(a)
      BY <2>2, <2>4, <1>4
    <3> DEFINE y == x
    <3>3. b = a \o <<y>> /\ y \notin ToSet(a) /\ y \in Origin
      BY <3>1, <3>2
    <3> HIDE DEF y
    <3>4. IsInjective(b) /\ ToSet(b) = ToSet(a) \cup {y}
      BY <2>2, <2>4, <3>3, AppendDistinct
    <3>5. ToSet(b) = Of(id, n + 1)
      BY <3>4, <2>2, <2>4, <1>5 DEF y
    <3> QED
      BY <3>4, <3>5 DEF b
  <2>5. CASE id \in DOMAIN l[v] /\ id # key
    <3>1. b = a
      <4>1. a \o <<>> = a
        BY <2>2, <2>5
      <4> QED
        BY <4>1, <2>1, <2>2, <2>5, <1>1
    <3> QED
      BY <3>1, <2>2, <2>5, <1>6 DEF b
  <2>6. CASE id \notin DOMAIN l[v]
    <3>1. id = key /\ b = <<x>>
      <4>1. \A y : <<>> \o <<y>> = <<y>>
        OBVIOUS
      <4> HIDE DEF x, key
      <4> QED
        BY <4>1, <2>1, <2>3, <2>6, <1>1
    <3>2. Of(id, n) = {}
      <4>1. \A j \in 1..n : gs[j].id # id
        BY <2>6 DEF Collected
      <4> QED
        BY <4>1
    <3>3. Of(id, n + 1) = {x}
      BY <3>1, <3>2, <1>5
    <3> HIDE DEF x
    <3>4. IsInjective(b) /\ ToSet(b) = {x}
      BY <3>1 DEF IsInjective, ToSet
    <3> QED
      BY <3>3, <3>4 DEF b
  <2> QED
    BY <2>4, <2>5, <2>6
<1> QED
  BY <1>2, <1>7 DEF Collected

\* Capabilities that stay, and whose arrays stay, are those of the first entries.
LEMMA EntriesStay ==
    ASSUME EntryInv, UNCHANGED content, HeapKept(heap, heap', capMap'),
           \A s \in Names : \A c \in DOMAIN capMap'[s] :
              c \in DOMAIN capMap[s] /\ capMap'[s][c] = capMap[s][c]
    PROVE  EntryInv'
<1> SUFFICES ASSUME NEW s \in Names, NEW c \in DOMAIN capMap'[s]
             PROVE  \E m, k \in Nat : IsFirst(s, c, m, k)'
        /\ Collected(heap', capMap'[s][c], s, m, k, GatewaysOf(s, m, k)', Len(GatewaysOf(s, m, k)'))
  BY DEF EntryInv
<1>1. PICK m, k \in Nat : IsFirst(s, c, m, k)
        /\ Collected(heap, capMap[s][c], s, m, k, GatewaysOf(s, m, k), Len(GatewaysOf(s, m, k)))
  BY DEF EntryInv
<1>2. IsFirst(s, c, m, k)' /\ GatewaysOf(s, m, k)' = GatewaysOf(s, m, k)
  BY <1>1 DEF IsFirst, GatewaysOf, NameOf
<1> DEFINE map == capMap[s][c]
           gs  == GatewaysOf(s, m, k)
           n   == Len(gs)
<1>3. \A id \in DOMAIN map : heap'[map[id]] = heap[map[id]]
  BY DEF HeapKept
<1>4. capMap'[s][c] = map
  OBVIOUS
<1>5. Collected(heap, map, s, m, k, gs, n)
  BY <1>1
<1> HIDE DEF map, gs, n
<1>6. Collected(heap', map, s, m, k, gs, n)
  BY <1>3, <1>5, CollectedKept
<1> QED
  BY <1>2, <1>4, <1>6 DEF gs, n

\* What the capabilities have stays the same when they and their arrays do.
ElementsStay ==
    /\ \A s \in Names : \A c : IdsOf(s, c)' = IdsOf(s, c)
    /\ \A s \in Names : \A c, id, x : HasElement(s, c, id, x)' <=> HasElement(s, c, id, x)

\* As long as nothing is stored or removed, the elements stay.
LEMMA ElementsLemma ==
    ASSUME UNCHANGED capMap, HeapKept(heap, heap', capMap)
    PROVE  ElementsStay
<1>1. \A s \in Names : \A c : IdsOf(s, c)' = IdsOf(s, c)
  BY DEF IdsOf
<1>2. ASSUME NEW s \in Names, NEW c, NEW id, NEW x
      PROVE  HasElement(s, c, id, x)' <=> HasElement(s, c, id, x)
  <2>1. CASE id \notin IdsOf(s, c)
    BY <2>1, <1>1 DEF HasElement
  <2>2. CASE id \in IdsOf(s, c)
    <3>1. c \in DOMAIN capMap[s] /\ id \in DOMAIN capMap[s][c]
      BY <2>2 DEF IdsOf
    <3>2. ValueOf(s, c)[id] = heap[capMap[s][c][id]].elems
      BY <3>1 DEF ValueOf, Value
    <3>3. ValueOf(s, c)'[id] = heap'[capMap[s][c][id]].elems
      BY <3>1 DEF ValueOf, Value
    <3>4. heap'[capMap[s][c][id]] = heap[capMap[s][c][id]]
      BY <3>1 DEF HeapKept
    <3>5. ToSet(ValueOf(s, c)[id]) = ToSet(ValueOf(s, c)[id])'
      BY <3>2, <3>3, <3>4 DEF ToSet
    <3> QED
      BY <2>2, <3>5, <1>1 DEF HasElement
  <2> QED
    BY <2>1, <2>2
<1> QED
  BY <1>1, <1>2 DEF ElementsStay

\* The arrays of the capabilities are sequences.
LEMMA StoredArrays ==
    ASSUME HeapInv, NEW s \in Names, NEW c \in DOMAIN capMap[s]
    PROVE  \A id : ArrayOf(heap, capMap[s][c], id) \in Seq(Origin)
<1> DEFINE M == MapsOf(capMap, local)
           o == <<s, c>>
<1>1. o \in DOMAIN M /\ M[o] = capMap[s][c] /\ HeapOK(heap, M)
  BY MapsLemma DEF AreMaps, HeapInv
<1> HIDE DEF M, o
<1>2. \A id \in DOMAIN capMap[s][c] : heap[capMap[s][c][id]].elems \in Seq(Origin)
  BY <1>1 DEF HeapOK
<1> QED
  BY <1>2 DEF ArrayOf

\* So are those of the objects on the stack.
LEMMA StackArrays ==
    ASSUME NEW h, NEW cm, NEW l, HeapOK(h, MapsOf(cm, l)), NEW v \in DOMAIN l
    PROVE  \A id : ArrayOf(h, l[v], id) \in Seq(Origin)
<1> DEFINE M == MapsOf(cm, l)
           o == <<"local", v>>
<1>1. o \in DOMAIN M /\ M[o] = l[v] /\ HeapOK(h, M)
  BY MapsLemma DEF AreMaps
<1> HIDE DEF M, o
<1>2. \A id \in DOMAIN l[v] : h[l[v][id]].elems \in Seq(Origin)
  BY <1>1 DEF HeapOK
<1> QED
  BY <1>2 DEF ArrayOf

\* A capability has an element once or not at all.
LEMMA StoredOnce ==
    ASSUME HeapInv, EntryInv, NEW s \in Names, NEW c \in DOMAIN capMap[s], NEW id, NEW x
    PROVE  Occurrences(ArrayOf(heap, capMap[s][c], id), x) =
               IF HasElement(s, c, id, x) THEN 1 ELSE 0
<1> DEFINE map == capMap[s][c]
           a   == ArrayOf(heap, map, id)
<1>1. a \in Seq(Origin)
  BY StoredArrays
<1>2. CASE id \notin DOMAIN map
  <2>1. a = <<>>
    BY <1>2 DEF ArrayOf
  <2>2. ~HasElement(s, c, id, x)
    BY <1>2 DEF HasElement, IdsOf
  <2> QED
    BY <2>1, <2>2, OccurrencesEmpty
<1>3. CASE id \in DOMAIN map
  <2>1. a = heap[map[id]].elems /\ ValueOf(s, c)[id] = a /\ id \in IdsOf(s, c)
    BY <1>3 DEF ArrayOf, ValueOf, Value, IdsOf
  <2>2. IsInjective(a)
    BY <2>1, <1>3 DEF EntryInv, Collected
  <2>3. HasElement(s, c, id, x) <=> x \in ToSet(a)
    BY <2>1 DEF HasElement
  <2> HIDE DEF a
  <2>4. Occurrences(a, x) = IF x \in ToSet(a) THEN 1 ELSE 0
    BY <1>1, <2>2, OccurrencesDistinct
  <2> QED
    BY <2>3, <2>4 DEF a
<1> QED
  BY <1>2, <1>3

----------------------------------------------------------------------------
(***************************************************************************)
(* What the invariant says of the stores.                                  *)
(***************************************************************************)

\* The parts of the manifests.
LEMMA ManifestParts ==
    ASSUME TypesInv, NEW s \in Names, NEW m \in DOMAIN content[s]
    PROVE  /\ m \in Nat \ {0} /\ m <= Len(content[s])
           /\ content[s][m].entries \in Seq(EntryRec)
           /\ \A k \in DOMAIN content[s][m].entries :
                k \in Nat \ {0} /\ GatewaysOf(s, m, k) \in Seq(GatewayRec)
<1>1. content[s] \in Seq(ManifestRec)
  BY DEF TypesInv
<1>2. m \in 1..Len(content[s]) /\ Len(content[s]) \in Nat /\ content[s][m] \in ManifestRec
  BY <1>1
<1>3. content[s][m].entries \in Seq(EntryRec)
  BY <1>2 DEF ManifestRec
<1>4. \A k \in DOMAIN content[s][m].entries :
        k \in Nat \ {0} /\ content[s][m].entries[k] \in EntryRec
  BY <1>3
<1> QED
  BY <1>2, <1>3, <1>4 DEF GatewaysOf, EntryRec

\* The counts are right.
LEMMA CountsAreRight == TypesInv /\ HeapInv => RefsAreOwners
<1> SUFFICES ASSUME TypesInv, HeapInv PROVE RefsAreOwners
  OBVIOUS
<1> DEFINE M == MapsOf(capMap, local)
<1>1. AreMaps(M, capMap, local) /\ HeapOK(heap, M)
  BY MapsLemma DEF HeapInv
<1>2. Objects = DOMAIN M
  BY DEF MapsOf, Objects
<1>3. \A o \in DOMAIN M : MapOf(o) = M[o]
  BY DEF MapsOf, MapOf
<1> HIDE DEF M
<1>4. ASSUME NEW a \in DOMAIN heap PROVE heap[a].refs = Cardinality(Owners(a))
  <2>1. PICK o \in DOMAIN M : a[2] \in DOMAIN M[o] /\ a = M[o][a[2]]
    BY <1>1 DEF HeapOK
  <2>2. \A p \in DOMAIN M : a \in Targets(M[p]) <=> p = o
    <3> TAKE p \in DOMAIN M
    <3>1. ASSUME a \in Targets(M[p]) PROVE p = o
      <4>1. PICK id \in DOMAIN M[p] : a = M[p][id]
        BY <3>1 DEF Targets
      <4>2. id = a[2]
        BY <4>1, <1>1 DEF HeapOK
      <4> QED
        BY <4>1, <4>2, <2>1, <1>1 DEF HeapOK
    <3>2. a \in Targets(M[o])
      BY <2>1 DEF Targets
    <3> QED
      BY <3>1, <3>2
  <2>3. Owners(a) = {o}
    BY <2>2, <1>2, <1>3 DEF Owners
  <2>4. heap[a].refs = 1
    BY <1>1 DEF HeapOK
  <2> QED
    BY <2>3, <2>4, FS_Singleton
<1>5. \A o \in Objects : Targets(MapOf(o)) \subseteq DOMAIN heap
  BY <1>1, <1>2, <1>3 DEF HeapOK, Targets
<1> QED
  BY <1>4, <1>5 DEF RefsAreOwners

\* The first entry of a name is one of its entries.
LEMMA FirstEntry ==
    ASSUME TypesInv, NEW s \in Names, NEW c, NEW m \in Nat, NEW k \in Nat, IsFirst(s, c, m, k)
    PROVE  <<m, k>> \in EntriesOf(s, c)
<1>1. m \in DOMAIN content[s] /\ k \in DOMAIN content[s][m].entries /\ NameOf(s, m, k) = c
  BY DEF IsFirst
<1>2. <<m, k>> \in Entries(s)
  BY <1>1 DEF Entries
<1> QED
  BY <1>1, <1>2 DEF EntriesOf, NameOf

\* Capabilities hold what an entry of their name says.
LEMMA EntriesAreWhole == TypesInv /\ EntryInv => EntriesAreKept
<1> SUFFICES ASSUME TypesInv, EntryInv, NEW s \in Names, NEW c \in DOMAIN capMap[s]
             PROVE  /\ \A id \in DOMAIN capMap[s][c] :
                         ToSet(ValueOf(s, c)[id]) \subseteq
                             UNION {Elements(s, f, id) : f \in EntriesOf(s, c)}
                    /\ \A f \in EntriesOf(s, c) : EntriesOf(s, c) = {f} =>
                         /\ DOMAIN capMap[s][c] = GatewayIds(s, f)
                         /\ \A id \in DOMAIN capMap[s][c] :
                              ToSet(ValueOf(s, c)[id]) = Elements(s, f, id)
  BY DEF EntriesAreKept
<1>1. PICK m, k \in Nat : IsFirst(s, c, m, k)
        /\ Collected(heap, capMap[s][c], s, m, k, GatewaysOf(s, m, k), Len(GatewaysOf(s, m, k)))
  BY DEF EntryInv
<1> DEFINE gs == GatewaysOf(s, m, k)
           e  == <<m, k>>
<1>2. e[1] = m /\ e[2] = k
  OBVIOUS
<1>3. gs \in Seq(GatewayRec)
  BY <1>1, ManifestParts DEF IsFirst
<1>4. DOMAIN gs = 1..Len(gs)
  BY <1>3
<1>5. GatewaysIn(s, e) = gs
  BY <1>2 DEF GatewaysOf, GatewaysIn
<1>6. e \in EntriesOf(s, c)
  BY <1>1, FirstEntry
<1> HIDE DEF gs, e
<1>7. DOMAIN capMap[s][c] = GatewayIds(s, e)
  BY <1>1, <1>4, <1>5 DEF Collected, gs, GatewayIds
<1>8. ASSUME NEW id \in DOMAIN capMap[s][c]
      PROVE  ToSet(ValueOf(s, c)[id]) = Elements(s, e, id)
  <2>1. ValueOf(s, c)[id] = heap[capMap[s][c][id]].elems
    BY DEF ValueOf, Value
  <2>2. ToSet(ValueOf(s, c)[id]) = {<<s, m, k, j>> : j \in {i \in DOMAIN gs : gs[i].id = id}}
    BY <2>1, <1>1, <1>4 DEF Collected, gs
  <2> QED
    BY <2>2, <1>2, <1>5 DEF Elements
<1>9. \A f \in EntriesOf(s, c) : EntriesOf(s, c) = {f} => f = e
  BY <1>6
<1> QED
  BY <1>6, <1>7, <1>8, <1>9

\* The types are right.
LEMMA StoreTypes == TypesInv /\ LocalInv /\ HeapInv => StoreTypeOK
<1> SUFFICES ASSUME TypesInv, LocalInv, HeapInv PROVE StoreTypeOK
  OBVIOUS
<1>1. \A a \in DOMAIN heap : heap[a].refs \in Nat \ {0}
  BY DEF HeapInv, HeapOK
<1>2. DOMAIN local = CASE call = "setCapabilities" -> {"gatewayConfigs", "filteredConfigs"}
                       [] call = "execute" -> {"gatewayConfigs"}
                       [] call = "none" -> IF local = Empty THEN {} ELSE {"gwConf"}
  <2>1. DOMAIN Empty = {}
    BY DEF Empty
  <2> QED
    BY <2>1 DEF TypesInv, LocalInv
<1> QED
  BY <1>1, <1>2 DEF TypesInv, StoreTypeOK

----------------------------------------------------------------------------
(***************************************************************************)
(* The steps of the constructor keep the invariant.                        *)
(***************************************************************************)

\* An array that is not touched is kept.
LEMMA SameHeap == \A h, cm : HeapKept(h, h, cm)
BY DEF HeapKept

\* There is a current store.
LEMMA CurrentIsName == TypesInv => Current \in Names
BY DEF TypesInv, Current, Stores, Names

\* As long as the agent is not up, nothing is asked for.
LEMMA CallsIdle ==
    ASSUME TypesInv, status # "up", UNCHANGED callVars
    PROVE  DefaultsInv' /\ FilteredInv' /\ GivenIsAll' /\ call' = "none" /\ answer' = "none"
BY DEF TypesInv, callVars, DefaultsInv, FilteredInv, GivenIsAll

\* The invariant holds when the constructor of the agent begins.
LEMMA InitStores == StoreInit => StInv
<1> SUFFICES ASSUME StoreInit PROVE StInv
  OBVIOUS
<1> USE DEF StoreInit
<1>1. DOMAIN Empty = {}
  BY DEF Empty
<1>2. content \in [Names -> Seq(ManifestRec)]
  BY StoreAssumption
<1>3. TypesInv
  <2>1. Current \in Names /\ Len(content[Current]) \in Nat
    BY <1>2 DEF Current, Stores, Names
  <2>2. MaxRequests \in Nat
    BY StoreAssumption
  <2> QED
    BY <1>1, <1>2, <2>1, <2>2, FS_EmptySet DEF TypesInv, Stores
<1>4. LocalInv
  BY DEF LocalInv
<1>5. HeapInv
  <2> DEFINE M == MapsOf(capMap, local)
  <2>1. AreMaps(M, capMap, local)
    BY MapsLemma
  <2> HIDE DEF M
  <2>2. DOMAIN M = {}
    BY <2>1, <1>1 DEF AreMaps
  <2>3. HeapOK(heap, M)
    BY <2>2, <1>1, FS_EmptySet DEF HeapOK
  <2> QED
    BY <2>3 DEF HeapInv, M
<1>6. EntryInv
  BY <1>1 DEF EntryInv
<1>7. LoadInv
  <2>1. Current \in Names
    BY <1>3, CurrentIsName
  <2>2. \A m \in DOMAIN content[Current] : m \in Nat \ {0}
    BY <2>1, <1>3, ManifestParts
  <2>3. next \notin DOMAIN content[Current] /\ entry = 1 /\ local = Empty
    BY <2>2
  <2>4. \A m \in DOMAIN content[Current] : \A k : ~Passed(Current, m, k)
    <3>1. next = 0
      OBVIOUS
    <3> HIDE DEF StoreInit
    <3> QED
      BY <2>2, <3>1 DEF Passed
  <2> QED
    BY <2>3, <2>4 DEF LoadInv
<1>8. DefaultsInv /\ FilteredInv /\ GivenIsAll
  BY DEF DefaultsInv, FilteredInv, GivenIsAll
<1> QED
  BY <1>3, <1>4, <1>5, <1>6, <1>7, <1>8 DEF StInv

\* The constructor fails.
LEMMA FailInv ==
    ASSUME StInv, status = "loading", Fail, UNCHANGED <<manifestVars, callVars>>
    PROVE  StInv'
<1> USE DEF StInv, Fail, manifestVars, loadVars
<1>1. TypesInv'
  BY DEF TypesInv, callVars, Current
<1>2. LocalInv'
  BY DEF LocalInv, TypesInv, callVars
<1>3. HeapInv'
  BY DEF HeapInv
<1>4. EntryInv'
  <2>1. HeapKept(heap, heap', capMap')
    BY SameHeap
  <2> QED
    BY <2>1, EntriesStay
<1>5. LoadInv'
  BY DEF LoadInv
<1>6. DefaultsInv' /\ FilteredInv' /\ GivenIsAll'
  BY CallsIdle
<1> QED
  BY <1>1, <1>2, <1>3, <1>4, <1>5, <1>6

\* The manifests are loaded, or the constructor fails.
LEMMA LoadContentInv == StInv /\ LoadContent => StInv'
<1> SUFFICES ASSUME StInv, LoadContent PROVE StInv'
  OBVIOUS
<1> USE DEF LoadContent
<1>1. CASE Fail
  BY <1>1, FailInv
<1>2. CASE next' = 1 /\ UNCHANGED <<status, store, entry, gateway, heap, capMap, local>>
  <2> USE <1>2 DEF StInv, manifestVars
  <2>1. Current \in Names /\ Current' = Current
    BY CurrentIsName DEF Current
  <2>2. content[Current] \in Seq(ManifestRec) /\ UNCHANGED content
    BY <2>1 DEF TypesInv
  <2>3. Len(content[Current]) \in Nat /\ DOMAIN content[Current] = 1..Len(content[Current])
    BY <2>2
  <2>4. TypesInv'
    BY <2>1, <2>2, <2>3 DEF TypesInv, callVars
  <2>5. LocalInv'
    BY DEF LocalInv, TypesInv, callVars
  <2>6. HeapInv'
    BY DEF HeapInv
  <2>7. EntryInv'
    <3>1. HeapKept(heap, heap', capMap')
      BY SameHeap
    <3> QED
      BY <3>1, EntriesStay
  <2>8. LoadInv'
    <3>1. entry = 1 /\ local = Empty
      BY <2>3 DEF LoadInv
    <3>3. 1 \in DOMAIN content[Current] => Len(content[Current][1].entries) \in Nat
      BY ManifestParts, <2>1
    <3>4. \A m \in DOMAIN content[Current] : \A k \in DOMAIN content[Current][m].entries :
            m \in Nat \ {0} /\ k \in Nat \ {0}
      BY ManifestParts, <2>1
    <3>5. \A m \in DOMAIN content[Current] : \A k \in DOMAIN content[Current][m].entries :
             ~Passed(Current, m, k)'
      BY <3>1, <3>4 DEF Passed
    <3>6. CurrentManifest' = content[Current][1]
      BY <2>1, <2>2 DEF CurrentManifest
    <3> QED
      BY <2>1, <2>2, <3>1, <3>3, <3>5, <3>6 DEF LoadInv
  <2>9. DefaultsInv' /\ FilteredInv' /\ GivenIsAll'
    BY CallsIdle
  <2> QED
    BY <2>4, <2>5, <2>6, <2>7, <2>8, <2>9
<1> QED
  BY <1>1, <1>2

\* One entry of a manifest, or its end.
LEMMA ParseServiceManifestInv == StInv /\ ParseServiceManifest => StInv'
<1> SUFFICES ASSUME StInv, ParseServiceManifest PROVE StInv'
  OBVIOUS
<1> DEFINE es == CurrentManifest.entries
<1>1. /\ status = "loading" /\ next \in DOMAIN content[Current] /\ local = Empty
      /\ UNCHANGED <<manifestVars, callVars>>
  BY DEF ParseServiceManifest
<1>2. Current \in Names /\ content[Current] \in Seq(ManifestRec)
  BY CurrentIsName DEF TypesInv, StInv
<1>3. next \in 1..Len(content[Current]) /\ Len(content[Current]) \in Nat
  BY <1>1, <1>2
<1>4. es \in Seq(EntryRec) /\ Len(es) \in Nat /\ DOMAIN es = 1..Len(es)
  <2>1. es \in Seq(EntryRec)
    BY <1>1, <1>2, ManifestParts DEF CurrentManifest, StInv
  <2> HIDE DEF es
  <2> QED
    BY <2>1
<1>5. \A m \in DOMAIN content[Current] : \A k \in DOMAIN content[Current][m].entries :
        m \in Nat \ {0} /\ k \in Nat \ {0}
  BY ManifestParts, <1>2 DEF StInv
<1>6. entry \in 1..(Len(es) + 1)
  BY <1>1 DEF StInv, LoadInv
<1>7. UNCHANGED content /\ DefaultsInv' /\ FilteredInv' /\ GivenIsAll' /\ UNCHANGED callVars
      /\ call' = "none" /\ answer' = "none"
  <2>1. status # "up" /\ TypesInv
    BY <1>1 DEF StInv
  <2> QED
    BY <2>1, <1>1, CallsIdle DEF manifestVars
<1>8. CASE Fail
  BY <1>1, <1>8, FailInv
<1>9. ASSUME UNCHANGED <<status, store, heap, capMap>>
      PROVE  EntryInv' /\ Current' = Current
  <2>1. HeapKept(heap, heap', capMap')
    BY <1>9, SameHeap
  <2> QED
    BY <1>9, <2>1, <1>7, EntriesStay DEF StInv, Current
<1>10. CASE /\ entry \in DOMAIN es /\ CurrentEntry.name \in DOMAIN capMap[Current]
            /\ entry' = entry + 1 /\ UNCHANGED <<gateway, local, status, store, next, heap, capMap>>
  <2> USE <1>10
  <2>1. EntryInv' /\ Current' = Current /\ CurrentManifest' = CurrentManifest
    BY <1>9, <1>7 DEF CurrentManifest
  <2>2. TypesInv'
    BY <1>7, <2>1 DEF StInv, TypesInv, callVars
  <2>3. LocalInv' /\ HeapInv'
    BY <1>1 DEF StInv, LocalInv, HeapInv, callVars
  <2>4. ASSUME NEW m \in DOMAIN content[Current], NEW k \in DOMAIN content[Current][m].entries,
               Passed(Current, m, k)'
        PROVE  NameOf(Current, m, k)' \in DOMAIN capMap[Current]
    <3>1. Passed(Current, m, k) \/ (m = next /\ k = entry)
      BY <2>4, <1>5, <1>6, <1>4, <1>3 DEF Passed
    <3>2. NameOf(Current, m, k)' = NameOf(Current, m, k)
      BY <1>7, <2>1 DEF NameOf
    <3>3. CASE Passed(Current, m, k)
      BY <3>2, <3>3, <1>1 DEF StInv, LoadInv
    <3>4. CASE m = next /\ k = entry
      BY <3>2, <3>4 DEF NameOf, CurrentEntry, CurrentManifest
    <3> QED
      BY <3>1, <3>3, <3>4
  <2>5. LoadInv'
    BY <1>1, <1>3, <1>4, <1>7, <2>1, <2>4 DEF LoadInv
  <2> QED
    BY <1>7, <2>1, <2>2, <2>3, <2>5 DEF StInv
<1>11. CASE /\ entry \in DOMAIN es /\ CurrentEntry.name \notin DOMAIN capMap[Current]
            /\ gateway' = 1 /\ local' = [v \in {"gwConf"} |-> Empty]
            /\ UNCHANGED <<entry, status, store, next, heap, capMap>>
  <2> USE <1>11
  <2>1. EntryInv' /\ Current' = Current /\ CurrentManifest' = CurrentManifest
        /\ CurrentEntry' = CurrentEntry
    BY <1>9, <1>7 DEF CurrentManifest, CurrentEntry
  <2>2. TypesInv'
    BY <1>7, <2>1 DEF StInv, TypesInv, callVars
  <2>3. LocalInv'
    BY <1>1, <1>7 DEF LocalInv
  <2>4. HeapInv'
    <3> DEFINE k == local'
    <3>1. DOMAIN k = {"gwConf"} /\ k["gwConf"] = Empty
      OBVIOUS
    <3>2. DOMAIN local = {}
      BY <1>1 DEF Empty
    <3>3. HeapOK(heap, MapsOf(capMap, local))
      BY DEF StInv, HeapInv
    <3> HIDE DEF k
    <3>4. DOMAIN local = DOMAIN k \ {"gwConf"}
      BY <3>1, <3>2
    <3>5. HeapOK(heap, MapsOf(capMap, k))
      BY <3>1, <3>2, <3>3, <3>4, LocalMade
    <3> QED
      BY <3>5 DEF HeapInv, k
  <2>5. LoadInv'
    <3>1. \A m \in DOMAIN content[Current] : \A k \in DOMAIN content[Current][m].entries :
             Passed(Current, m, k)' => NameOf(Current, m, k)' \in DOMAIN capMap[Current]
      BY <1>1, <1>7, <2>1 DEF StInv, LoadInv, Passed, NameOf
    <3>2. Collected(heap', local'["gwConf"], Current, next, entry, CurrentEntry.gateways, 0)
      BY CollectedNone
    <3>3. Len(CurrentEntry.gateways) \in Nat
      <4>1. GatewaysOf(Current, next, entry) \in Seq(GatewayRec)
        BY <1>1, <1>2, ManifestParts DEF StInv, CurrentManifest
      <4> QED
        BY <4>1 DEF GatewaysOf, CurrentEntry, CurrentManifest
    <3>4. gateway' - 1 = 0
      OBVIOUS
    <3> QED
      BY <1>1, <1>3, <1>6, <1>7, <2>1, <3>1, <3>2, <3>3, <3>4 DEF LoadInv
  <2> QED
    BY <1>7, <2>1, <2>2, <2>3, <2>4, <2>5 DEF StInv
<1>12. CASE /\ entry = Len(es) + 1 /\ next' = next + 1 /\ entry' = 1
            /\ UNCHANGED <<status, store, gateway, heap, capMap, local>>
  <2> USE <1>12
  <2>1. EntryInv' /\ Current' = Current
    BY <1>9
  <2>2. TypesInv'
    BY <1>3, <1>7, <2>1 DEF StInv, TypesInv, callVars
  <2>3. LocalInv' /\ HeapInv'
    BY <1>1 DEF StInv, LocalInv, HeapInv, callVars
  <2>4. ASSUME NEW m \in DOMAIN content[Current], NEW k \in DOMAIN content[Current][m].entries,
               Passed(Current, m, k)'
        PROVE  NameOf(Current, m, k)' \in DOMAIN capMap[Current]
    <3>1. m <= next
      BY <2>4, <1>5, <1>3 DEF Passed
    <3>2. m = next => k < entry
      BY <1>4, <1>6 DEF CurrentManifest
    <3>3. Passed(Current, m, k)
      BY <3>1, <3>2, <1>5, <1>3 DEF Passed
    <3>4. NameOf(Current, m, k)' = NameOf(Current, m, k)
      BY <1>7, <2>1 DEF NameOf
    <3> QED
      BY <3>3, <3>4, <1>1 DEF StInv, LoadInv
  <2>5. next' \in DOMAIN content[Current] =>
           CurrentManifest' = content[Current][next'] /\ Len(CurrentManifest'.entries) \in Nat
    <3> HAVE next' \in DOMAIN content[Current]
    <3>1. CurrentManifest' = content[Current][next']
      BY <1>7, <2>1 DEF CurrentManifest
    <3> DEFINE n == next'
    <3>2. n \in DOMAIN content[Current]
      OBVIOUS
    <3> HIDE DEF n
    <3>3. content[Current][n].entries \in Seq(EntryRec)
      BY <3>2, <1>2, ManifestParts DEF StInv
    <3>4. Len(content[Current][n].entries) \in Nat
      BY <3>3
    <3> QED
      BY <3>1, <3>4 DEF n
  <2>6. LoadInv'
    BY <1>1, <1>7, <2>1, <2>4, <2>5 DEF LoadInv
  <2> QED
    BY <1>7, <2>1, <2>2, <2>3, <2>6 DEF StInv
<1> QED
  BY <1>8, <1>10, <1>11, <1>12 DEF ParseServiceManifest

\* One gateway of an entry, or its end: the entry is the first one of its name, since
\* the names of those before it are in the map.
LEMMA ParseGatewayConfigsInv == StInv /\ ParseGatewayConfigs => StInv'
<1> SUFFICES ASSUME StInv, ParseGatewayConfigs PROVE StInv'
  OBVIOUS
<1> DEFINE gs == CurrentEntry.gateways
           v  == "gwConf"
<1>1. status = "loading" /\ local # Empty /\ UNCHANGED <<manifestVars, callVars>>
  BY DEF ParseGatewayConfigs
<1>2. /\ next \in DOMAIN content[Current] /\ entry \in DOMAIN CurrentManifest.entries
      /\ CurrentEntry.name \notin DOMAIN capMap[Current]
      /\ gateway \in 1..(Len(gs) + 1)
      /\ Collected(heap, local[v], Current, next, entry, gs, gateway - 1)
  BY <1>1 DEF StInv, LoadInv
<1>3. Current \in Names /\ content[Current] \in Seq(ManifestRec)
  BY CurrentIsName DEF TypesInv, StInv
<1>4. next \in 1..Len(content[Current]) /\ Len(content[Current]) \in Nat
  BY <1>2, <1>3
<1>5. CurrentManifest.entries \in Seq(EntryRec) /\ gs \in Seq(GatewayRec) /\ entry \in Nat \ {0}
  BY <1>2, <1>3, ManifestParts DEF CurrentManifest, CurrentEntry, GatewaysOf, StInv
<1>6. Len(gs) \in Nat /\ DOMAIN gs = 1..Len(gs) /\ gateway \in Nat
  <2> HIDE DEF gs
  <2> QED
    BY <1>5, <1>2
<1>7. \A m \in DOMAIN content[Current] : \A k \in DOMAIN content[Current][m].entries :
        m \in Nat \ {0} /\ k \in Nat \ {0}
  BY ManifestParts, <1>3 DEF StInv
<1>8. UNCHANGED content /\ DefaultsInv' /\ FilteredInv' /\ GivenIsAll' /\ UNCHANGED callVars
      /\ call' = "none" /\ answer' = "none"
  <2>1. status # "up" /\ TypesInv
    BY <1>1 DEF StInv
  <2> QED
    BY <2>1, <1>1, CallsIdle DEF manifestVars
<1>9. DOMAIN local = {v} /\ HeapOK(heap, MapsOf(capMap, local))
  BY <1>1 DEF StInv, LocalInv, HeapInv, TypesInv
<1>10. CASE Fail
  BY <1>1, <1>10, FailInv
<1>11. CASE /\ gateway \in DOMAIN gs
            /\ LET g == AppendArray(Local(v), gs[gateway].id, <<<<Current, next, entry, gateway>>>>)
               IN  heap' = g.heap /\ local' = [w \in {v} |-> g.map]
            /\ gateway' = gateway + 1
            /\ UNCHANGED <<status, store, next, entry, capMap>>
  <2> USE <1>11
  <2> DEFINE id == gs[gateway].id
             x  == <<Current, next, entry, gateway>>
             el == <<x>>
             g  == AppendArray([heap |-> heap, map |-> local[v]], id, el)
             more == One(id, el)
             k  == local'
  <2>1. heap' = g.heap /\ DOMAIN k = {v} /\ k[v] = g.map
    BY DEF Local
  <2>2. x \in Origin
    BY <1>3, <1>4, <1>5, <1>6 DEF Origin
  <2>3. el \in Seq(Origin)
    <3> HIDE DEF x
    <3> QED
      BY <2>2
  <2> HIDE DEF g, k
  <2>4. Extended(heap, capMap, local, v, more, g, k)
    <3>1. more = One(id, el) /\ g = AppendArray([heap |-> heap, map |-> local[v]], id, el)
      BY DEF g
    <3> HIDE DEF id, el, more
    <3>2. v \in DOMAIN local /\ DOMAIN k = DOMAIN local /\ \A w \in DOMAIN local \ {v} : k[w] = local[w]
      BY <1>9, <2>1
    <3> HIDE DEF v
    <3> QED
      BY <1>9, <2>1, <2>3, <3>1, <3>2, ExtendedByArray
  <2>5. Collected(g.heap, g.map, Current, next, entry, gs, gateway)
    <3> DEFINE n == gateway - 1
               s == Current
    <3>1. n \in Nat /\ n + 1 = gateway
      BY <1>2, <1>6
    <3>2. more = One(gs[n + 1].id, <<<<s, next, entry, n + 1>>>>)
      BY <3>1
    <3>3. <<s, next, entry, n + 1>> \in Origin
      BY <2>2, <3>1
    <3>4. Collected(heap, local[v], s, next, entry, gs, n)
      BY <1>2
    <3>5. v \in DOMAIN local
      BY <1>9
    <3> HIDE DEF n, s, gs, more, v
    <3>6. Collected(g.heap, g.map, s, next, entry, gs, n + 1)
      BY <1>9, <2>4, <3>1, <3>2, <3>3, <3>4, <3>5, CollectedNext
    <3> QED
      BY <3>1, <3>6 DEF s
  <2>6. HeapInv'
    BY <2>1, <2>4 DEF Extended, HeapInv, k
  <2>7. EntryInv'
    <3>1. HeapKept(heap, heap', capMap')
      BY <2>1, <2>4 DEF Extended
    <3> QED
      BY <3>1, <1>8, EntriesStay DEF StInv
  <2>8. Current' = Current /\ CurrentManifest' = CurrentManifest /\ CurrentEntry' = CurrentEntry
    BY <1>8 DEF Current, CurrentManifest, CurrentEntry
  <2>9. TypesInv'
    BY <1>6, <1>8, <2>8 DEF StInv, TypesInv, callVars
  <2>10. DOMAIN local' = {"gwConf"}
    BY <2>1 DEF k
  <2>11. LocalInv'
    BY <1>1, <1>8, <2>10 DEF LocalInv
  <2>12. LoadInv'
    <3>1. \A m \in DOMAIN content[Current] : \A j \in DOMAIN content[Current][m].entries :
             Passed(Current, m, j)' => NameOf(Current, m, j)' \in DOMAIN capMap[Current]
      BY <1>1, <1>8, <2>8 DEF StInv, LoadInv, Passed, NameOf
    <3>2. Collected(heap', local'["gwConf"], Current, next, entry, CurrentEntry.gateways, gateway' - 1)
      <4>1. gateway' - 1 = gateway
        BY <1>6
      <4>2. heap' = g.heap /\ local'[v] = g.map
        BY <2>1 DEF k
      <4> QED
        BY <4>1, <4>2, <2>5
    <3>3. gateway' \in 1..(Len(gs) + 1)
      BY <1>6
    <3>4. entry \in 1..(Len(CurrentManifest.entries) + 1)
      BY <1>2, <1>5
    <3> QED
      BY <1>2, <1>8, <2>8, <3>1, <3>2, <3>3, <3>4 DEF LoadInv
  <2> QED
    BY <1>8, <2>6, <2>7, <2>9, <2>11, <2>12 DEF StInv
<1>12. CASE /\ gateway = Len(gs) + 1
            /\ heap' = Destroyed(Assigned(heap, local[v]), local[v])
            /\ capMap' = [capMap EXCEPT ![Current] = Joined(One(CurrentEntry.name, local[v]), @)]
            /\ local' = Empty /\ entry' = entry + 1
            /\ UNCHANGED <<status, store, next, gateway>>
  <2> USE <1>12
  <2> DEFINE s == Current
             c == CurrentEntry.name
             d == capMap'
  <2>1. heap' = heap
    BY <1>9, AssignedDestroyed
  <2>2. /\ DOMAIN d = Names /\ DOMAIN d[s] = DOMAIN capMap[s] \cup {c} /\ d[s][c] = local[v]
        /\ \A b \in DOMAIN capMap[s] : d[s][b] = capMap[s][b]
        /\ \A t \in Names \ {s} : d[t] = capMap[t]
    <3>1. DOMAIN capMap = Names
      BY DEF StInv, TypesInv
    <3> DEFINE new == Joined(One(c, local[v]), capMap[s])
    <3>2. /\ DOMAIN new = DOMAIN capMap[s] \cup {c} /\ new[c] = local[v]
          /\ \A b \in DOMAIN capMap[s] : new[b] = capMap[s][b]
      BY <1>2 DEF Joined, One
    <3>3. d = [capMap EXCEPT ![s] = new]
      OBVIOUS
    <3> HIDE DEF new, s, c, v, d
    <3> QED
      BY <3>1, <3>2, <3>3, <1>3 DEF s
  <2>3. HeapInv'
    <3> HIDE DEF s, c, v, d
    <3>1. c \notin DOMAIN capMap[s] /\ s \in Names
      BY <1>2, <1>3 DEF s, c
    <3>2. HeapOK(heap, MapsOf(d, Empty))
      BY <1>9, <2>2, <3>1, MovedLemma
    <3> QED
      BY <2>1, <3>2 DEF HeapInv, d
  <2>4. Current' = Current /\ CurrentManifest' = CurrentManifest
    BY <1>8 DEF Current, CurrentManifest
  <2>5. IsFirst(s, c, next, entry) /\ Len(GatewaysOf(s, next, entry)) = gateway - 1
        /\ GatewaysOf(s, next, entry) = gs
    <3>1. NameOf(s, next, entry) = c /\ GatewaysOf(s, next, entry) = gs
      BY DEF NameOf, GatewaysOf, CurrentEntry, CurrentManifest
    <3>2. ASSUME NEW m \in DOMAIN content[s], NEW k \in DOMAIN content[s][m].entries,
                 NameOf(s, m, k) = c
          PROVE  next < m \/ (next = m /\ entry <= k)
      <4>1. ~Passed(s, m, k)
        BY <3>2, <1>1, <1>2 DEF StInv, LoadInv
      <4> QED
        BY <4>1, <1>4, <1>5, <1>7 DEF Passed
    <3>3. entry \in DOMAIN content[s][next].entries
      BY <1>2 DEF CurrentManifest
    <3> QED
      BY <1>2, <1>6, <3>1, <3>2, <3>3 DEF IsFirst
  <2>6. \A t \in Names : \A b, m, k : IsFirst(t, b, m, k)' <=> IsFirst(t, b, m, k)
    BY <1>8 DEF IsFirst, NameOf
  <2>7. EntryInv'
    <3> SUFFICES ASSUME NEW t \in Names, NEW b \in DOMAIN d[t]
                 PROVE  \E m, k \in Nat : IsFirst(t, b, m, k)'
            /\ Collected(heap', d[t][b], t, m, k, GatewaysOf(t, m, k)', Len(GatewaysOf(t, m, k)'))
      BY DEF EntryInv
    <3>1. CASE t = s /\ b = c
      <4>1. \A q, m, k : GatewaysOf(q, m, k)' = GatewaysOf(q, m, k)
        BY <1>8 DEF GatewaysOf
      <4>2. Collected(heap', d[t][b], t, next, entry, gs, Len(gs))
        BY <3>1, <1>2, <1>6, <2>1, <2>2
      <4>3. next \in Nat /\ entry \in Nat
        BY <1>4, <1>5
      <4> HIDE DEF s, c, v, d, gs
      <4> QED
        BY <3>1, <4>1, <4>2, <4>3, <2>5, <2>6
    <3>2. CASE ~(t = s /\ b = c)
      <4>1. b \in DOMAIN capMap[t] /\ d[t][b] = capMap[t][b]
        <5> HIDE DEF s, c, v, d
        <5> QED
          BY <2>2, <3>2
      <4>2. PICK m, k \in Nat : IsFirst(t, b, m, k)
              /\ Collected(heap, capMap[t][b], t, m, k, GatewaysOf(t, m, k), Len(GatewaysOf(t, m, k)))
        BY <4>1 DEF StInv, EntryInv
      <4>3. GatewaysOf(t, m, k)' = GatewaysOf(t, m, k)
        BY <1>8 DEF GatewaysOf
      <4> HIDE DEF d
      <4> QED
        BY <4>1, <4>2, <4>3, <2>1, <2>6
    <3> QED
      BY <3>1, <3>2
  <2>8. TypesInv'
    <3>1. \A t \in Names : IsFiniteSet(DOMAIN d[t])
      <4>1. IsFiniteSet(DOMAIN capMap[s] \cup {c})
        BY <1>3, FS_AddElement DEF StInv, TypesInv
      <4> HIDE DEF s, c, d, v
      <4> QED
        BY <4>1, <2>2 DEF StInv, TypesInv
    <3>2. DOMAIN d = Names
      BY <2>2
    <3> HIDE <1>12
    <3>3. entry' \in Nat /\ UNCHANGED <<status, store, next, gateway>>
      BY <1>12, <1>5
    <3> QED
      BY <1>8, <2>4, <3>1, <3>2, <3>3 DEF StInv, TypesInv, callVars
  <2>9. LocalInv'
    BY <1>8 DEF LocalInv
  <2>10. LoadInv'
    <3>1. ASSUME NEW m \in DOMAIN content[s], NEW k \in DOMAIN content[s][m].entries,
                 Passed(s, m, k)'
          PROVE  NameOf(s, m, k)' \in DOMAIN d[s]
      <4>1. Passed(s, m, k) \/ (m = next /\ k = entry)
        BY <3>1, <1>4, <1>5, <1>7 DEF Passed
      <4>2. NameOf(s, m, k)' = NameOf(s, m, k)
        BY <1>8, <2>4 DEF NameOf
      <4>3. CASE Passed(s, m, k)
        <5>1. NameOf(s, m, k) \in DOMAIN capMap[s]
          BY <4>3, <1>1 DEF StInv, LoadInv
        <5> QED
          BY <5>1, <4>2, <2>2
      <4>4. CASE m = next /\ k = entry
        <5>1. NameOf(s, m, k) = c
          BY <4>4, <2>5 DEF IsFirst
        <5> QED
          BY <5>1, <4>2, <2>2
      <4> QED
        BY <4>1, <4>3, <4>4
    <3>2. entry' \in 1..(Len(CurrentManifest.entries) + 1)
      BY <1>2, <1>5
    <3> QED
      BY <1>2, <1>8, <2>4, <3>1, <3>2 DEF LoadInv
  <2> QED
    BY <1>8, <2>3, <2>7, <2>8, <2>9, <2>10 DEF StInv
<1> QED
  BY <1>10, <1>11, <1>12 DEF ParseGatewayConfigs

\* A store is complete.
LEMMA StoreIsMadeInv == StInv /\ StoreIsMade => StInv'
<1> SUFFICES ASSUME StInv, StoreIsMade PROVE StInv'
  OBVIOUS
<1>1. /\ status = "loading" /\ next = Len(content[Current]) + 1
      /\ UNCHANGED <<path, content, entry, gateway, heap, capMap, local, callVars>>
  BY DEF StoreIsMade, manifestVars
<1>2. Current \in Names /\ content[Current] \in Seq(ManifestRec)
  BY CurrentIsName DEF TypesInv, StInv
<1>3. next \notin DOMAIN content[Current]
  BY <1>1, <1>2
<1>4. entry = 1 /\ local = Empty
  BY <1>1, <1>3 DEF StInv, LoadInv
<1>5. DefaultsInv' /\ FilteredInv' /\ GivenIsAll' /\ call' = "none" /\ answer' = "none"
  <2>1. status # "up" /\ TypesInv
    BY <1>1 DEF StInv
  <2> QED
    BY <2>1, <1>1, CallsIdle
<1>6. EntryInv'
  <2>1. HeapKept(heap, heap', capMap')
    BY <1>1, SameHeap
  <2> QED
    BY <2>1, <1>1, EntriesStay DEF StInv
<1>7. HeapInv'
  BY <1>1 DEF StInv, HeapInv
<1>8. LocalInv'
  BY <1>1, <1>4, <1>5 DEF LocalInv
<1>9. CASE store = Len(Stores) /\ status' = "up" /\ UNCHANGED <<store, next>>
  <2>1. TypesInv'
    BY <1>1, <1>5, <1>9 DEF StInv, TypesInv, callVars, Current
  <2>2. LoadInv'
    BY <1>9 DEF LoadInv
  <2> QED
    BY <1>5, <1>6, <1>7, <1>8, <2>1, <2>2 DEF StInv
<1>10. CASE store # Len(Stores) /\ store' = store + 1 /\ next' = 0 /\ UNCHANGED status
  <2>1. store' \in DOMAIN Stores
    BY <1>10 DEF StInv, TypesInv, Stores
  <2>2. Current' \in Names
    BY <2>1 DEF Current, Stores, Names
  <2>3. content'[Current'] \in Seq(ManifestRec)
    BY <1>1, <2>2 DEF StInv, TypesInv
  <2>4. next' \in 0..(Len(content'[Current']) + 1)
    <3> DEFINE q == content'[Current']
    <3> HIDE DEF q
    <3>1. Len(q) \in Nat
      BY <2>3 DEF q
    <3>2. next' \in 0..(Len(q) + 1)
      BY <3>1, <1>10
    <3> QED
      BY <3>2 DEF q
  <2>5. TypesInv'
    BY <1>1, <1>5, <1>10, <2>1, <2>4 DEF StInv, TypesInv, callVars
  <2>6. \A m \in DOMAIN content'[Current'] : m \in Nat \ {0}
    BY <2>3
  <2>7. LoadInv'
    <3>1. next' \notin DOMAIN content'[Current']
      BY <1>10, <2>6
    <3>2. \A m \in DOMAIN content'[Current'] : \A t, k : ~Passed(t, m, k)'
      BY <1>10, <2>6 DEF Passed
    <3> QED
      BY <1>1, <1>4, <3>1, <3>2 DEF LoadInv
  <2> QED
    BY <1>5, <1>6, <1>7, <1>8, <2>5, <2>7 DEF StInv
<1> QED
  BY <1>9, <1>10 DEF StoreIsMade

\* What a constructor that failed has made is destroyed.
LEMMA UnwindInv == StInv /\ Unwind => StInv'
<1> SUFFICES ASSUME StInv, Unwind PROVE StInv'
  OBVIOUS
<1>1. status = "failing" /\ UNCHANGED <<path, content, store, next, entry, gateway, callVars>>
  BY DEF Unwind, manifestVars, loadVars
<1>2. DefaultsInv' /\ FilteredInv' /\ GivenIsAll' /\ call' = "none" /\ answer' = "none" /\ call = "none"
  <2>1. status # "up" /\ TypesInv
    BY <1>1 DEF StInv
  <2> QED
    BY <2>1, <1>1, CallsIdle DEF callVars
<1>3. HeapOK(heap, MapsOf(capMap, local))
  BY DEF StInv, HeapInv
<1>4. DOMAIN capMap = Names /\ \A s \in Names : IsFiniteSet(DOMAIN capMap[s])
  BY DEF StInv, TypesInv
<1>5. ASSUME status' \in {"failing", "failed"} PROVE LoadInv'
  BY <1>5 DEF LoadInv
<1>6. ASSUME status' \in {"failing", "failed"}, DOMAIN capMap' = Names,
             \A s \in Names : IsFiniteSet(DOMAIN capMap'[s])
      PROVE  TypesInv'
  BY <1>1, <1>2, <1>6 DEF StInv, TypesInv, callVars, Current
<1>7. CASE /\ local # Empty /\ heap' = Destroyed(heap, local["gwConf"]) /\ local' = Empty
           /\ UNCHANGED <<status, capMap>>
  <2> DEFINE v   == "gwConf"
             map == local[v]
             e   == heap'
             k   == local'
  <2>1. DOMAIN local = {v}
    BY <1>1, <1>2, <1>7 DEF StInv, LocalInv
  <2>2. DOMAIN k = {}
    BY <1>7 DEF Empty
  <2>3. e = Destroyed(heap, map)
    BY <1>7
  <2> HIDE DEF v, e, k, map
  <2>4. map = local[v] /\ v \in DOMAIN local /\ DOMAIN k = DOMAIN local \ {v}
    BY <2>1, <2>2 DEF map
  <2>5. Kept(heap, e, capMap, k)
    BY <1>3, <2>2, <2>3, <2>4, LocalDestroyed
  <2>6. HeapInv' /\ HeapKept(heap, heap', capMap')
    BY <1>7, <2>5 DEF Kept, HeapInv, e, k
  <2>7. EntryInv'
    BY <1>1, <1>7, <2>6, EntriesStay DEF StInv
  <2>8. LocalInv'
    BY <1>2, <1>7 DEF LocalInv
  <2> QED
    BY <1>1, <1>2, <1>4, <1>5, <1>6, <1>7, <2>6, <2>7, <2>8 DEF StInv
<1>8. ASSUME NEW s \in Names, NEW c \in DOMAIN capMap[s], local = Empty,
             heap' = Destroyed(heap, capMap[s][c]),
             capMap' = [capMap EXCEPT ![s] = [b \in DOMAIN capMap[s] \ {c} |-> capMap[s][b]]],
             UNCHANGED <<status, local>>
      PROVE  StInv'
  <2> DEFINE d == capMap'
             e == heap'
  <2>1. /\ DOMAIN d = Names
        /\ DOMAIN d[s] = DOMAIN capMap[s] \ {c} /\ \A b \in DOMAIN d[s] : d[s][b] = capMap[s][b]
        /\ \A t \in Names \ {s} : d[t] = capMap[t]
    BY <1>4, <1>8
  <2>2. e = Destroyed(heap, capMap[s][c])
    BY <1>8
  <2> HIDE DEF d, e
  <2>3. Kept(heap, e, d, local)
    BY <1>3, <2>1, <2>2, CapabilityDestroyed
  <2>4. HeapInv' /\ HeapKept(heap, heap', capMap')
    BY <1>8, <2>3 DEF Kept, HeapInv, e, d
  <2>5. \A t \in Names : \A b \in DOMAIN d[t] : b \in DOMAIN capMap[t] /\ d[t][b] = capMap[t][b]
    BY <2>1
  <2>6. EntryInv'
    BY <1>1, <2>4, <2>5, EntriesStay DEF StInv, d
  <2>7. \A t \in Names : IsFiniteSet(DOMAIN d[t])
    <3>1. IsFiniteSet(DOMAIN capMap[s] \ {c})
      BY <1>4, FS_RemoveElement
    <3> QED
      BY <1>4, <2>1, <3>1
  <2>8. LocalInv'
    BY <1>2, <1>8 DEF LocalInv
  <2> QED
    BY <1>1, <1>2, <1>5, <1>6, <1>8, <2>1, <2>4, <2>6, <2>7, <2>8 DEF StInv, d
<1>9. CASE /\ local = Empty /\ \A s \in Names : DOMAIN capMap[s] = {}
           /\ status' = "failed" /\ UNCHANGED <<heap, capMap, local>>
  <2>1. HeapInv'
    BY <1>9 DEF StInv, HeapInv
  <2>2. EntryInv'
    BY <1>9 DEF EntryInv
  <2>3. LocalInv'
    BY <1>2, <1>9 DEF LocalInv
  <2> QED
    BY <1>2, <1>4, <1>5, <1>6, <1>9, <2>1, <2>2, <2>3 DEF StInv
<1> QED
  BY <1>7, <1>8, <1>9 DEF Unwind

----------------------------------------------------------------------------
(***************************************************************************)
(* The steps of the calls keep the invariant.                              *)
(***************************************************************************)

\* What a capability means does not change.
StoreKept == UNCHANGED capMap /\ HeapKept(heap, heap', capMap)

\* What a step of a call leaves alone.
LEMMA CallStep ==
    ASSUME StInv, status = "up", UNCHANGED <<manifestVars, status, loadVars, capMap>>,
           HeapKept(heap, heap', capMap), call' \in {"none", "setCapabilities", "execute"},
           answer' \in {"none", "ok", "notfound"}, call' # "none" => answer' = "none",
           requests' \in 0..MaxRequests
    PROVE  TypesInv' /\ EntryInv' /\ LoadInv' /\ ElementsStay
<1>1. TypesInv'
  BY DEF StInv, TypesInv, manifestVars, loadVars, Current
<1>2. EntryInv'
  <2>1. HeapKept(heap, heap', capMap')
    OBVIOUS
  <2> QED
    BY <2>1, EntriesStay DEF StInv, manifestVars
<1>3. LoadInv'
  BY DEF LoadInv
<1>4. ElementsStay
  BY ElementsLemma
<1> QED
  BY <1>1, <1>2, <1>3, <1>4

\* Two steps of the heap, one after the other.
LEMMA KeptTwice ==
    ASSUME NEW h, NEW k, NEW e, NEW cm, HeapKept(h, k, cm), HeapKept(k, e, cm)
    PROVE  HeapKept(h, e, cm)
BY DEF HeapKept

\* An array that is kept has the same elements.
LEMMA ArrayKept ==
    ASSUME NEW h, NEW k, NEW map, \A id \in DOMAIN map : k[map[id]] = h[map[id]]
    PROVE  \A id : ArrayOf(k, map, id) = ArrayOf(h, map, id)
BY DEF ArrayOf

\* The counts of configsByID stay when its object and the stores do.
LEMMA FilteredStays ==
    ASSUME FilteredInv, ElementsStay, UNCHANGED <<call, request, pos>>,
           call = "setCapabilities" =>
              /\ local'["filteredConfigs"] = local["filteredConfigs"]
              /\ \A id : ArrayOf(heap', local["filteredConfigs"], id) =
                            ArrayOf(heap, local["filteredConfigs"], id)
    PROVE  FilteredInv'
<1> SUFFICES ASSUME call = "setCapabilities" PROVE FilteredInv'
  BY DEF FilteredInv
<1> DEFINE f == local["filteredConfigs"]
<1>1. /\ request \in Seq(STRING) /\ pos \in 1..(Len(request) + 1)
      /\ DOMAIN f = UNION {IdsOf("filtered", request[k]) : k \in 1..(pos - 1)}
      /\ \A id, x : Occurrences(ArrayOf(heap, f, id), x) =
                        Cardinality({k \in 1..(pos - 1) : HasElement("filtered", request[k], id, x)})
  BY DEF FilteredInv
<1>2. /\ \A c : IdsOf("filtered", c)' = IdsOf("filtered", c)
      /\ \A c, id, x : HasElement("filtered", c, id, x)' <=> HasElement("filtered", c, id, x)
  <2>1. "filtered" \in Names
    BY DEF Names
  <2> QED
    BY <2>1 DEF ElementsStay
<1>3. /\ \A k : IdsOf("filtered", request[k])' = IdsOf("filtered", request[k])
      /\ \A k, id, x : HasElement("filtered", request[k], id, x)' <=> HasElement("filtered", request[k], id, x)
  BY <1>2
<1>4. DOMAIN local'["filteredConfigs"]
        = UNION {IdsOf("filtered", request[k])' : k \in 1..(pos' - 1)}
  BY <1>1, <1>3
<1>5. ASSUME NEW id, NEW x
      PROVE  Occurrences(ArrayOf(heap', local'["filteredConfigs"], id), x) =
                Cardinality({k \in 1..(pos' - 1) : HasElement("filtered", request[k], id, x)'})
  <2>1. {k \in 1..(pos' - 1) : HasElement("filtered", request[k], id, x)'} =
        {k \in 1..(pos - 1) : HasElement("filtered", request[k], id, x)}
    BY <1>3
  <2>2. ArrayOf(heap', local'["filteredConfigs"], id) = ArrayOf(heap, f, id)
    OBVIOUS
  <2> QED
    BY <1>1, <2>1, <2>2
<1> QED
  BY <1>1, <1>4, <1>5 DEF FilteredInv

\* The same for configs.
LEMMA DefaultsStay ==
    ASSUME DefaultsInv, ElementsStay, UNCHANGED <<call, capMap, todo>>, call # "none",
           local'["gatewayConfigs"] = local["gatewayConfigs"],
           \A id : ArrayOf(heap', local["gatewayConfigs"], id) =
                      ArrayOf(heap, local["gatewayConfigs"], id)
    PROVE  DefaultsInv'
<1> DEFINE f == local["gatewayConfigs"]
<1>1. /\ todo \subseteq DOMAIN capMap["default"]
      /\ DOMAIN f = UNION {IdsOf("default", c) : c \in DefaultsDone}
      /\ \A id, x : Occurrences(ArrayOf(heap, f, id), x) =
                        Cardinality({c \in DefaultsDone : HasElement("default", c, id, x)})
  BY DEF DefaultsInv
<1>2. /\ \A c : IdsOf("default", c)' = IdsOf("default", c)
      /\ \A c, id, x : HasElement("default", c, id, x)' <=> HasElement("default", c, id, x)
  <2>1. "default" \in Names
    BY DEF Names
  <2> QED
    BY <2>1 DEF ElementsStay
<1>3. DefaultsDone' = DefaultsDone
  BY DEF DefaultsDone
<1>4. DOMAIN local'["gatewayConfigs"] = UNION {IdsOf("default", c)' : c \in DefaultsDone'}
  BY <1>1, <1>2, <1>3
<1>5. ASSUME NEW id, NEW x
      PROVE  Occurrences(ArrayOf(heap', local'["gatewayConfigs"], id), x) =
                Cardinality({c \in DefaultsDone' : HasElement("default", c, id, x)'})
  <2>1. {c \in DefaultsDone' : HasElement("default", c, id, x)'} =
        {c \in DefaultsDone : HasElement("default", c, id, x)}
    BY <1>2, <1>3
  <2>2. ArrayOf(heap', local'["gatewayConfigs"], id) = ArrayOf(heap, f, id)
    OBVIOUS
  <2> QED
    BY <1>1, <2>1, <2>2
<1> QED
  BY <1>1, <1>4, <1>5 DEF DefaultsInv

\* The arrays of an object to which those of another were appended.
LEMMA ExtendedArrays ==
    ASSUME NEW h, NEW cm, NEW l, HeapOK(h, MapsOf(cm, l)), NEW v \in DOMAIN l, NEW map,
           NEW more, more = Value([heap |-> h, map |-> map]), NEW g, NEW k,
           Extended(h, cm, l, v, more, g, k)
    PROVE  \A id : ArrayOf(g.heap, g.map, id) = ArrayOf(h, l[v], id) \o ArrayOf(h, map, id)
<1> TAKE id
<1>1. DOMAIN more = DOMAIN map /\ \A i \in DOMAIN map : more[i] = h[map[i]].elems
  BY DEF Value
<1>2. (IF id \in DOMAIN more THEN more[id] ELSE <<>>) = ArrayOf(h, map, id)
  BY <1>1 DEF ArrayOf
<1>3. CASE id \in DOMAIN g.map
  BY <1>2, <1>3 DEF Extended
<1>4. CASE id \notin DOMAIN g.map
  <2>1. ArrayOf(g.heap, g.map, id) = <<>>
    BY <1>4 DEF ArrayOf
  <2>2. ArrayOf(h, l[v], id) = <<>> /\ ArrayOf(h, map, id) = <<>>
    BY <1>1, <1>4 DEF ArrayOf, Extended
  <2>3. <<>> \o <<>> = <<>>
    OBVIOUS
  <2> QED
    BY <2>1, <2>2, <2>3
<1> QED
  BY <1>3, <1>4

\* A new object has nothing.
LEMMA NothingYet ==
    ASSUME NEW h, NEW id, NEW x
    PROVE  Occurrences(ArrayOf(h, Empty, id), x) = 0
<1>1. ArrayOf(h, Empty, id) = <<>>
  BY DEF ArrayOf, Empty
<1> QED
  BY <1>1, OccurrencesEmpty

\* A call begins: nothing has been put together yet.
LEMMA BeginInv ==
    ASSUME StInv, status = "up", call = "none",
           UNCHANGED <<manifestVars, status, loadVars, heap, capMap>>,
           NEW vs, NEW name, Begin(name, vs), answer' = "none", requests' \in 0..MaxRequests,
           \/ name = "setCapabilities" /\ vs = {"gatewayConfigs", "filteredConfigs"}
           \/ name = "execute" /\ vs = {"gatewayConfigs"},
           name = "setCapabilities" => request' \in Seq(STRING)
    PROVE  StInv' /\ StoreKept
<1> USE DEF Begin
<1>1. HeapKept(heap, heap', capMap)
  BY SameHeap
<1>2. TypesInv' /\ EntryInv' /\ LoadInv' /\ ElementsStay
  BY <1>1, CallStep
<1>3. LocalInv'
  BY DEF LocalInv
<1>4. local = Empty /\ DOMAIN local = {} /\ DOMAIN Empty = {}
  BY DEF StInv, LocalInv, Empty
<1>5. HeapInv'
  <2> DEFINE d == "gatewayConfigs"
             f == "filteredConfigs"
             l == [v \in {d} |-> Empty]
             k == local'
  <2>1. DOMAIN l = {d} /\ l[d] = Empty
    OBVIOUS
  <2>2. DOMAIN k = vs /\ \A v \in vs : k[v] = Empty
    OBVIOUS
  <2>3. HeapOK(heap, MapsOf(capMap, local))
    BY DEF StInv, HeapInv
  <2>4. d # f /\ (vs = {d, f} \/ vs = {d})
    OBVIOUS
  <2> HIDE DEF l, k, d, f
  <2>5. HeapOK(heap, MapsOf(capMap, l))
    <3>1. d \in DOMAIN l /\ DOMAIN local = DOMAIN l \ {d} /\ \A w \in DOMAIN local : l[w] = local[w]
      BY <2>1, <1>4
    <3> QED
      BY <2>1, <2>3, <3>1, LocalMade
  <2>6. HeapOK(heap, MapsOf(capMap, k))
    <3>1. CASE vs = {d}
      <4>1. d \in DOMAIN k /\ DOMAIN local = DOMAIN k \ {d} /\ \A w \in DOMAIN local : k[w] = local[w]
        BY <2>2, <3>1, <1>4
      <4>2. k[d] = Empty
        BY <2>2, <3>1
      <4> QED
        BY <2>3, <4>1, <4>2, LocalMade
    <3>2. CASE vs = {d, f}
      <4>1. f \in DOMAIN k /\ DOMAIN l = DOMAIN k \ {f} /\ \A w \in DOMAIN l : k[w] = l[w]
        BY <2>1, <2>2, <2>4, <3>2
      <4>2. k[f] = Empty
        BY <2>2, <3>2
      <4> QED
        BY <2>5, <4>1, <4>2, LocalMade
    <3> QED
      BY <2>4, <3>1, <3>2
  <2> QED
    BY <2>6 DEF HeapInv, k
<1>6. local'["gatewayConfigs"] = Empty /\ (call' = "setCapabilities" => local'["filteredConfigs"] = Empty)
  OBVIOUS
<1>7. DefaultsInv'
  <2>1. DefaultsDone' = {}
    BY DEF DefaultsDone
  <2>2. todo' \subseteq DOMAIN capMap'["default"]
    OBVIOUS
  <2>3. DOMAIN local'["gatewayConfigs"] = UNION {IdsOf("default", c)' : c \in DefaultsDone'}
    BY <2>1, <1>4, <1>6
  <2>4. ASSUME NEW id, NEW x
        PROVE  Occurrences(ArrayOf(heap', local'["gatewayConfigs"], id), x) =
                  Cardinality({c \in DefaultsDone' : HasElement("default", c, id, x)'})
    <3>1. {c \in DefaultsDone' : HasElement("default", c, id, x)'} = {}
      BY <2>1
    <3>2. Occurrences(ArrayOf(heap, Empty, id), x) = 0
      BY NothingYet
    <3> QED
      BY <3>1, <3>2, <1>6, FS_EmptySet
  <2> QED
    BY <2>2, <2>3, <2>4 DEF DefaultsInv
<1>8. FilteredInv'
  <2> SUFFICES ASSUME call' = "setCapabilities" PROVE FilteredInv'
    BY DEF FilteredInv
  <2>1. pos' = 1 /\ 1..(pos' - 1) = {}
    OBVIOUS
  <2>2. request' \in Seq(STRING) /\ pos' \in 1..(Len(request') + 1)
    <3>1. request' \in Seq(STRING)
      OBVIOUS
    <3>2. Len(request') \in Nat
      BY <3>1
    <3> QED
      BY <2>1, <3>1, <3>2
  <2>3. DOMAIN local'["filteredConfigs"] = UNION {IdsOf("filtered", request[k])' : k \in 1..(pos' - 1)}
    BY <2>1, <1>4, <1>6
  <2>4. ASSUME NEW id, NEW x
        PROVE  Occurrences(ArrayOf(heap', local'["filteredConfigs"], id), x) =
                  Cardinality({k \in 1..(pos' - 1) : HasElement("filtered", request[k], id, x)'})
    <3>1. {k \in 1..(pos' - 1) : HasElement("filtered", request[k], id, x)'} = {}
      BY <2>1
    <3>2. Occurrences(ArrayOf(heap, Empty, id), x) = 0
      BY NothingYet
    <3> QED
      BY <3>1, <3>2, <1>6, FS_EmptySet
  <2> QED
    BY <2>2, <2>3, <2>4 DEF FilteredInv
<1>9. GivenIsAll'
  BY DEF GivenIsAll
<1> QED
  BY <1>1, <1>2, <1>3, <1>5, <1>7, <1>8, <1>9 DEF StInv, StoreKept

\* A request begins, or is answered at once.
LEMMA CallSetCapabilitiesInv ==
    ASSUME StInv, NEW ids \in Requests, CallSetCapabilities(ids) PROVE StInv' /\ StoreKept
<1> USE DEF CallSetCapabilities
<1>1. requests' \in 0..MaxRequests
  BY StoreAssumption DEF StInv, TypesInv
<1>2. ids \in Seq(STRING)
  BY StoreAssumption
<1>3. CASE ids # <<>>
  <2> DEFINE name == "setCapabilities"
             vs   == {"gatewayConfigs", "filteredConfigs"}
  <2>1. Begin(name, vs) /\ answer' = "none" /\ request' \in Seq(STRING)
    BY <1>2, <1>3
  <2>2. /\ name = "setCapabilities" /\ vs = {"gatewayConfigs", "filteredConfigs"}
    OBVIOUS
  <2> HIDE DEF name, vs
  <2> QED
    BY <1>1, <2>1, <2>2, BeginInv
<1>4. CASE ids = <<>>
  <2>1. UNCHANGED <<call, todo, pos, local>> /\ answer' = "ok" /\ request' = <<>>
    BY <1>4
  <2>2. HeapKept(heap, heap', capMap)
    BY SameHeap
  <2>3. TypesInv' /\ EntryInv' /\ LoadInv' /\ ElementsStay
    BY <1>1, <2>1, <2>2, CallStep
  <2>4. LocalInv' /\ HeapInv'
    BY <2>1 DEF StInv, LocalInv, HeapInv
  <2>5. DefaultsInv' /\ FilteredInv'
    BY <2>1 DEF DefaultsInv, FilteredInv
  <2>6. GivenIsAll'
    BY <2>1 DEF GivenIsAll
  <2> QED
    BY <2>2, <2>3, <2>4, <2>5, <2>6 DEF StInv, StoreKept
<1> QED
  BY <1>3, <1>4

\* The default capabilities are asked for.
LEMMA ExecuteUnconfiguredInv == StInv /\ ExecuteUnconfigured => StInv' /\ StoreKept
<1> SUFFICES ASSUME StInv, ExecuteUnconfigured PROVE StInv' /\ StoreKept
  OBVIOUS
<1> USE DEF ExecuteUnconfigured
<1>1. requests' \in 0..MaxRequests
  BY StoreAssumption DEF StInv, TypesInv
<1> DEFINE name == "execute"
           vs   == {"gatewayConfigs"}
<1>2. Begin(name, vs) /\ answer' = "none"
  OBVIOUS
<1>3. name = "execute" /\ vs = {"gatewayConfigs"} /\ name # "setCapabilities"
  OBVIOUS
<1> HIDE DEF name, vs
<1> QED
  BY <1>1, <1>2, <1>3, BeginInv

\* One default capability more.
LEMMA ConfigsInv == StInv /\ Configs => StInv' /\ StoreKept
<1> SUFFICES ASSUME StInv, Configs PROVE StInv' /\ StoreKept
  OBVIOUS
<1> DEFINE d == "gatewayConfigs"
           s == "default"
           c == CHOOSE b \in todo : TRUE
           map == capMap[s][c]
           g == AppendConf(Local(d), map)
           more == Value([heap |-> heap, map |-> map])
           k == local'
<1>1. /\ call # "none" /\ todo # {} /\ c \in todo
      /\ heap' = g.heap /\ k = [local EXCEPT ![d] = g.map] /\ todo' = todo \ {c}
      /\ UNCHANGED <<manifestVars, status, loadVars, capMap, call, pos, request, answer, given, requests>>
  BY DEF Configs
<1>2. g = AppendConf([heap |-> heap, map |-> local[d]], map)
  BY DEF Local
<1>3. status = "up" /\ call \in {"setCapabilities", "execute"} /\ d \in DOMAIN local /\ answer = "none"
  BY <1>1 DEF StInv, TypesInv, LocalInv
<1>4. /\ s \in Names /\ c \in DOMAIN capMap[s]
      /\ DOMAIN local[d] = UNION {IdsOf(s, b) : b \in DefaultsDone}
      /\ \A id, x : Occurrences(ArrayOf(heap, local[d], id), x) =
                        Cardinality({b \in DefaultsDone : HasElement(s, b, id, x)})
  BY <1>1 DEF StInv, DefaultsInv, Names
<1>5. HeapOK(heap, MapsOf(capMap, local))
  BY DEF StInv, HeapInv
<1>6. /\ DOMAIN k = DOMAIN local /\ k[d] = g.map
      /\ \A w \in DOMAIN local \ {d} : k[w] = local[w]
  <2> HIDE DEF g, k, d
  <2> QED
    BY <1>1, <1>3
<1> HIDE DEF c, g, k, d, s
<1>7. Extended(heap, capMap, local, d, more, g, k)
  BY <1>2, <1>3, <1>4, <1>5, <1>6, ExtendedByCapability
<1>8. \A id : ArrayOf(g.heap, g.map, id) = ArrayOf(heap, local[d], id) \o ArrayOf(heap, map, id)
  <2>1. more = Value([heap |-> heap, map |-> map])
    OBVIOUS
  <2> HIDE DEF more, map
  <2> QED
    BY <2>1, <1>3, <1>5, <1>7, ExtendedArrays
<1>9. HeapKept(heap, heap', capMap)
  BY <1>1, <1>7 DEF Extended
<1>10. TypesInv' /\ EntryInv' /\ LoadInv' /\ ElementsStay
  <2>1. requests' \in 0..MaxRequests
    BY <1>1 DEF StInv, TypesInv
  <2> QED
    BY <1>1, <1>3, <1>9, <2>1, CallStep
<1>11. LocalInv'
  BY <1>1, <1>3, <1>6 DEF StInv, LocalInv, k
<1>12. HeapInv'
  BY <1>1, <1>7 DEF Extended, HeapInv, k
<1>13. c \notin DefaultsDone /\ DefaultsDone' = DefaultsDone \cup {c}
       /\ IsFiniteSet(DefaultsDone) /\ todo' \subseteq DOMAIN capMap'[s]
  <2>1. todo \subseteq DOMAIN capMap[s] /\ IsFiniteSet(DOMAIN capMap[s])
    BY <1>1, <1>4 DEF StInv, DefaultsInv, TypesInv, s
  <2>2. IsFiniteSet(DefaultsDone)
    BY <2>1, FS_Difference DEF DefaultsDone, s
  <2> QED
    BY <2>1, <2>2, <1>1, <1>4 DEF DefaultsDone, s
<1>14. DefaultsInv'
  <2>1. /\ \A b : IdsOf(s, b)' = IdsOf(s, b)
        /\ \A b, id, x : HasElement(s, b, id, x)' <=> HasElement(s, b, id, x)
    BY <1>4, <1>10 DEF ElementsStay, s
  <2>2. DOMAIN k[d] = UNION {IdsOf(s, b)' : b \in DefaultsDone'}
    <3>1. DOMAIN g.map = DOMAIN local[d] \cup DOMAIN map
      BY <1>7 DEF Extended, Value
    <3>2. DOMAIN map = IdsOf(s, c)
      BY <1>4 DEF IdsOf
    <3> QED
      BY <1>4, <1>6, <1>13, <2>1, <3>1, <3>2
  <2>3. ASSUME NEW id, NEW x
        PROVE  Occurrences(ArrayOf(heap', k[d], id), x) =
                   Cardinality({b \in DefaultsDone' : HasElement(s, b, id, x)'})
    <3> DEFINE A == {b \in DefaultsDone : HasElement(s, b, id, x)}
               B == {b \in DefaultsDone' : HasElement(s, b, id, x)'}
               prior == ArrayOf(heap, local[d], id)
               add == ArrayOf(heap, map, id)
               yes == HasElement(s, c, id, x)
    <3>1. IsFiniteSet(A)
      BY <1>13, FS_Subset
    <3>2. B = (IF yes THEN A \cup {c} ELSE A) /\ c \notin A
      BY <1>13, <2>1
    <3>3. prior \in Seq(Origin)
      BY <1>3, <1>5, StackArrays
    <3>4. add \in Seq(Origin)
      BY <1>4, StoredArrays DEF StInv
    <3>5. Occurrences(add, x) = IF yes THEN 1 ELSE 0
      BY <1>4, StoredOnce DEF StInv
    <3>6. ArrayOf(heap', k[d], id) = prior \o add
      BY <1>1, <1>6, <1>8
    <3>7. Occurrences(prior, x) = Cardinality(A)
      BY <1>4
    <3>8. yes \in BOOLEAN
      BY DEF HasElement
    <3> HIDE DEF A, B, prior, add, yes
    <3>9. Occurrences(prior \o add, x) = Occurrences(prior, x) + Occurrences(add, x)
      BY <3>3, <3>4, OccurrencesConcat
    <3>10. Cardinality(B) = Cardinality(A) + (IF yes THEN 1 ELSE 0)
      BY <3>1, <3>2, <3>8, CountOne
    <3> QED
      BY <3>5, <3>6, <3>7, <3>9, <3>10 DEF B
  <2> QED
    BY <1>13, <2>2, <2>3 DEF DefaultsInv, d, s, k
<1>15. FilteredInv'
  <2> SUFFICES ASSUME call = "setCapabilities" PROVE FilteredInv'
    BY <1>1 DEF FilteredInv
  <2> DEFINE f == "filteredConfigs"
  <2>1. f \in DOMAIN local \ {d}
    BY DEF StInv, LocalInv, d
  <2>2. k[f] = local[f]
    BY <2>1, <1>6
  <2>3. \A id \in DOMAIN local[f] : heap'[local[f][id]] = heap[local[f][id]]
    BY <2>1, <1>1, <1>7 DEF Extended, StackKept
  <2>4. \A id : ArrayOf(heap', local[f], id) = ArrayOf(heap, local[f], id)
    BY <2>3, ArrayKept
  <2> QED
    BY <1>1, <1>10, <2>2, <2>4, FilteredStays DEF StInv, k
<1>16. GivenIsAll'
  BY <1>1, <1>3 DEF GivenIsAll
<1> QED
  BY <1>1, <1>9, <1>10, <1>11, <1>12, <1>14, <1>15, <1>16 DEF StInv, StoreKept

\* The object u of the stack k is a copy of the capability c, or empty if there is none.
CopyMade(h, l, k, u, g, s, c) ==
    /\ HeapOK(g.heap, MapsOf(capMap, k)) /\ HeapKept(h, g.heap, capMap)
    /\ StackKept(h, g.heap, l, DOMAIN l)
    /\ DOMAIN g.map = IdsOf(s, c)
    /\ \A id : ArrayOf(g.heap, g.map, id) =
                  IF c \in DOMAIN capMap[s] THEN ArrayOf(h, capMap[s][c], id) ELSE <<>>

\* configByID returns a copy, which is nobody else's.
LEMMA CopyLemma ==
    ASSUME HeapInv, NEW c, NEW u, u \notin DOMAIN local, NEW g, g = ConfigByID(heap, c),
           NEW k, DOMAIN k = DOMAIN local \cup {u}, k[u] = g.map,
           \A w \in DOMAIN local : k[w] = local[w]
    PROVE  CopyMade(heap, local, k, u, g, "filtered", c)
<1> DEFINE s == "filtered"
           l == [w \in DOMAIN local \cup {u} |-> IF w = u THEN Empty ELSE local[w]]
<1>1. s \in Names
  BY DEF Names
<1>2. /\ DOMAIN l = DOMAIN local \cup {u} /\ l[u] = Empty
      /\ \A w \in DOMAIN local : l[w] = local[w]
  OBVIOUS
<1>3. HeapOK(heap, MapsOf(capMap, local))
  BY DEF HeapInv
<1> HIDE DEF l
<1>4. HeapOK(heap, MapsOf(capMap, l))
  <2>1. u \in DOMAIN l /\ DOMAIN local = DOMAIN l \ {u}
    BY <1>2
  <2> QED
    BY <1>2, <1>3, <2>1, LocalMade
<1>5. CASE c \in DOMAIN capMap[s]
  <2> DEFINE map  == capMap[s][c]
             more == Value([heap |-> heap, map |-> map])
  <2>1. g = AppendConf([heap |-> heap, map |-> l[u]], map)
    BY <1>2, <1>5 DEF ConfigByID, CopyOf, NewConf
  <2>2. u \in DOMAIN l /\ DOMAIN k = DOMAIN l /\ \A w \in DOMAIN l \ {u} : k[w] = l[w]
    BY <1>2
  <2>3. Extended(heap, capMap, l, u, more, g, k)
    <3>1. more = Value([heap |-> heap, map |-> capMap[s][c]])
          /\ g = AppendConf([heap |-> heap, map |-> l[u]], capMap[s][c])
      BY <2>1
    <3> HIDE DEF s, more
    <3> QED
      BY <1>1, <1>4, <1>5, <2>2, <3>1, ExtendedByCapability
  <2>4. \A id : ArrayOf(g.heap, g.map, id) = ArrayOf(heap, l[u], id) \o ArrayOf(heap, map, id)
    <3>1. more = Value([heap |-> heap, map |-> map])
      OBVIOUS
    <3> HIDE DEF more, map
    <3> QED
      BY <3>1, <1>4, <2>2, <2>3, ExtendedArrays
  <2>5. \A id : ArrayOf(g.heap, g.map, id) = ArrayOf(heap, map, id)
    <3> TAKE id
    <3>1. ArrayOf(heap, l[u], id) = <<>>
      BY <1>2 DEF ArrayOf, Empty
    <3>2. ArrayOf(heap, map, id) \in Seq(Origin)
      BY <1>1, <1>5, StoredArrays
    <3>3. <<>> \o ArrayOf(heap, map, id) = ArrayOf(heap, map, id)
      BY <3>2
    <3> QED
      BY <2>4, <3>1, <3>3
  <2>6. DOMAIN g.map = DOMAIN map
    <3>1. DOMAIN l[u] = {}
      BY <1>2 DEF Empty
    <3>2. DOMAIN more = DOMAIN map
      BY DEF Value
    <3> HIDE DEF more
    <3> QED
      BY <3>1, <3>2, <2>3 DEF Extended
  <2>7. StackKept(heap, g.heap, local, DOMAIN local)
    <3>1. StackKept(heap, g.heap, l, DOMAIN l \ {u})
      BY <2>3 DEF Extended
    <3> QED
      BY <3>1, <1>2 DEF StackKept
  <2>8. HeapOK(g.heap, MapsOf(capMap, k)) /\ HeapKept(heap, g.heap, capMap)
    BY <2>3 DEF Extended
  <2> QED
    BY <1>5, <2>5, <2>6, <2>7, <2>8 DEF CopyMade, IdsOf
<1>6. CASE c \notin DOMAIN capMap[s]
  <2>1. g.heap = heap /\ g.map = Empty
    BY <1>6 DEF ConfigByID, NewConf
  <2>2. HeapOK(heap, MapsOf(capMap, k))
    <3>1. u \in DOMAIN k /\ DOMAIN local = DOMAIN k \ {u} /\ k[u] = Empty
      BY <2>1
    <3> QED
      BY <1>3, <3>1, LocalMade
  <2>3. StackKept(heap, heap, local, DOMAIN local) /\ HeapKept(heap, heap, capMap)
    BY DEF StackKept, HeapKept
  <2>4. DOMAIN g.map = {} /\ \A id : ArrayOf(g.heap, g.map, id) = <<>>
    BY <2>1 DEF Empty, ArrayOf
  <2> QED
    BY <1>6, <2>1, <2>2, <2>3, <2>4 DEF CopyMade, IdsOf
<1> QED
  BY <1>5, <1>6

\* One capability more of those that were asked for.
LEMMA ConfigsByIDInv == StInv /\ ConfigsByID => StInv' /\ StoreKept
<1> SUFFICES ASSUME StInv, ConfigsByID PROVE StInv' /\ StoreKept
  OBVIOUS
<1> DEFINE d   == "gatewayConfigs"
           f   == "filteredConfigs"
           u   == "config"
           s   == "filtered"
           c   == request[pos]
           one == ConfigByID(heap, c)
           sum == AppendConf([heap |-> one.heap, map |-> local[f]], one.map)
           k   == local'
           l   == [w \in {d, f, u} |-> IF w = u THEN one.map ELSE local[w]]
           m   == [w \in {d, f, u} |-> IF w = u THEN one.map ELSE k[w]]
           more == Value([heap |-> one.heap, map |-> one.map])
<1>1. /\ call = "setCapabilities" /\ todo = {} /\ pos \in DOMAIN request
      /\ heap' = Destroyed(sum.heap, one.map) /\ k = [local EXCEPT ![f] = sum.map]
      /\ pos' = pos + 1
      /\ UNCHANGED <<manifestVars, status, loadVars, capMap, call, todo, request, answer, given, requests>>
  BY DEF ConfigsByID
<1>2. status = "up" /\ DOMAIN local = {d, f} /\ answer = "none"
  BY <1>1 DEF StInv, TypesInv, LocalInv
<1>3. /\ request \in Seq(STRING) /\ pos \in 1..(Len(request) + 1)
      /\ DOMAIN local[f] = UNION {IdsOf(s, request[i]) : i \in 1..(pos - 1)}
      /\ \A id, x : Occurrences(ArrayOf(heap, local[f], id), x) =
                        Cardinality({i \in 1..(pos - 1) : HasElement(s, request[i], id, x)})
  BY <1>1 DEF StInv, FilteredInv
<1>4. d # f /\ d # u /\ f # u /\ s \in Names
  BY DEF Names
<1> HIDE DEF d, f, u, one, sum, k, c
<1>5. DOMAIN k = {d, f} /\ k[f] = sum.map /\ k[d] = local[d]
  BY <1>1, <1>2, <1>4
<1>6. /\ DOMAIN l = {d, f, u} /\ l[u] = one.map /\ l[d] = local[d] /\ l[f] = local[f]
      /\ DOMAIN m = {d, f, u} /\ m[u] = one.map /\ m[d] = local[d] /\ m[f] = sum.map
  BY <1>4, <1>5
<1> HIDE DEF l, m
<1>7. CopyMade(heap, local, l, u, one, s, c)
  <2>1. u \notin DOMAIN local /\ DOMAIN l = DOMAIN local \cup {u}
        /\ \A w \in DOMAIN local : l[w] = local[w]
    BY <1>2, <1>4, <1>6
  <2> QED
    BY <2>1, <1>6, CopyLemma DEF StInv, one
<1>8. HeapOK(one.heap, MapsOf(capMap, l))
  BY <1>7 DEF CopyMade
<1>9. Extended(one.heap, capMap, l, f, more, sum, m)
  <2> DEFINE h == one.heap
  <2>1. more = Value([heap |-> h, map |-> l[u]]) /\ sum = AppendConf([heap |-> h, map |-> l[f]], l[u])
    BY <1>6 DEF sum
  <2>2. /\ f \in DOMAIN l /\ u \in DOMAIN l /\ DOMAIN m = DOMAIN l /\ m[f] = sum.map
        /\ \A w \in DOMAIN l \ {f} : m[w] = l[w]
    BY <1>4, <1>6
  <2>3. HeapOK(h, MapsOf(capMap, l))
    BY <1>8
  <2> HIDE DEF h, more
  <2>4. Extended(h, capMap, l, f, more, sum, m)
    BY <2>1, <2>2, <2>3, ExtendedByLocal
  <2> QED
    BY <2>4 DEF h
<1>10. Kept(sum.heap, heap', capMap, k)
  <2> DEFINE h == sum.heap
             map == one.map
             e == heap'
  <2>1. HeapOK(h, MapsOf(capMap, m)) /\ e = Destroyed(h, map) /\ map = m[u]
    BY <1>1, <1>6, <1>9 DEF Extended
  <2>2. u \in DOMAIN m /\ DOMAIN k = DOMAIN m \ {u} /\ \A w \in DOMAIN k : k[w] = m[w]
    BY <1>4, <1>5, <1>6
  <2> HIDE DEF h, map, e
  <2>3. Kept(h, e, capMap, k)
    BY <2>1, <2>2, LocalDestroyed
  <2> QED
    BY <2>3 DEF h, e
<1>11. HeapKept(heap, heap', capMap)
  <2>1. HeapKept(heap, one.heap, capMap) /\ HeapKept(one.heap, sum.heap, capMap)
        /\ HeapKept(sum.heap, heap', capMap)
    BY <1>7, <1>9, <1>10 DEF CopyMade, Extended, Kept
  <2> QED
    BY <2>1, KeptTwice
<1>12. TypesInv' /\ EntryInv' /\ LoadInv' /\ ElementsStay
  <2>1. requests' \in 0..MaxRequests
    BY <1>1 DEF StInv, TypesInv
  <2> QED
    BY <1>1, <1>2, <1>11, <2>1, CallStep
<1>13. LocalInv'
  BY <1>1, <1>5 DEF LocalInv, k, d, f
<1>14. HeapInv'
  BY <1>1, <1>10 DEF Kept, HeapInv, k
<1>15. DefaultsInv'
  <2>1. \A id \in DOMAIN local[d] : heap'[local[d][id]] = heap[local[d][id]]
    <3> TAKE id \in DOMAIN local[d]
    <3>1. one.heap[local[d][id]] = heap[local[d][id]]
      BY <1>2, <1>7 DEF CopyMade, StackKept
    <3>2. sum.heap[l[d][id]] = one.heap[l[d][id]]
      <4>1. StackKept(one.heap, sum.heap, l, DOMAIN l \ {f}) /\ d \in DOMAIN l \ {f}
        BY <1>4, <1>6, <1>9 DEF Extended
      <4>2. id \in DOMAIN l[d]
        BY <1>6
      <4> QED
        BY <4>1, <4>2 DEF StackKept
    <3>3. heap'[k[d][id]] = sum.heap[k[d][id]]
      <4>1. StackKept(sum.heap, heap', k, DOMAIN k) /\ d \in DOMAIN k /\ id \in DOMAIN k[d]
        BY <1>5, <1>10 DEF Kept
      <4> QED
        BY <4>1 DEF StackKept
    <3> QED
      BY <3>1, <3>2, <3>3, <1>5, <1>6
  <2>2. \A id : ArrayOf(heap', local[d], id) = ArrayOf(heap, local[d], id)
    BY <2>1, ArrayKept
  <2> QED
    BY <1>1, <1>5, <1>12, <2>2, DefaultsStay DEF StInv, k, d
<1>16. \A id : ArrayOf(heap', k[f], id) =
                 ArrayOf(heap, local[f], id) \o ArrayOf(one.heap, one.map, id)
  <2> TAKE id
  <2>1. \A i : ArrayOf(sum.heap, sum.map, i) =
                 ArrayOf(one.heap, l[f], i) \o ArrayOf(one.heap, one.map, i)
    <3> DEFINE h == one.heap
               map == one.map
    <3>1. more = Value([heap |-> h, map |-> map]) /\ HeapOK(h, MapsOf(capMap, l)) /\ f \in DOMAIN l
          /\ Extended(h, capMap, l, f, more, sum, m)
      BY <1>6, <1>8, <1>9
    <3> HIDE DEF h, map, more
    <3>2. \A i : ArrayOf(sum.heap, sum.map, i) = ArrayOf(h, l[f], i) \o ArrayOf(h, map, i)
      BY <3>1, ExtendedArrays
    <3> QED
      BY <3>2 DEF h, map
  <2>2. ArrayOf(heap', k[f], id) = ArrayOf(sum.heap, k[f], id)
    <3>1. \A i \in DOMAIN k[f] : heap'[k[f][i]] = sum.heap[k[f][i]]
      BY <1>5, <1>10 DEF Kept, StackKept
    <3> QED
      BY <3>1 DEF ArrayOf
  <2>3. ArrayOf(one.heap, local[f], id) = ArrayOf(heap, local[f], id)
    <3>1. \A i \in DOMAIN local[f] : one.heap[local[f][i]] = heap[local[f][i]]
      BY <1>2, <1>7 DEF CopyMade, StackKept
    <3> QED
      BY <3>1 DEF ArrayOf
  <2> QED
    BY <2>1, <2>2, <2>3, <1>5, <1>6
<1>17. FilteredInv'
  <2>1. /\ \A b : IdsOf(s, b)' = IdsOf(s, b)
        /\ \A b, id, x : HasElement(s, b, id, x)' <=> HasElement(s, b, id, x)
    BY <1>4, <1>12 DEF ElementsStay
  <2>2. pos \in 1..Len(request) /\ Len(request) \in Nat /\ pos' - 1 = pos /\ request' = request
    BY <1>1, <1>3
  <2>3. request' \in Seq(STRING) /\ pos' \in 1..(Len(request') + 1)
    BY <1>1, <1>3, <2>2
  <2>4. DOMAIN k[f] = UNION {IdsOf(s, request[i])' : i \in 1..(pos' - 1)}
    <3>1. DOMAIN k[f] = DOMAIN local[f] \cup IdsOf(s, c)
      <4>1. DOMAIN sum.map = DOMAIN l[f] \cup DOMAIN one.map
        BY <1>9 DEF Extended, Value
      <4>2. DOMAIN one.map = IdsOf(s, c)
        BY <1>7 DEF CopyMade
      <4> QED
        BY <4>1, <4>2, <1>5, <1>6
    <3>2. 1..pos = 1..(pos - 1) \cup {pos}
      BY <2>2
    <3>3. \A i : IdsOf(s, request[i])' = IdsOf(s, request[i])
      BY <2>1, <2>2
    <3>4. \A id : id \in DOMAIN local[f] <=> \E i \in 1..(pos - 1) : id \in IdsOf(s, request[i])
      BY <1>3
    <3>5. \A id : id \in DOMAIN k[f] <=> \E i \in 1..pos : id \in IdsOf(s, request[i])
      BY <3>1, <3>2, <3>4 DEF c
    <3>6. DOMAIN k[f] = UNION {IdsOf(s, request[i]) : i \in 1..pos}
      BY <3>5
    <3> QED
      BY <3>3, <3>6, <2>2
  <2>5. ASSUME NEW id, NEW x
        PROVE  Occurrences(ArrayOf(heap', k[f], id), x) =
                   Cardinality({i \in 1..(pos' - 1) : HasElement(s, request[i], id, x)'})
    <3> DEFINE A == {i \in 1..(pos - 1) : HasElement(s, request[i], id, x)}
               B == {i \in 1..(pos' - 1) : HasElement(s, request[i], id, x)'}
               prior == ArrayOf(heap, local[f], id)
               add == ArrayOf(one.heap, one.map, id)
               yes == HasElement(s, c, id, x)
    <3>1. IsFiniteSet(A)
      <4>1. IsFiniteSet(1..(pos - 1))
        BY <2>2, FS_Interval
      <4> QED
        BY <4>1, FS_Subset
    <3>2. B = (IF yes THEN A \cup {pos} ELSE A) /\ pos \notin A
      <4>1. \A i : HasElement(s, request[i], id, x)' <=> HasElement(s, request[i], id, x)
        BY <2>1, <2>2
      <4>2. B = {i \in 1..pos : HasElement(s, request[i], id, x)}
        BY <4>1, <2>2
      <4>3. \A i : i \in 1..pos <=> i \in 1..(pos - 1) \/ i = pos
        BY <2>2
      <4>4. pos \notin 1..(pos - 1)
        BY <2>2
      <4> QED
        BY <4>2, <4>3, <4>4 DEF c
    <3>3. prior \in Seq(Origin)
      <4>1. HeapOK(heap, MapsOf(capMap, local)) /\ f \in DOMAIN local
        BY <1>2 DEF StInv, HeapInv
      <4> QED
        BY <4>1, StackArrays
    <3>4. add = IF c \in DOMAIN capMap[s] THEN ArrayOf(heap, capMap[s][c], id) ELSE <<>>
      BY <1>7 DEF CopyMade
    <3>5. add \in Seq(Origin) /\ Occurrences(add, x) = IF yes THEN 1 ELSE 0
      <4>1. CASE c \in DOMAIN capMap[s]
        <5>1. ArrayOf(heap, capMap[s][c], id) \in Seq(Origin)
          BY <4>1, <1>4, StoredArrays DEF StInv
        <5>2. Occurrences(ArrayOf(heap, capMap[s][c], id), x) = IF yes THEN 1 ELSE 0
          BY <4>1, <1>4, StoredOnce DEF StInv
        <5> QED
          BY <4>1, <5>1, <5>2, <3>4
      <4>2. CASE c \notin DOMAIN capMap[s]
        <5>1. ~yes
          BY <4>2 DEF HasElement, IdsOf
        <5>2. <<>> \in Seq(Origin)
          OBVIOUS
        <5> HIDE DEF yes
        <5> QED
          BY <4>2, <5>1, <5>2, <3>4, OccurrencesEmpty
      <4> QED
        BY <4>1, <4>2
    <3>6. ArrayOf(heap', k[f], id) = prior \o add
      BY <1>16
    <3>7. Occurrences(prior, x) = Cardinality(A)
      BY <1>3
    <3>8. yes \in BOOLEAN
      BY DEF HasElement
    <3> HIDE DEF A, B, prior, add, yes
    <3>9. Occurrences(prior \o add, x) = Occurrences(prior, x) + Occurrences(add, x)
      BY <3>3, <3>5, OccurrencesConcat
    <3>10. Cardinality(B) = Cardinality(A) + (IF yes THEN 1 ELSE 0)
      BY <3>1, <3>2, <3>8, CountOne
    <3> QED
      BY <3>5, <3>6, <3>7, <3>9, <3>10 DEF B
  <2> QED
    BY <2>3, <2>4, <2>5 DEF FilteredInv, f, k
<1>18. GivenIsAll'
  BY <1>1, <1>2 DEF GivenIsAll
<1> QED
  BY <1>1, <1>11, <1>12, <1>13, <1>14, <1>15, <1>17, <1>18 DEF StInv, StoreKept

\* What the end of a call leaves behind, apart from what it gave.
LEMMA CallEndInv ==
    ASSUME StInv, call # "none", NEW h, End(h), HeapOK(h, MapsOf(capMap, Empty)),
           HeapKept(heap, h, capMap), answer' \in {"none", "ok", "notfound"}, GivenIsAll'
    PROVE  StInv' /\ StoreKept
<1> USE DEF End
<1>1. status = "up"
  BY DEF StInv, TypesInv
<1>2. TypesInv' /\ EntryInv' /\ LoadInv' /\ ElementsStay
  <2>1. requests' \in 0..MaxRequests
    BY DEF StInv, TypesInv
  <2>2. HeapKept(heap, heap', capMap)
    OBVIOUS
  <2> QED
    BY <1>1, <2>1, <2>2, CallStep
<1>3. LocalInv'
  BY DEF LocalInv
<1>4. HeapInv'
  BY DEF HeapInv
<1>5. DefaultsInv' /\ FilteredInv'
  BY DEF DefaultsInv, FilteredInv
<1> QED
  BY <1>2, <1>3, <1>4, <1>5 DEF StInv, StoreKept

\* The two objects of a call are destroyed.
LEMMA BothDestroyed ==
    ASSUME NEW h, NEW cm, NEW l, HeapOK(h, MapsOf(cm, l)), NEW d, NEW f, d # f,
           DOMAIN l = {d, f}, NEW k, k = Destroyed(Destroyed(h, l[f]), l[d])
    PROVE  HeapOK(k, MapsOf(cm, Empty)) /\ HeapKept(h, k, cm)
<1> DEFINE m   == [w \in {d} |-> l[w]]
           map == l[f]
           e   == Destroyed(h, map)
           rest == l[d]
<1>1. /\ f \in DOMAIN l /\ DOMAIN m = DOMAIN l \ {f} /\ \A w \in DOMAIN m : m[w] = l[w]
      /\ DOMAIN m = {d} /\ m[d] = l[d]
  OBVIOUS
<1>2. map = l[f] /\ e = Destroyed(h, map) /\ rest = m[d] /\ k = Destroyed(e, rest)
  OBVIOUS
<1> HIDE DEF m, map, e, rest
<1>3. Kept(h, e, cm, m)
  BY <1>1, <1>2, LocalDestroyed
<1>4. HeapOK(e, MapsOf(cm, m)) /\ HeapKept(h, e, cm)
  BY <1>3 DEF Kept
<1>5. DOMAIN Empty = {}
  BY DEF Empty
<1>6. d \in DOMAIN m /\ DOMAIN Empty = DOMAIN m \ {d} /\ \A w \in DOMAIN Empty : Empty[w] = m[w]
  BY <1>1, <1>5
<1> DEFINE none == Empty
<1>7. DOMAIN none = DOMAIN m \ {d} /\ \A w \in DOMAIN none : none[w] = m[w]
  BY <1>6
<1> HIDE DEF none
<1>8. Kept(e, k, cm, none)
  BY <1>1, <1>2, <1>4, <1>7, LocalDestroyed
<1> QED
  BY <1>4, <1>8, KeptTwice DEF Kept, none

\* The end of setCapabilities.
LEMMA CapabilitiesSetInv == StInv /\ CapabilitiesSet => StInv' /\ StoreKept
<1> SUFFICES ASSUME StInv, CapabilitiesSet PROVE StInv' /\ StoreKept
  OBVIOUS
<1> DEFINE d   == "gatewayConfigs"
           f   == "filteredConfigs"
           all == AppendConf([heap |-> heap, map |-> local[d]], local[f])
           more == Value([heap |-> heap, map |-> local[f]])
           l   == [w \in {d, f} |-> IF w = d THEN all.map ELSE local[w]]
           h1  == Destroyed(Destroyed(heap, local[f]), local[d])
           h2  == Destroyed(Destroyed(all.heap, local[f]), all.map)
<1>1. /\ call = "setCapabilities" /\ todo = {} /\ pos = Len(request) + 1
      /\ \/ answer' = "notfound" /\ given' = Empty /\ End(h1)
         \/ answer' = "ok" /\ given' = Value(all) /\ End(h2)
  BY DEF CapabilitiesSet, Local
<1>2. DOMAIN local = {d, f} /\ d # f
  BY <1>1 DEF StInv, LocalInv
<1>3. HeapOK(heap, MapsOf(capMap, local))
  BY DEF StInv, HeapInv
<1> HIDE DEF all
<1>4. DOMAIN l = {d, f} /\ l[d] = all.map /\ l[f] = local[f]
  BY <1>2
<1> HIDE DEF l, d, f, h1, h2
<1>5. CASE answer' = "notfound" /\ given' = Empty /\ End(h1)
  <2>1. HeapOK(h1, MapsOf(capMap, Empty)) /\ HeapKept(heap, h1, capMap)
    BY <1>2, <1>3, BothDestroyed DEF h1
  <2>2. GivenIsAll'
    BY <1>5 DEF GivenIsAll
  <2> QED
    BY <1>1, <1>5, <2>1, <2>2, CallEndInv
<1>6. CASE answer' = "ok" /\ given' = Value(all) /\ End(h2)
  <2>1. more = Value([heap |-> heap, map |-> local[f]])
        /\ all = AppendConf([heap |-> heap, map |-> local[d]], local[f])
    BY DEF all
  <2> HIDE DEF more
  <2>2. Extended(heap, capMap, local, d, more, all, l)
    <3>1. d \in DOMAIN local /\ f \in DOMAIN local /\ DOMAIN l = DOMAIN local
          /\ \A w \in DOMAIN local \ {d} : l[w] = local[w]
      BY <1>2, <1>4
    <3> QED
      BY <1>3, <1>4, <2>1, <3>1, ExtendedByLocal
  <2>3. \A id : ArrayOf(all.heap, all.map, id) =
                  ArrayOf(heap, local[d], id) \o ArrayOf(heap, local[f], id)
    <3> DEFINE map == local[f]
    <3>1. more = Value([heap |-> heap, map |-> map]) /\ d \in DOMAIN local
      BY <1>2, <2>1
    <3> HIDE DEF map
    <3>2. \A id : ArrayOf(all.heap, all.map, id) = ArrayOf(heap, local[d], id) \o ArrayOf(heap, map, id)
      BY <1>3, <2>2, <3>1, ExtendedArrays
    <3> QED
      BY <3>2 DEF map
  <2>4. HeapOK(h2, MapsOf(capMap, Empty)) /\ HeapKept(heap, h2, capMap)
    <3> DEFINE h == all.heap
               k == h2
    <3>1. HeapOK(h, MapsOf(capMap, l)) /\ HeapKept(heap, h, capMap)
      BY <2>2 DEF Extended
    <3>2. k = Destroyed(Destroyed(h, l[f]), l[d])
      BY <1>4 DEF h2
    <3> HIDE DEF h, k
    <3>3. HeapOK(k, MapsOf(capMap, Empty)) /\ HeapKept(h, k, capMap)
      BY <1>2, <1>4, <3>1, <3>2, BothDestroyed
    <3> QED
      BY <3>1, <3>3, KeptTwice DEF k
  <2>5. ElementsStay /\ UNCHANGED <<request, capMap>>
    BY <1>6, <2>4, ElementsLemma DEF End
  <2>6. /\ request \in Seq(STRING) /\ 1..(pos - 1) = DOMAIN request
        /\ DefaultsDone = DOMAIN capMap["default"]
    <3>1. request \in Seq(STRING)
      BY <1>1 DEF StInv, FilteredInv
    <3>2. Len(request) \in Nat /\ DOMAIN request = 1..Len(request)
      BY <3>1
    <3> QED
      BY <1>1, <3>1, <3>2 DEF DefaultsDone
  <2> DEFINE D == DOMAIN capMap["default"]
             R == DOMAIN request
  <2>7. /\ DOMAIN local[d] = UNION {IdsOf("default", c) : c \in D}
        /\ \A id, x : Occurrences(ArrayOf(heap, local[d], id), x) =
                          Cardinality({c \in D : HasElement("default", c, id, x)})
    BY <1>1, <2>6 DEF StInv, DefaultsInv, d
  <2>8. /\ DOMAIN local[f] = UNION {IdsOf("filtered", request[i]) : i \in R}
        /\ \A id, x : Occurrences(ArrayOf(heap, local[f], id), x) =
                          Cardinality({i \in R : HasElement("filtered", request[i], id, x)})
    BY <1>1, <2>6 DEF StInv, FilteredInv, f
  <2>9. /\ \A c : IdsOf("default", c)' = IdsOf("default", c)
        /\ \A c, id, x : HasElement("default", c, id, x)' <=> HasElement("default", c, id, x)
        /\ \A i : IdsOf("filtered", request[i])' = IdsOf("filtered", request[i])
        /\ \A i, id, x : HasElement("filtered", request[i], id, x)' <=> HasElement("filtered", request[i], id, x)
    <3>1. "default" \in Names /\ "filtered" \in Names
      BY DEF Names
    <3>2. /\ \A c : IdsOf("filtered", c)' = IdsOf("filtered", c)
          /\ \A c, id, x : HasElement("filtered", c, id, x)' <=> HasElement("filtered", c, id, x)
      BY <3>1, <2>5 DEF ElementsStay
    <3>3. /\ \A c : IdsOf("default", c)' = IdsOf("default", c)
          /\ \A c, id, x : HasElement("default", c, id, x)' <=> HasElement("default", c, id, x)
      BY <3>1, <2>5 DEF ElementsStay
    <3> QED
      BY <3>2, <3>3, <2>5
  <2>10. DOMAIN given' = UNION ({IdsOf("filtered", request[i])' : i \in R}
                                \cup {IdsOf("default", c)' : c \in D})
    <3>1. DOMAIN given' = DOMAIN all.map
      BY <1>6 DEF Value
    <3>2. DOMAIN all.map = DOMAIN local[d] \cup DOMAIN local[f]
      BY <2>1, <2>2 DEF Extended, Value
    <3> DEFINE X == {IdsOf("filtered", request[i]) : i \in R}
               Y == {IdsOf("default", c) : c \in D}
    <3>3. {IdsOf("filtered", request[i])' : i \in R} = X /\ {IdsOf("default", c)' : c \in D} = Y
      BY <2>9
    <3>4. DOMAIN local[f] = UNION X /\ DOMAIN local[d] = UNION Y
      BY <2>7, <2>8
    <3> HIDE DEF X, Y
    <3>5. \A P, Q : (UNION P) \cup (UNION Q) = UNION (P \cup Q)
      <4> TAKE P, Q
      <4>1. \A e : e \in UNION (P \cup Q) <=> e \in UNION P \/ e \in UNION Q
        OBVIOUS
      <4> QED
        BY <4>1
    <3> QED
      BY <3>1, <3>2, <3>3, <3>4, <3>5
  <2>11. ASSUME NEW id \in DOMAIN given', NEW x
         PROVE  Occurrences(given'[id], x) =
                   Cardinality({i \in R : HasElement("filtered", request[i], id, x)'})
                   + Cardinality({c \in D : HasElement("default", c, id, x)'})
    <3> DEFINE X == {i \in R : HasElement("filtered", request[i], id, x)}
               Y == {c \in D : HasElement("default", c, id, x)}
               prior == ArrayOf(heap, local[d], id)
               add == ArrayOf(heap, local[f], id)
    <3>1. /\ {i \in R : HasElement("filtered", request[i], id, x)'} = X
          /\ {c \in D : HasElement("default", c, id, x)'} = Y
      BY <2>9
    <3>2. given'[id] = ArrayOf(all.heap, all.map, id)
      BY <1>6 DEF Value, ArrayOf
    <3>3. given'[id] = prior \o add
      BY <2>3, <3>2
    <3>4. Occurrences(prior, x) = Cardinality(Y) /\ Occurrences(add, x) = Cardinality(X)
      BY <2>7, <2>8
    <3>5. prior \in Seq(Origin) /\ add \in Seq(Origin)
      BY <1>2, <1>3, StackArrays
    <3> HIDE DEF X, Y, prior, add
    <3>6. Occurrences(prior \o add, x) = Occurrences(prior, x) + Occurrences(add, x)
      BY <3>5, OccurrencesConcat
    <3>7. Occurrences(prior, x) \in Nat /\ Occurrences(add, x) \in Nat
      BY <3>5, OccurrencesType
    <3>8. Occurrences(given'[id], x) = Cardinality(X) + Cardinality(Y)
      BY <3>3, <3>4, <3>6, <3>7
    <3> QED
      BY <3>1, <3>8
  <2>12. GivenIsAll'
    <3> DEFINE In(id) == ToSet(given[id]) \cup Stored
    <3>1. D' = D /\ R' = R
      BY <2>5
    <3>2. /\ DOMAIN given' = UNION ({IdsOf("filtered", request[i])' : i \in R'}
                                    \cup {IdsOf("default", c)' : c \in D'})
          /\ \A id \in DOMAIN given' : \A x \in (ToSet(given[id]) \cup Stored)' :
               Occurrences(given[id], x)' =
                   Cardinality({i \in R' : HasElement("filtered", request[i], id, x)'})
                   + Cardinality({c \in D' : HasElement("default", c, id, x)'})
      BY <2>10, <2>11, <3>1 DEF Occurrences
    <3> QED
      BY <3>2 DEF GivenIsAll
  <2> QED
    BY <1>1, <1>6, <2>4, <2>12, CallEndInv
<1> QED
  BY <1>1, <1>5, <1>6

\* The end of execute.
LEMMA DefaultsSetInv == StInv /\ DefaultsSet => StInv' /\ StoreKept
<1> SUFFICES ASSUME StInv, DefaultsSet PROVE StInv' /\ StoreKept
  OBVIOUS
<1> DEFINE d   == "gatewayConfigs"
           map == local[d]
           h   == Destroyed(heap, map)
           none == Empty
<1>1. call = "execute" /\ UNCHANGED answer /\ End(h)
  BY DEF DefaultsSet
<1>2. DOMAIN local = {d} /\ answer = "none"
  BY <1>1 DEF StInv, LocalInv, TypesInv
<1>3. HeapOK(heap, MapsOf(capMap, local))
  BY DEF StInv, HeapInv
<1>4. DOMAIN none = {}
  BY DEF Empty
<1>5. map = local[d] /\ h = Destroyed(heap, map)
  OBVIOUS
<1> HIDE DEF d, map, h, none
<1>6. d \in DOMAIN local /\ DOMAIN none = DOMAIN local \ {d} /\ \A w \in DOMAIN none : none[w] = local[w]
  BY <1>2, <1>4
<1>7. Kept(heap, h, capMap, none)
  BY <1>3, <1>5, <1>6, LocalDestroyed
<1>8. GivenIsAll'
  BY <1>1, <1>2 DEF GivenIsAll
<1> QED
  BY <1>1, <1>2, <1>7, <1>8, CallEndInv DEF Kept, none

\* Nothing changes.
LEMMA StoreStutter ==
    ASSUME StInv, UNCHANGED storeVars
    PROVE  StInv' /\ StoreKept
<1>1. UNCHANGED <<content, status, store, next, entry, gateway, heap, capMap, local>>
      /\ UNCHANGED <<call, todo, pos, request, answer, given, requests>>
  BY DEF storeVars, manifestVars, loadVars, callVars
<1>2. HeapKept(heap, heap', capMap)
  BY <1>1, SameHeap
<1>3. TypesInv'
  BY <1>1 DEF StInv, TypesInv, Current
<1>4. LocalInv' /\ HeapInv'
  BY <1>1 DEF StInv, LocalInv, HeapInv
<1>5. EntryInv'
  <2>1. HeapKept(heap, heap', capMap')
    BY <1>1, <1>2
  <2> QED
    BY <1>1, <2>1, EntriesStay DEF StInv
<1>6. LoadInv'
  BY <1>1 DEF StInv, LoadInv, Current, CurrentManifest, CurrentEntry, Passed, NameOf
<1>7. ElementsStay
  BY <1>1, <1>2, ElementsLemma
<1>8. FilteredInv'
  BY <1>1, <1>7, FilteredStays DEF StInv
<1>9. DefaultsInv'
  <2>1. CASE call = "none"
    BY <1>1, <2>1 DEF DefaultsInv
  <2>2. CASE call # "none"
    BY <1>1, <1>7, <2>2, DefaultsStay DEF StInv
  <2> QED
    BY <2>1, <2>2
<1>10. GivenIsAll'
  <2> SUFFICES ASSUME answer = "ok" /\ request # <<>> PROVE GivenIsAll'
    BY <1>1 DEF GivenIsAll
  <2> DEFINE D == DOMAIN capMap["default"]
             R == DOMAIN request
  <2>1. /\ DOMAIN given = UNION ({IdsOf("filtered", request[i]) : i \in R} \cup {IdsOf("default", c) : c \in D})
        /\ \A id \in DOMAIN given : \A x \in ToSet(given[id]) \cup Stored :
             Occurrences(given[id], x) =
                 Cardinality({i \in R : HasElement("filtered", request[i], id, x)})
                 + Cardinality({c \in D : HasElement("default", c, id, x)})
    BY DEF StInv, GivenIsAll
  <2>2. "default" \in Names /\ "filtered" \in Names
    BY DEF Names
  <2>3. /\ \A c : IdsOf("filtered", c)' = IdsOf("filtered", c)
        /\ \A c, id, x : HasElement("filtered", c, id, x)' <=> HasElement("filtered", c, id, x)
    BY <1>7, <2>2 DEF ElementsStay
  <2>4. /\ \A c : IdsOf("default", c)' = IdsOf("default", c)
        /\ \A c, id, x : HasElement("default", c, id, x)' <=> HasElement("default", c, id, x)
    BY <1>7, <2>2 DEF ElementsStay
  <2>5. /\ \A i : IdsOf("filtered", request[i])' = IdsOf("filtered", request[i])
        /\ \A i, id, x : HasElement("filtered", request[i], id, x)' <=> HasElement("filtered", request[i], id, x)
    BY <1>1, <2>3
  <2>6. /\ {IdsOf("filtered", request[i])' : i \in R} = {IdsOf("filtered", request[i]) : i \in R}
        /\ {IdsOf("default", c)' : c \in D} = {IdsOf("default", c) : c \in D}
    BY <2>4, <2>5
  <2>7. DOMAIN given' = UNION ({IdsOf("filtered", request[i])' : i \in R} \cup {IdsOf("default", c)' : c \in D})
    BY <1>1, <2>1, <2>6
  <2>8. \A id, x :
          /\ {i \in R : HasElement("filtered", request[i], id, x)'} =
                {i \in R : HasElement("filtered", request[i], id, x)}
          /\ {c \in D : HasElement("default", c, id, x)'} = {c \in D : HasElement("default", c, id, x)}
    BY <2>4, <2>5
  <2>9. \A id : (ToSet(given[id]) \cup Stored)' = ToSet(given[id]) \cup Stored
    BY <1>1 DEF Stored, ToSet
  <2>10. \A id, x : Occurrences(given[id], x)' = Occurrences(given[id], x)
    BY <1>1 DEF Occurrences
  <2>11. D' = D /\ R' = R
    BY <1>1
  <2>12. \A id \in DOMAIN given' : \A x \in (ToSet(given[id]) \cup Stored)' :
            Occurrences(given[id], x)' =
                Cardinality({i \in R : HasElement("filtered", request[i], id, x)'})
                + Cardinality({c \in D : HasElement("default", c, id, x)'})
    <3> SUFFICES ASSUME NEW id \in DOMAIN given', NEW x \in (ToSet(given[id]) \cup Stored)'
                 PROVE  Occurrences(given[id], x)' =
                          Cardinality({i \in R : HasElement("filtered", request[i], id, x)'})
                          + Cardinality({c \in D : HasElement("default", c, id, x)'})
      OBVIOUS
    <3>1. id \in DOMAIN given /\ x \in ToSet(given[id]) \cup Stored
      BY <1>1, <2>9
    <3>2. Occurrences(given[id], x) =
                 Cardinality({i \in R : HasElement("filtered", request[i], id, x)})
                 + Cardinality({c \in D : HasElement("default", c, id, x)})
      BY <2>1, <3>1
    <3>3. Occurrences(given[id], x)' = Occurrences(given[id], x)
      BY <2>10
    <3> QED
      BY <2>8, <3>2, <3>3
  <2> QED
    BY <2>7, <2>11, <2>12 DEF GivenIsAll
<1> QED
  BY <1>1, <1>2, <1>3, <1>4, <1>5, <1>6, <1>8, <1>9, <1>10 DEF StInv, StoreKept

\* Every step keeps the invariant, and once the agent is up also what the stores hold.
LEMMA NextStores ==
    ASSUME StInv, [StoreNext]_storeVars
    PROVE  StInv' /\ (status = "up" => StoreKept)
<1>1. CASE LoadContent \/ ParseServiceManifest \/ ParseGatewayConfigs \/ StoreIsMade \/ Unwind
  <2>1. status # "up"
    BY <1>1 DEF LoadContent, ParseServiceManifest, ParseGatewayConfigs, StoreIsMade, Unwind
  <2> QED
    BY <1>1, <2>1, LoadContentInv, ParseServiceManifestInv, ParseGatewayConfigsInv,
       StoreIsMadeInv, UnwindInv
<1>2. CASE \E ids \in Requests : CallSetCapabilities(ids)
  BY <1>2, CallSetCapabilitiesInv
<1>3. CASE ExecuteUnconfigured \/ Configs \/ ConfigsByID \/ CapabilitiesSet \/ DefaultsSet
  BY <1>3, ExecuteUnconfiguredInv, ConfigsInv, ConfigsByIDInv, CapabilitiesSetInv, DefaultsSetInv
<1>4. CASE StoreRest \/ UNCHANGED storeVars
  BY <1>4, StoreStutter DEF StoreRest
<1> QED
  BY <1>1, <1>2, <1>3, <1>4 DEF StoreNext

\* What the invariant says of the stores.
LEMMA StoresInv == StInv => StoreIsSound /\ StoreTypeOK
<1> SUFFICES ASSUME StInv PROVE StoreIsSound /\ StoreTypeOK
  OBVIOUS
<1>1. GivenIsAsked
  BY DEF StInv, GivenIsAll, GivenIsAsked
<1> QED
  BY <1>1, CountsAreRight, EntriesAreWhole, StoreTypes DEF StInv, StoreIsSound

\* A step that keeps the arrays keeps what the capabilities mean.
LEMMA ValuesStay ==
    ASSUME StoreKept
    PROVE  \A s \in Names : \A c \in DOMAIN capMap[s] :
              c \in DOMAIN capMap'[s] /\ ValueOf(s, c) = ValueOf(s, c)'
<1> TAKE s \in Names
<1> TAKE c \in DOMAIN capMap[s]
<1>1. \A id \in DOMAIN capMap[s][c] : heap'[capMap[s][c][id]] = heap[capMap[s][c][id]]
  BY DEF StoreKept, HeapKept
<1>2. ValueOf(s, c) = ValueOf(s, c)'
  BY <1>1 DEF StoreKept, ValueOf, Value
<1> QED
  BY <1>2 DEF StoreKept

----------------------------------------------------------------------------
\* Every behaviour of the two modules is one of the stores.
LEMMA StoresTakeSteps ==
    /\ SettingsInit => StoreInit
    /\ [SettingsNext]_settingsVars => [StoreNext]_storeVars
BY DEF SettingsInit, SettingsNext, settingsVars

\* Whatever the manifests are and whatever is asked for: at every step each JSON array is
\* counted right, a capability holds nothing but what entries of its name say and all that
\* an only entry says, and a request for known capabilities gets each element of the
\* default ones and of those it named as often as it named them (StoreIsSound of
\* BaseConfigStore, its subclasses and GatewayConfiguration).
THEOREM StoresAreSound == SettingsSpec => []StoreIsSound
<1>1. SettingsInit => StInv
  BY StoresTakeSteps, InitStores
<1>2. StInv /\ [SettingsNext]_settingsVars => StInv'
  BY StoresTakeSteps, NextStores
<1>3. StInv => StoreIsSound
  BY StoresInv
<1> QED
  BY <1>1, <1>2, <1>3, PTL DEF SettingsSpec

\* What a capability means never changes once the agent is up: a request appends to copies
\* (StoreIsConstant of configs, configByID and configsByID).
THEOREM StoresAreConstant == SettingsSpec => StoreIsConstant
<1> DEFINE Same == status = "up" => \A s \in Names : \A c \in DOMAIN capMap[s] :
                     c \in DOMAIN capMap'[s] /\ ValueOf(s, c) = ValueOf(s, c)'
<1>1. SettingsInit => StInv
  BY StoresTakeSteps, InitStores
<1>2. StInv /\ [SettingsNext]_settingsVars => StInv'
  BY StoresTakeSteps, NextStores
<1>3. StInv /\ [SettingsNext]_settingsVars => [Same]_storeVars
  BY StoresTakeSteps, NextStores, ValuesStay
<1> QED
  BY <1>1, <1>2, <1>3, PTL DEF SettingsSpec, StoreIsConstant

\* Types of both modules: the loops of the stores stay within the manifests and the
\* requests, no array is kept without a reference, and the items of the configuration have
\* the types their getters look for (SettingsTypeOK).
THEOREM ConfigurationTypeCorrect == SettingsSpec => []SettingsTypeOK
<1>1. SettingsInit => StInv /\ Inv
  BY StoresTakeSteps, InitStores, InitInv DEF SettingsInit
<1>2. StInv /\ Inv /\ [SettingsNext]_settingsVars => StInv' /\ Inv'
  <2> SUFFICES ASSUME StInv, Inv, [SettingsNext]_settingsVars PROVE StInv' /\ Inv'
    OBVIOUS
  <2>1. [ConfigNext]_configVars
    BY DEF SettingsNext, settingsVars
  <2>2. [StoreNext]_storeVars
    BY StoresTakeSteps
  <2> QED
    BY <2>1, <2>2, NextStores, NextInv
<1>3. StInv /\ Inv => SettingsTypeOK
  BY StoresInv, InvTypes DEF SettingsTypeOK
<1> QED
  BY <1>1, <1>2, <1>3, PTL DEF SettingsSpec
=============================================================================
