-------------------------- MODULE DeviceNodeGateway --------------------------
(***************************************************************************)
(* DeviceNodeGateway with DeviceNodeLogic and Device: the list of devices, *)
(* merged by name, and its activation: a node made in the container and a  *)
(* chmod job run there for each device that is not configured yet.  The    *)
(* gateway is dynamic, so configuring and activating alternate.  A step is *)
(* one round of the loop of setConfig or activateGateway, and no other     *)
(* call comes between two rounds.                                          *)
(*                                                                         *)
(* A mode is the integer of the manifest, three decimal digits for owner,  *)
(* group and others; -1 stands for none.                                   *)
(***************************************************************************)
EXTENDS Integers, Sequences, FiniteSets, SequencesExt, FiniteSetsExt

CONSTANTS
    DeviceNames,   \* device names
    Modes,         \* modes that elements give
    MaxDevices     \* bound on the elements read

NoMode == -1

ASSUME DeviceAssumption ==
    /\ Modes \subseteq 0..999
    /\ MaxDevices \in Nat

\* What the container has at the name of a device, if no chmod has changed it.
NoNode    == -2
HostPerms == -1

DeviceRec == [name : DeviceNames, mode : 0..999 \cup {NoMode}, done : BOOLEAN]

ElementRec == [name : DeviceNames, mode : Modes \cup {NoMode}]

VARIABLES
    deviceState,  \* the state of the Gateway: "created", "configured", "activated"
    devs,         \* m_devList; done is m_isConfigured
    node,         \* the permission bits that chmod gave the container's nodes, in one integer
    deviceAsked,  \* history: the elements that were accepted
    deviceReads,  \* how many there were
    missed,       \* history: devices whose last chmod job did not start
    deviceLoop,   \* setConfig's loop: "no", or "none" or "some" elements read
    next,         \* activateGateway's loop: the device it is at; 0 outside of it
    deviceReply   \* what the last call answered

deviceVars == <<deviceState, devs, node, deviceAsked, deviceReads, missed, deviceLoop, next, deviceReply>>

DeviceTypeOK ==
    /\ deviceState \in {"created", "configured", "activated"}
    /\ devs \in Seq(DeviceRec)
    /\ \A j, k \in DOMAIN devs : devs[j].name = devs[k].name => j = k
    /\ node \in [DeviceNames -> NoNode..4095]
    /\ deviceAsked \subseteq ElementRec
    /\ deviceReads \in 0..MaxDevices
    /\ missed \subseteq DeviceNames
    /\ deviceLoop \in {"no", "none", "some"} /\ next \in 0..(Len(devs) + 1)
    /\ deviceState # "created" => devs # <<>>
    /\ deviceReply \in {"none", "setConfig", "activate", "failed"}

DeviceInit ==
    /\ deviceState = "created" /\ devs = <<>> /\ node = [n \in DeviceNames |-> NoNode]
    /\ deviceAsked = {} /\ deviceReads = 0 /\ missed = {}
    /\ deviceLoop = "no" /\ next = 0 /\ deviceReply = "none"

----------------------------------------------------------------------------
(***************************************************************************)
(* Configuration.                                                          *)
(***************************************************************************)
\* The digits of a mode, with C++'s division: those of -1 are 0, 0 and -1.
Owner(mode)  == IF mode < 0 THEN 0 ELSE mode \div 100
Group(mode)  == IF mode < 0 THEN 0 ELSE (mode \div 10) % 10
Others(mode) == IF mode < 0 THEN -1 ELSE mode % 10

\* The digits of calculateDeviceMode(appliedMode), one by one.
MergedMode(old, applied) ==
    IF old = applied THEN old
    ELSE Max({Owner(old), Owner(applied)}) * 100
         + Max({Group(old), Group(applied)}) * 10
         + Max({Others(old), Others(applied)})

\* Mutant: a device that is configured stays so.
CalculateDeviceModeKeeps(d, applied) ==
    [d EXCEPT !.mode = Max({d.mode, MergedMode(d.mode, applied)})]

CalculateDeviceMode(d, applied) ==
    LET result == MergedMode(d.mode, applied)
    IN  IF result > d.mode THEN [name |-> d.name, mode |-> result, done |-> FALSE] ELSE d

\* updateDeviceList, with findDeviceByName.
UpdateDeviceList(list, e) ==
    LET same == {k \in DOMAIN list : list[k].name = e.name}
    IN  IF same = {} THEN Append(list, [name |-> e.name, mode |-> e.mode, done |-> FALSE])
        ELSE [list EXCEPT ![Min(same)] = CalculateDeviceMode(@, e.mode)]

Idle == deviceLoop = "no" /\ next = 0

\* setConfig of an array.
SetDeviceConfig ==
    /\ Idle /\ deviceReads < MaxDevices
    /\ deviceLoop' = "none" /\ deviceReply' = "none"
    /\ UNCHANGED <<deviceState, devs, node, deviceAsked, deviceReads, missed, next>>

ReadDevice(e) ==
    /\ deviceLoop # "no" /\ deviceReads < MaxDevices
    /\ devs' = UpdateDeviceList(devs, e)
    /\ deviceAsked' = deviceAsked \cup {e}
    /\ deviceReads' = deviceReads + 1
    /\ deviceLoop' = "some"
    /\ UNCHANGED <<deviceState, node, missed, next, deviceReply>>

\* An array without elements, or an element that Device::parse refuses: one without a
\* name, or with a mode that is no integer.  What came before it stays in the list.
RefuseDevice ==
    /\ deviceLoop # "no"
    /\ deviceLoop' = "no" /\ deviceReply' = "failed"
    /\ UNCHANGED <<deviceState, devs, node, deviceAsked, deviceReads, missed, next>>

EndDeviceConfig ==
    /\ deviceLoop = "some"
    /\ deviceLoop' = "no" /\ deviceReply' = "setConfig" /\ deviceState' = "configured"
    /\ UNCHANGED <<devs, node, deviceAsked, deviceReads, missed, next>>

----------------------------------------------------------------------------
(***************************************************************************)
(* Activation.                                                             *)
(***************************************************************************)
\* Gateway::activate; it throws unless the gateway is configured, and then the list
\* has a device.
ActivateDevices ==
    /\ Idle /\ deviceState = "configured"
    /\ next' = 1 /\ deviceReply' = "none"
    /\ UNCHANGED <<deviceState, devs, node, deviceAsked, deviceReads, missed, deviceLoop>>

\* External: chmod(2) takes the low twelve bits of the integer, which is not what its three
\* decimal digits say: 722 is 01322.
Chmod(mode) == mode % 4096

\* Device::activate of the next device returned true, or false, which ends the loop.
DeviceTrue  == next' = next + 1 /\ UNCHANGED deviceReply
DeviceFalse == next' = 0 /\ deviceReply' = "failed" /\ UNCHANGED devs

\* m_isConfigured = true
DeviceDone == devs' = [devs EXCEPT ![next] = [name |-> @.name, mode |-> @.mode, done |-> TRUE]]

\* There is nothing to do, or Container::mountDevice fails.
Unmounted(d) ==
    /\ \/ d.done /\ DeviceTrue /\ UNCHANGED devs
       \/ ~d.done /\ DeviceFalse
    /\ UNCHANGED <<node, missed>>

\* mountDevice makes the node anew, with the host's permissions.  The chmod job may not
\* start: start() is not looked at, and the status that wait() finds may be 0.
Mounted(d) ==
    /\ ~d.done
    /\ \/ /\ d.mode # NoMode /\ DeviceTrue /\ DeviceDone
          /\ node' = [node EXCEPT ![d.name] = Chmod(d.mode)] /\ missed' = missed \ {d.name}
       \/ /\ d.mode # NoMode /\ DeviceTrue /\ DeviceDone
          /\ node' = [node EXCEPT ![d.name] = HostPerms] /\ missed' = missed \cup {d.name}
       \/ /\ \/ d.mode # NoMode /\ DeviceFalse
             \/ d.mode = NoMode /\ DeviceTrue /\ DeviceDone
          /\ node' = [node EXCEPT ![d.name] = HostPerms] /\ missed' = missed \ {d.name}

DeviceActivate ==
    /\ next \in DOMAIN devs
    /\ Unmounted(devs[next]) \/ Mounted(devs[next])
    /\ UNCHANGED <<deviceState, deviceAsked, deviceReads, deviceLoop>>

EndDeviceActivate ==
    /\ next > Len(devs)
    /\ next' = 0 /\ deviceState' = "activated" /\ deviceReply' = "activate"
    /\ UNCHANGED <<devs, node, deviceAsked, deviceReads, missed, deviceLoop>>

DeviceRest ==
    Idle /\ deviceReads = MaxDevices /\ deviceState # "configured" /\ UNCHANGED deviceVars

DeviceNext ==
    \/ SetDeviceConfig
    \/ \E e \in ElementRec : ReadDevice(e)
    \/ RefuseDevice
    \/ EndDeviceConfig
    \/ ActivateDevices
    \/ DeviceActivate
    \/ EndDeviceActivate
    \/ DeviceRest

DeviceSpec == DeviceInit /\ [][DeviceNext]_deviceVars

----------------------------------------------------------------------------
ModesAsked(n) == {e.mode : e \in {x \in deviceAsked : x.name = n}}

\* The integers of the elements are merged digit by digit: through arrays that fail
\* half-way and activations in between, each decimal digit is the greatest that any element
\* gave, and there is no mode only if no element gave one.
DigitsAreGreatest ==
    /\ {d.name : d \in ToSet(devs)} = {e.name : e \in deviceAsked}
    /\ \A d \in ToSet(devs) :
         IF ModesAsked(d.name) = {NoMode} THEN d.mode = NoMode
         ELSE /\ Owner(d.mode)  = Max({Owner(m)  : m \in ModesAsked(d.name)})
              /\ Group(d.mode)  = Max({Group(m)  : m \in ModesAsked(d.name)})
              /\ Others(d.mode) = Max({Others(m) : m \in ModesAsked(d.name)})

\* The node of a device as Device::activate left it last: chmod was given the integer that
\* the list has now, or nobody called it, for want of a mode or because the job that was to
\* do so did not start.
AsActivated(d) ==
    node[d.name] = (IF d.mode = NoMode \/ d.name \in missed THEN HostPerms ELSE Chmod(d.mode))

\* A device whose m_isConfigured is set has its node, and the integer that chmod was given
\* is not one that a later configuration has replaced; and an activation that succeeded
\* leaves no device without.  A job that did not start counts as one that worked, and its
\* device keeps the host's permissions.
ConfiguredIsCurrent ==
    /\ \A d \in ToSet(devs) : d.done => AsActivated(d)
    /\ deviceReply = "activate" => \A d \in ToSet(devs) : d.done

\* The integer in the list has the greatest digits asked for, and it is the one that the
\* last chmod of a configured device was given.  Nothing is said of the permissions the
\* container sees: they are the bits of that decimal integer.
DevicesAreCurrent == DigitsAreGreatest /\ ConfiguredIsCurrent
=============================================================================
