----------------------------- MODULE FileGateway -----------------------------
(***************************************************************************)
(* FileGateway with its FileGatewaySettingStore: the elements of the       *)
(* configuration merged by container path, and their activation, one       *)
(* bindMountInContainer after the other until one fails.  A step is one of *)
(* these, and only the end of the container's init comes between.          *)
(***************************************************************************)
EXTENDS BindMounts

CONSTANTS
    MaxElements,   \* bound on the configuration elements accepted
    MaxTries       \* bound on the calls of activate

ASSUME FileGatewayAssumption == {MaxElements, MaxTries} \subseteq Nat

SettingRec == [src : Sources, target : Targets, ro : BOOLEAN]

VARIABLES
    settings,   \* m_settings
    asked,      \* history: the elements that were accepted
    fileState,  \* the state of the Gateway: "created", "configured" or "activated"
    tries,      \* calls of activate so far
    turn        \* activateGateway's loop: the setting it is at; 0 outside of it

fileGatewayVars == <<settings, asked, fileState, tries, turn>>

FileGatewayInit ==
    BindInit /\ settings = <<>> /\ asked = {} /\ fileState = "created" /\ tries = 0 /\ turn = 0

\* Two settings are equal, for std::find, if they have the same path in the container.
Conflicting(s) == {k \in DOMAIN settings : settings[k].target = s.target}

\* it->readOnly &= setting.readOnly
Merged(old, s) == [old EXCEPT !.ro = @ /\ s.ro]

\* addSetting: one host path for each path in the container, or it answers false.
AddSetting(s) ==
    LET k == Conflicting(s)
    IN  \/ k = {} /\ settings' = Append(settings, s)
        \/ /\ k # {} /\ settings[Min(k)].src = s.src
           /\ settings' = [settings EXCEPT ![Min(k)] = Merged(@, s)]

\* setConfig as far as an element that is accepted.  It is the last of its array, or is
\* cut off by one that is refused; what was read stays stored then, but the gateway is
\* not configured by this call.  An element without the key read-only leaves
\* FileSetting::readOnly uninitialised, so it may have either value.
ReadConfigElement(s, cut) ==
    /\ turn = 0 /\ fileState # "activated" /\ Cardinality(asked) < MaxElements
    /\ AddSetting(s)
    /\ asked' = asked \cup {s}
    /\ fileState' = IF cut THEN fileState ELSE "configured"
    /\ UNCHANGED <<bindVars, tries, turn>>

\* The parser refuses missing or empty paths and keys of the wrong type.
ReadBadElement ==
    /\ turn = 0 /\ fileState # "activated"
    /\ UNCHANGED <<bindVars, fileGatewayVars>>

\* Gateway::activate.
ActivateGateway ==
    /\ turn = 0 /\ fileState = "configured" /\ tries < MaxTries /\ phase \in {"up", "down"}
    /\ tries' = tries + 1 /\ turn' = 1
    /\ last' = [res |-> "activating", before |-> fs.mounts]
    /\ UNCHANGED <<phase, wb, fs, calls, settings, asked, fileState>>

\* Mutant: a failed bind mount does not end the loop.
AfterMountGoesOn(res) == turn + 1

\* The loop goes on after a bind mount that answered true.  If one answers false or
\* throws, the gateway stays configured and what it mounted stays mounted, and it may
\* be activated again.
AfterMount(res) == IF res = "true" THEN turn + 1 ELSE 0

ActivateSetting ==
    /\ turn \in DOMAIN settings
    /\ \E r \in BindMountInContainerOut(fs, phase = "up", settings[turn].src,
                                        settings[turn].target, settings[turn].ro) :
         fs' = r.fs /\ turn' = AfterMount(r.res)
    /\ UNCHANGED <<phase, wb, calls, last, settings, asked, fileState, tries>>

ActivateEnds ==
    /\ turn > Len(settings)
    /\ turn' = 0 /\ fileState' = "activated" /\ last' = NoCall
    /\ UNCHANGED <<phase, wb, fs, calls, settings, asked, tries>>

\* Before and after, the container is used through its other calls.  teardownGateway
\* does nothing: the container's handlers undo the mounts.
Elsewhere == turn = 0 /\ BindNext /\ UNCHANGED fileGatewayVars

InitDiesMeanwhile == turn # 0 /\ InitDies /\ UNCHANGED fileGatewayVars

FileGatewayNext ==
    \/ \E s \in SettingRec, cut \in BOOLEAN : ReadConfigElement(s, cut)
    \/ ReadBadElement
    \/ ActivateGateway \/ ActivateSetting \/ ActivateEnds
    \/ Elsewhere \/ InitDiesMeanwhile

FileGatewaySpec == FileGatewayInit /\ [][FileGatewayNext]_<<bindVars, fileGatewayVars>>

----------------------------------------------------------------------------
\* The store has one setting per container path, and nothing is mounted more often than
\* there were calls and settings.
FileGatewayTypeOK ==
    /\ settings \in Seq(SettingRec) /\ asked \subseteq SettingRec
    /\ fileState \in {"created", "configured", "activated"} /\ tries \in 0..MaxTries
    /\ \A j, k \in DOMAIN settings : settings[j].target = settings[k].target => j = k
    /\ turn \in 0..(Len(settings) + 1)
    /\ Len(fs.mounts) <= calls + tries * Len(settings)

\* However the elements were ordered, a setting is read-only only if every element
\* for its container path was, and every accepted element has its setting.
MostPermissive ==
    /\ \A s \in asked : \E k \in DOMAIN settings :
         settings[k].target = s.target /\ settings[k].src = s.src
    /\ \A k \in DOMAIN settings :
         settings[k].ro <=> \A s \in asked : s.target = settings[k].target => s.ro

\* No other setting and, when the activation began, no mount on the host had the last path
\* component of the k-th.
AloneOnPath(k) ==
    LET n == settings[k].target.name
    IN  /\ \A i \in DOMAIN last.before : last.before[i].host => last.before[i].name # n
        /\ \A j \in DOMAIN settings : settings[j].target.name = n => j = k

\* After an activation that answered true, on the first try or later, a setting whose
\* last path component nothing else has is visible in the container as it was asked for,
\* whatever the calls before it mounted or failed to mount, if the container still runs.
ActiveIsVisible ==
    [][fileState = "configured" /\ fileState' = "activated" /\ phase = "up" =>
         \A k \in DOMAIN settings :
             AloneOnPath(k) => Visible(fs', settings[k])]_<<bindVars, fileGatewayVars>>
=============================================================================
