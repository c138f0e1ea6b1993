---------------------------- MODULE CgroupsGateway ----------------------------
(***************************************************************************)
(* CgroupsGateway with its CGroupsParser: the settings read from           *)
(* configuration elements, by key, and their activation, one               *)
(* set_cgroup_item after the other until one fails.                        *)
(*                                                                         *)
(* A value is a text: the number it starts with, NaN if it starts with     *)
(* none, and what it ends in: a digit, one of the units k, m and g, the    *)
(* last digit of a class id, written 0x..., or anything else.              *)
(***************************************************************************)
EXTENDS Integers, Sequences, FiniteSets, SequencesExt, FiniteSetsExt

CONSTANTS
    Amounts,    \* the numbers that values start with, besides -1
    Endings,   \* what values end in
    Kilo,       \* the factor between two units, 1024 in the code
    MaxLL,      \* the greatest long long
    MaxInt,     \* the greatest int
    MaxReads,   \* bound on the elements read
    MaxTries    \* bound on the calls of activate

ASSUME CgroupsAssumption ==
    /\ {MaxLL, MaxInt, MaxReads, MaxTries} \subseteq Nat
    /\ Kilo \in Nat \ {0} /\ Kilo * Kilo * Kilo <= MaxLL + 1
    /\ Amounts \subseteq 0..(2 * MaxLL)
    /\ Endings \subseteq {"digit", "k", "m", "g", "classid", "else"} /\ "digit" \in Endings

NaN == -99

Values == [n : Amounts \cup {-1, NaN}, suf : Endings]

\* The keys: cpu.shares, memory.limit_in_bytes, memory.memsw.limit_in_bytes,
\* net_cls.classid and one the gateway does not know.
Keys    == {"cpu.shares", "limit", "memsw", "net_cls.classid", "unknown"}
Memory  == {"limit", "memsw"}
Biggest == Memory \cup {"cpu.shares"}

VARIABLES
    cgroupsState, \* the state of the Gateway: "created", "configured", "activated"
    reading,   \* setConfig's loop: "no", or "none" or "some" elements read
    settings,  \* m_settings
    read,      \* history: the values accepted for each key, in order
    reads,     \* elements read
    tries,     \* calls of activate
    cgroup,    \* the items set in the container's cgroup
    cgroupsReply, \* what the last call answered
    why        \* history: what made the last set_cgroup_item fail

cgroupsVars == <<cgroupsState, reading, settings, read, reads, tries, cgroup, cgroupsReply, why>>

NoSettings == [key \in {} |-> 0]

IsItems(f) ==
    /\ DOMAIN f \subseteq Keys
    /\ \A key \in DOMAIN f : f[key] \in [n : Int, suf : Endings]

CgroupsInit ==
    /\ cgroupsState = "created" /\ reading = "no" /\ settings = NoSettings
    /\ read = [key \in Keys |-> <<>>] /\ reads = 0 /\ tries = 0
    /\ cgroup = NoSettings /\ cgroupsReply = "none" /\ why = "none"

Extended(f, key, v) == [x \in DOMAIN f \cup {key} |-> IF x = key THEN v ELSE f[x]]

----------------------------------------------------------------------------
(***************************************************************************)
(* The parser.  An operator answers "ok" with the text to store, "keep",   *)
(* "error" for a CgroupsGatewayError, or "std" for an exception of the     *)
(* standard library.                                                       *)
(***************************************************************************)
Answer(res, v) == [res |-> res, v |-> v]

Text(n) == [n |-> n, suf |-> "digit"]

Factor(suf) == CASE suf = "k" -> Kilo [] suf = "m" -> Kilo * Kilo
                 [] suf = "g" -> Kilo * Kilo * Kilo [] OTHER -> 1

\* A product in long long.
Wrapped(x) == ((x + MaxLL + 1) % (2 * (MaxLL + 1))) - (MaxLL + 1)

\* The number a text starts with, in base 10: 0 for a class id.
Leading(v) == IF v.suf = "classid" THEN 0 ELSE v.n

\* strtoll: 0 for what is no number.
Strtoll(n) == IF n = NaN THEN 0 ELSE n

\* Mutant: only the number itself is looked at, not the product.
ConvertToBytesWraps(v) ==
    IF v.n > MaxLL THEN Answer("error", v)
    ELSE Answer("ok", Text(Wrapped(Strtoll(v.n) * Factor(v.suf))))

ConvertToBytes(v) ==
    IF Strtoll(v.n) > MaxLL \div Factor(v.suf) THEN Answer("error", v)
    ELSE Answer("ok", Text(Wrapped(Strtoll(v.n) * Factor(v.suf))))

SuffixCorrection(v) ==
    CASE v.suf \in {"digit", "classid"} -> Answer("ok", v)
      [] v.suf \in {"k", "m", "g"} -> ConvertToBytes(v)
      [] OTHER -> Answer("error", v)

\* stoll throws invalid_argument or out_of_range.
Unparsable(v) == Leading(v) = NaN \/ Leading(v) > MaxLL

\* A memory limit: the suffix first, then the comparison with what is stored.
ParseMemory(key, v) ==
    LET c == SuffixCorrection(v)
    IN  IF c.res # "ok" \/ key \notin DOMAIN settings THEN c
        ELSE IF Unparsable(settings[key]) \/ Unparsable(c.v) THEN Answer("std", v)
        ELSE IF Leading(settings[key]) >= Leading(c.v) THEN Answer("keep", v) ELSE c

\* cpu.shares: stoi takes the number the text starts with.
ParseShares(key, v) ==
    IF v.n = NaN \/ v.n > MaxInt \/ Leading(v) < 2 THEN Answer("error", v)
    ELSE IF key \in DOMAIN settings /\ settings[key].n >= v.n THEN Answer("keep", v)
    ELSE Answer("ok", Text(v.n))

\* net_cls.classid: at least five hexadecimal digits, not all 0.
ParseClassId(v) ==
    IF v.suf = "classid" /\ v.n # 0 /\ v.n # NaN THEN Answer("ok", v) ELSE Answer("error", v)

ParseCGroupsGatewayConfiguration(key, v) ==
    CASE key \in Memory            -> ParseMemory(key, v)
      [] key = "cpu.shares"        -> ParseShares(key, v)
      [] key = "net_cls.classid"   -> ParseClassId(v)
      [] OTHER                     -> Answer("ok", v)

----------------------------------------------------------------------------
(***************************************************************************)
(* setConfig.  The gateway is static: once activated it takes no more.     *)
(***************************************************************************)
BeginConfig ==
    /\ reading = "no" /\ cgroupsState # "activated" /\ reads < MaxReads
    /\ reading' = "none" /\ cgroupsReply' = "none" /\ why' = "none"
    /\ UNCHANGED <<cgroupsState, settings, read, reads, tries, cgroup>>

\* readConfigElement of an element with the two strings.  A refusal or an exception
\* ends setConfig, with the elements before it stored.
ReadConfigElement(key, v) ==
    /\ reading # "no" /\ reads < MaxReads
    /\ reads' = reads + 1
    /\ LET a == ParseCGroupsGatewayConfiguration(key, v)
       IN  /\ settings' = IF a.res = "ok" THEN Extended(settings, key, a.v) ELSE settings
           /\ read' = IF a.res \in {"ok", "keep"} THEN [read EXCEPT ![key] = Append(@, v)] ELSE read
           /\ reading' = IF a.res \in {"ok", "keep"} THEN "some" ELSE "no"
           /\ cgroupsReply' = IF a.res \in {"ok", "keep"} THEN "none" ELSE a.res
    /\ UNCHANGED <<cgroupsState, tries, cgroup, why>>

\* An element without "setting" or "value", or an array without elements.
ReadBadElement ==
    /\ reading # "no"
    /\ reading' = "no" /\ cgroupsReply' = "malformed"
    /\ UNCHANGED <<cgroupsState, settings, read, reads, tries, cgroup, why>>

EndConfig ==
    /\ reading = "some"
    /\ reading' = "no" /\ cgroupsState' = "configured" /\ cgroupsReply' = "configured"
    /\ UNCHANGED <<settings, read, reads, tries, cgroup, why>>

----------------------------------------------------------------------------
(***************************************************************************)
(* Activation.                                                             *)
(***************************************************************************)
\* External: a limit of the memory controller; none, or -1, is unlimited.  The kernel
\* reads hexadecimal numbers too.
Limit(f, key) == IF key \in DOMAIN f /\ f[key].n # -1 THEN f[key].n ELSE 2 * MaxLL

\* External: a memory limit is a number, and -1 the only negative one.
IsLimit(v) == v.n >= -1

\* External: the kernel keeps the limit of memory and swap at or above that of memory.
Ordered(f) == Limit(f, "limit") <= Limit(f, "memsw")

Item(ok, c, w) == [ok |-> ok, cgroup |-> c, why |-> w]

\* set_cgroup_item: it may fail for reasons of the host, and the kernel may refuse.
SetCgroupItemOut(r, key, v) ==
    LET c == Extended(r.cgroup, key, v)
    IN  {Item(FALSE, r.cgroup, "host")} \cup
        (IF key \in Memory /\ ~IsLimit(v) THEN {}
         ELSE IF key \in Memory /\ ~Ordered(c) THEN {Item(FALSE, r.cgroup, "order")}
         ELSE {Item(TRUE, c, r.why)})

\* One round of the loop, if m_settings has the key and none before it failed.
NextItemOut(r, key) ==
    IF r.ok /\ key \in DOMAIN settings THEN SetCgroupItemOut(r, key, settings[key]) ELSE {r}

Round(outs, key) == UNION {NextItemOut(r, key) : r \in outs}

\* m_settings is a std::map, and the loop goes through it in the order of its keys.
ActivateCgroupsOut ==
    LET shares == Round({Item(TRUE, cgroup, "none")}, "cpu.shares")
        limit  == Round(shares, "limit")
        memsw  == Round(limit, "memsw")
    IN  Round(Round(memsw, "net_cls.classid"), "unknown")

ActivateCgroups ==
    /\ reading = "no" /\ cgroupsState = "configured" /\ tries < MaxTries
    /\ tries' = tries + 1
    /\ \E r \in ActivateCgroupsOut :
          /\ cgroup' = r.cgroup /\ why' = r.why
          /\ IF r.ok THEN cgroupsState' = "activated" /\ cgroupsReply' = "activated"
             ELSE cgroupsReply' = "failed" /\ UNCHANGED cgroupsState
    /\ UNCHANGED <<reading, settings, read, reads>>

\* teardownGateway does nothing: the cgroup goes with the container.
CgroupsRest ==
    /\ reading # "some"
    /\ cgroupsState = "activated" \/ reads = MaxReads
    /\ UNCHANGED cgroupsVars

CgroupsNext ==
    \/ BeginConfig
    \/ \E key \in Keys, v \in Values : ReadConfigElement(key, v)
    \/ ReadBadElement
    \/ EndConfig
    \/ ActivateCgroups
    \/ CgroupsRest

CgroupsSpec == CgroupsInit /\ [][CgroupsNext]_cgroupsVars

----------------------------------------------------------------------------
CgroupsTypeOK ==
    /\ cgroupsState \in {"created", "configured", "activated"}
    /\ reading \in {"no", "none", "some"}
    /\ IsItems(settings) /\ IsItems(cgroup)
    /\ read \in [Keys -> Seq(Values)]
    /\ reads \in 0..MaxReads /\ tries \in 0..MaxTries
    /\ cgroupsReply \in {"none", "configured", "error", "std", "malformed", "activated", "failed"}
    /\ why \in {"none", "host", "order"}
    /\ cgroupsState # "created" => settings # NoSettings

\* What a value means: its number in its unit, in mathematical integers.
Meaning(key, v) == IF key # "cpu.shares" /\ v.suf \in {"k", "m", "g"}
                     THEN Strtoll(v.n) * Factor(v.suf) ELSE Leading(v)

\* "If the gateway is configured multiple times with either of these settings the
\* bigger value will be set. For all other settings the latest read value will be
\* set": whatever units the values were written in, however close to the range of
\* the integers they are, and whichever arrays failed half-way.
BiggerOrLatest ==
    \A key \in Keys :
        /\ key \in DOMAIN settings <=> read[key] # <<>>
        /\ read[key] # <<>> =>
             IF key \in Biggest
               THEN Leading(settings[key]) = Max({Meaning(key, v) : v \in ToSet(read[key])})
               ELSE settings[key] = Last(read[key])

\* A gateway that is activated has set every item to what the parser kept.
ActivatedIsSet == cgroupsState = "activated" => settings = cgroup

\* The first activation of settings in which the limit of memory and swap is not
\* below that of memory is never refused by the kernel: the order of the keys sets
\* the smaller limit first.
FirstTryIsOrdered == tries = 1 /\ why = "order" => ~Ordered(settings)

\* The limits of the container are those its configurations ask for.
LimitsAreSet == BiggerOrLatest /\ ActivatedIsSet /\ FirstTryIsOrdered
=============================================================================
