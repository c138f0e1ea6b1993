------------------------ MODULE SoftwareContainerOps ------------------------
(***************************************************************************)
(* The life-cycle methods of class SoftwareContainer over its Container,   *)
(* as outcome sets like those of module Container.  A SoftwareContainer is *)
(* a record                                                                *)
(*   state  m_containerState                                               *)
(*   prev   m_previouslyConfigured                                         *)
(*   c      m_container, with the host state it stands for                 *)
(* and an outcome is the updated object with the exception thrown, or "ok".*)
(***************************************************************************)
EXTENDS Container

SCStates == {"READY", "SUSPENDED", "TERMINATED", "INVALID"}

Errors == {"InvalidContainerError", "InvalidOperationError", "ContainerError",
           "SoftwareContainerError", "GatewayError"}

SoftwareContainerRec == [state : SCStates, prev : BOOLEAN, c : ContainerRec]

Reply(res, s) == [res |-> res, s |-> s]

\* What a method leaves that changes m_containerState.
Now(s, state, c) == [s EXCEPT !.state = state, !.c = c]

\* Mutant: assertValidState() is left out.
RefusalUnasserted(s, allowed) ==
    IF s.state \notin allowed THEN "InvalidOperationError" ELSE "none"

\* assertValidState() and the check for the states a method is allowed in.
Refusal(s, allowed) ==
    IF s.state = "INVALID" THEN "InvalidContainerError"
    ELSE IF s.state \notin allowed THEN "InvalidOperationError"
    ELSE "none"

----------------------------------------------------------------------------
\* start() and init(): initialize, create and start the container, then make
\* the gateways, of which the network gateway's constructor may throw.
StartedOut(c) == Then(Then(InitializeOut(c), CreateOut), StartOut)

InitOut(c) == StartedOut(c) \cup {Ans("false", r.c) : r \in StartedOut(c)}

\* ~SoftwareContainer(): the container goes first, then the tmpfs.
SCDestructOut(c) == {Undone(d, {"root"}) : d \in DestructOut(c)}

\* The constructor.  It may throw in checkContainerRoot (before the tmpfs), in
\* checkNetworkSettings (before the Container exists) and when init() fails; the
\* parts already built are then destroyed.
ConstructOut(host, writeBufferEnabled) ==
    LET fresh  == NewContainer(host, writeBufferEnabled)
        Rooted == IF writeBufferEnabled THEN TmpfsMountOut(fresh) ELSE {fresh}
        Inited == UNION {InitOut(c) : c \in Rooted}
    IN  {r \in Inited : r.res = "true"}
        \cup {Ans("false", Undone(c, {"root"})) : c \in {fresh} \cup Rooted}
        \cup UNION {{Ans("false", d) : d \in SCDestructOut(r.c)} :
                    r \in {q \in Inited : q.res = "false"}}

\* suspend(): a wrong m_state of the Container makes this object INVALID; the
\* exception of a failing LXC call passes through and leaves the object as it is.
SCSuspendOut(s) ==
    IF Refusal(s, {"READY"}) # "none" THEN {Reply(Refusal(s, {"READY"}), s)}
    ELSE {IF a.res = "true" THEN Reply("ok", Now(s, "SUSPENDED", a.c))
          ELSE IF a.res = "false" THEN Reply("ContainerError", Now(s, "INVALID", a.c))
          ELSE Reply("SoftwareContainerError", s) : a \in SuspendOut(s.c)}

\* resume()
SCResumeOut(s) ==
    IF Refusal(s, {"SUSPENDED"}) # "none" THEN {Reply(Refusal(s, {"SUSPENDED"}), s)}
    ELSE {IF a.res = "true" THEN Reply("ok", Now(s, "READY", a.c))
          ELSE IF a.res = "false" THEN Reply("ContainerError", Now(s, "INVALID", a.c))
          ELSE Reply("SoftwareContainerError", s) : a \in ResumeOut(s.c)}

\* The states shutdown() is allowed in.
Mortal == {"READY", "SUSPENDED"}

\* Mutant: the answer of destroy() is not looked at.
SCShutdownOutUnchecked(s) ==
    IF Refusal(s, Mortal) # "none" THEN {Reply(Refusal(s, Mortal), s)}
    ELSE {Reply("ok", Now(s, "TERMINATED", r.c)) : r \in DestroyOut(s.c)}

\* shutdown(timeout): the gateways are torn down by the caller's model, then the
\* container is destroyed.
SCShutdownOut(s) ==
    IF Refusal(s, Mortal) # "none" THEN {Reply(Refusal(s, Mortal), s)}
    ELSE {IF r.res = "true" THEN Reply("ok", Now(s, "TERMINATED", r.c))
          ELSE Reply("ContainerError", Now(s, "INVALID", r.c)) :
             r \in DestroyOut(s.c)}
=============================================================================
