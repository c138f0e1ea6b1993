----------------------------- MODULE AgentAdaptor -----------------------------
(***************************************************************************)
(* SoftwareContainerAgentAdaptor and the D-Bus stub below it: the agent's  *)
(* object on the bus, the dispatch of method calls, their answers, and the *)
(* ProcessStateChanged signal.                                             *)
(*                                                                         *)
(* The callbacks of GDBus run on the main loop.  The object is registered  *)
(* before the name is acquired, so calls may arrive in between; what a     *)
(* method of the agent does is only how it ends.                           *)
(***************************************************************************)
EXTENDS Integers, Sequences

CONSTANT MaxCalls    \* bound on the calls that arrive

ASSUME AdaptorAssumption == MaxCalls \in Nat

\* The methods of the interface.
Methods == {"List", "ListCapabilities", "Create", "Execute", "Suspend", "Resume",
            "Destroy", "BindMount", "SetCapabilities"}

\* Container::execute splits the command line with Glib::shell_parse_argv, whose
\* Glib::ShellError is no SoftwareContainerError.
RaisesGlibError == {"Execute"}

\* List and ListCapabilities only inspect.
NeverFails == {"List", "ListCapabilities"}

VARIABLES
    bus,      \* "connecting", "open", or "closed" by the other side
    object,   \* registeredId: the object is registered
    conn,     \* m_connection is set
    name,     \* "unknown", "owned" or "lost"
    loop,     \* "running", "quit" (asked to end), "ended" or "aborted"
    calls,    \* the calls that arrived, with the answers sent
    jobs,     \* children whose end is still to be announced
    nullCall  \* history: m_connection was used without being set

adaptorVars == <<bus, object, conn, name, loop, calls, jobs, nullCall>>

CallRec == [method : Methods, st : {"queued", "running", "handled"}, answers : 0..1]

AdaptorInit ==
    /\ bus = "connecting" /\ object = FALSE /\ conn = FALSE /\ name = "unknown"
    /\ loop = "running" /\ calls = <<>> /\ jobs = 0 /\ nullCall = FALSE

\* A method of the agent runs, and the loop with it; it may take any time, or never
\* return: waitpid and recvmsg wait as long as it takes.
Busy == \E k \in DOMAIN calls : calls[k].st = "running"

----------------------------------------------------------------------------
\* Mutant: an error is logged and the loop goes on.
OnDBusErrorLogged == loop' = loop

\* on_name_lost and object_not_registered lead to onDBusError, which quits the loop.
OnDBusError == loop' = "quit"

\* on_bus_acquired sets m_connection once the object is registered.
ConnectionSet == TRUE

BusAcquired ==
    /\ loop = "running" /\ ~Busy /\ bus = "connecting"
    /\ bus' = "open"
    /\ \/ object' = TRUE /\ conn' = ConnectionSet /\ UNCHANGED loop
       \/ OnDBusError /\ UNCHANGED <<object, conn>>
    /\ UNCHANGED <<name, calls, jobs, nullCall>>

\* There is no bus.
BusFails ==
    /\ loop = "running" /\ ~Busy /\ bus = "connecting"
    /\ bus' = "closed" /\ name' = "lost"
    /\ OnDBusError
    /\ UNCHANGED <<object, conn, calls, jobs, nullCall>>

NameAcquired ==
    /\ loop = "running" /\ ~Busy /\ bus = "open" /\ name = "unknown"
    /\ name' = "owned"
    /\ UNCHANGED <<bus, object, conn, loop, calls, jobs, nullCall>>

\* Another agent has or takes the name, or the connection was closed.
NameLost ==
    /\ loop = "running" /\ ~Busy /\ bus # "connecting" /\ name # "lost"
    /\ name' = "lost"
    /\ OnDBusError
    /\ UNCHANGED <<bus, object, conn, calls, jobs, nullCall>>

\* External: the bus closes the connection; the loop hears of it later.
ConnectionCloses ==
    /\ loop = "running" /\ bus = "open"
    /\ bus' = "closed"
    /\ UNCHANGED <<object, conn, name, loop, calls, jobs, nullCall>>

\* External: a client's call arrives; methods the interface does not have are
\* refused by GDBus.
Arrives(m) ==
    /\ loop = "running" /\ bus = "open" /\ object /\ Len(calls) < MaxCalls
    /\ calls' = Append(calls, [method |-> m, st |-> "queued", answers |-> 0])
    /\ UNCHANGED <<bus, object, conn, name, loop, jobs, nullCall>>

----------------------------------------------------------------------------
First(k) == calls[k].st = "queued" /\ \A j \in 1..(k - 1) : calls[j].st = "handled"

\* A method answers with a value after the agent's method has returned, and
\* on_method_call with an error if that threw.
Answers(outcome) == 1

\* on_method_call: the method of the first call is entered ...
Enter(k) ==
    /\ loop = "running" /\ ~Busy /\ First(k)
    /\ calls' = [calls EXCEPT ![k].st = "running"]
    /\ UNCHANGED <<bus, object, conn, name, loop, jobs, nullCall>>

\* ... and returns or throws, if it does.
Return(k, outcome) ==
    /\ calls[k].st = "running"
    /\ outcome = "error" => calls[k].method \notin NeverFails
    /\ calls' = [calls EXCEPT ![k].st = "handled", ![k].answers = @ + Answers(outcome)]
    /\ jobs' = IF calls[k].method = "Execute" /\ outcome = "ok" THEN jobs + 1 ELSE jobs
    /\ UNCHANGED <<bus, object, conn, name, loop, nullCall>>

\* An exception that is no SoftwareContainerError leaves the callback, and glibmm
\* aborts the process.
HandleAborts(k) ==
    /\ calls[k].st = "running" /\ calls[k].method \in RaisesGlibError
    /\ loop' = "aborted"
    /\ calls' = [calls EXCEPT ![k].st = "handled"]
    /\ UNCHANGED <<bus, object, conn, name, jobs, nullCall>>

\* ProcessStateChanged_emitter: on a closed connection emit_signal throws, which
\* nothing catches.
Announce ==
    /\ loop = "running" /\ ~Busy /\ jobs > 0
    /\ jobs' = jobs - 1
    /\ nullCall' = ~conn
    /\ loop' = IF bus = "closed" THEN "aborted" ELSE loop
    /\ UNCHANGED <<bus, object, conn, name, calls>>

\* The loop ends; main destroys the adaptor and the agent.
LoopEnds ==
    /\ loop = "quit" /\ loop' = "ended"
    /\ UNCHANGED <<bus, object, conn, name, calls, jobs, nullCall>>

AdaptorNext ==
    \/ BusAcquired \/ BusFails \/ NameAcquired \/ NameLost \/ ConnectionCloses
    \/ \E m \in Methods : Arrives(m)
    \/ \E k \in DOMAIN calls : Enter(k) \/ HandleAborts(k)
    \/ \E k \in DOMAIN calls, outcome \in {"ok", "error"} : Return(k, outcome)
    \/ Announce \/ LoopEnds

AdaptorSpec == AdaptorInit /\ [][AdaptorNext]_adaptorVars

\* The main loop dispatches what is ready; GDBus reports a closed connection.  Nothing says
\* that a method returns.
AdaptorFairness ==
    /\ WF_adaptorVars(LoopEnds) /\ WF_adaptorVars(bus = "closed" /\ NameLost)
    /\ WF_adaptorVars(\E k \in DOMAIN calls : Enter(k))

----------------------------------------------------------------------------
\* Types of the stub's members and of the calls, none of which is answered twice.
AdaptorTypeOK ==
    /\ bus \in {"connecting", "open", "closed"} /\ object \in BOOLEAN /\ conn \in BOOLEAN
    /\ name \in {"unknown", "owned", "lost"}
    /\ loop \in {"running", "quit", "ended", "aborted"}
    /\ calls \in Seq(CallRec) /\ jobs \in Nat /\ nullCall \in BOOLEAN

\* ProcessStateChanged_emitter never uses an m_connection that is not set, although
\* calls are served before the name is acquired.
EmitterIsConnected == ~nullCall

Answered(k) == k \in DOMAIN calls /\ calls[k].answers = 1

\* Every call that arrived is answered unless the agent ends first.
CallsAreAnswered ==
    \A k \in 1..MaxCalls :
        (k \in DOMAIN calls) ~> (Answered(k) \/ loop \in {"ended", "aborted"})

\* Losing the bus ends the agent: it does not go on without a name.
LostNameEndsAgent ==
    (name = "lost" \/ bus = "closed") ~> (loop \in {"ended", "aborted"})

\* The agent serves the bus or leaves it, unless one of its methods never returns: calls
\* are answered, and no agent stays behind without a name.  Whatever else happens, a
\* method that hangs is the only way in which it can fail to.
BusIsServed == (CallsAreAnswered /\ LostNameEndsAgent) \/ <>[]Busy
=============================================================================
