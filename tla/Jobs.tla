--------------------------------- MODULE Jobs ---------------------------------
(***************************************************************************)
(* The child processes of the agent: commands that clients run with        *)
(* Execute and that a GLib child watch announces with ProcessStateChanged; *)
(* functions that gateways and bind mounts run in a container and wait     *)
(* for; and the dbus-proxies of the gateways.                              *)
(*                                                                         *)
(* Handlers run one at a time on the main loop.  A handler that waits for  *)
(* a process blocks the loop; processes go on, and GLib's worker thread    *)
(* still reaps the processes it watches.                                   *)
(***************************************************************************)
EXTENDS Integers, Sequences

CONSTANTS
    Ids,          \* container ids
    MaxGen,       \* bound on how often an id is given out
    MaxProcs,     \* bound on the processes started
    ExitCodes     \* what a process may return

ASSUME JobsAssumption ==
    /\ MaxGen \in Nat /\ MaxProcs \in Nat
    /\ ExitCodes \subseteq 0..255

VARIABLES
    ctr,      \* for each id: listed, how often given out, whether init runs
    proc,     \* the processes started so far; a pid is a position
    watch,    \* m_connections: the child watches
    handler,  \* what the main loop does
    sent,     \* the ProcessStateChanged signals sent
    done      \* the last synchronous job: what it started, what it reaped, what it answered

jobsVars == <<ctr, proc, watch, handler, sent, done>>

----------------------------------------------------------------------------
\* The status wait(2) reports for a process that returned code or was killed, and
\* what WEXITSTATUS makes of it.
Exited(code)   == 256 * code
Killed         == 9
WExitStatus(s) == (s \div 256) % 256

\* A process that ended is reaped by GLib for its watch, or taken by a handler that waits.
ProcessRec == [kind : {"command", "function", "proxy"}, id : Ids, gen : 1..MaxGen,
               st : {"running", "zombie", "reaped", "taken"}, status : {Exited(c) : c \in ExitCodes}
                                                              \cup {Killed, 0}]

\* A child watch: the container id its listener captured and what GLib knows.
WatchRec == [pid : 1..MaxProcs, id : Ids, exited : BOOLEAN, code : Int]

\* What the loop waits for: nothing, a process, or, with a pid of 0 or -1 that no
\* process was started for, any child.
AnyChild == 0
HandlerRec == [op : {"idle", "wait", "executeSync"}, pid : 0..MaxProcs,
               started : BOOLEAN]
Idle == [op |-> "idle", pid |-> AnyChild, started |-> FALSE]

Here(i, p)  == proc[p].id = i /\ proc[p].gen = ctr[i].gen
Gone(p)     == proc[p].st \in {"reaped", "taken"}
Unreaped    == {p \in DOMAIN proc : ~Gone(p)}
New(kind, i) ==
    [kind |-> kind, id |-> i, gen |-> ctr[i].gen, st |-> "running", status |-> 0]

\* With a container's init all its processes are killed; proxies live outside.
KilledIn(i) ==
    [p \in DOMAIN proc |->
        IF Here(i, p) /\ proc[p].kind # "proxy" /\ proc[p].st = "running"
          THEN [proc[p] EXCEPT !.st = "zombie", !.status = Killed] ELSE proc[p]]

\* No synchronous job has been waited for, or one is being waited for.
NoJob == [op |-> "none", own |-> AnyChild, pid |-> AnyChild, success |-> FALSE]

JobsInit ==
    /\ ctr = [i \in Ids |-> [listed |-> FALSE, gen |-> 0, up |-> FALSE]]
    /\ proc = <<>> /\ watch = {} /\ handler = Idle /\ sent = <<>>
    /\ done = NoJob

----------------------------------------------------------------------------
(***************************************************************************)
(* Containers come and go; their ids are given out again.                  *)
(***************************************************************************)
Create(i) ==
    /\ handler = Idle /\ ~ctr[i].listed /\ ctr[i].gen < MaxGen
    /\ ctr' = [ctr EXCEPT ![i] = [listed |-> TRUE, gen |-> @.gen + 1, up |-> TRUE]]
    /\ UNCHANGED <<proc, watch, handler, sent, done>>

\* Destroy: the proxies are killed and reaped by their pid, then init is stopped.
Destroy(i) ==
    /\ handler = Idle /\ ctr[i].listed
    /\ ctr' = [ctr EXCEPT ![i].listed = FALSE, ![i].up = FALSE]
    /\ proc' = [p \in DOMAIN proc |->
                  IF Here(i, p) /\ proc[p].kind = "proxy"
                    THEN [proc[p] EXCEPT !.st = "taken"] ELSE KilledIn(i)[p]]
    /\ UNCHANGED <<watch, handler, sent, done>>

\* A gateway starts its dbus-proxy.
StartProxy(i) ==
    /\ handler = Idle /\ ctr[i].listed /\ Len(proc) < MaxProcs
    /\ \A p \in Unreaped : ~(Here(i, p) /\ proc[p].kind = "proxy")
    /\ proc' = Append(proc, New("proxy", i))
    /\ UNCHANGED <<ctr, watch, handler, sent, done>>

----------------------------------------------------------------------------
(***************************************************************************)
(* Container::execute, behind CommandJob::start and FunctionJob::start.     *)
(* It fails if the container does not run or cannot be attached to.         *)
(***************************************************************************)
Attached(kind, i) ==
    /\ ctr[i].up /\ Len(proc) < MaxProcs
    /\ proc' = Append(proc, New(kind, i))

\* Mutant: the listener names the container used last, not the one it captured.
ListenerLast(i) ==
    {[w EXCEPT !.id = i] : w \in watch}
        \cup {[pid |-> Len(proc) + 1, id |-> i, exited |-> FALSE, code |-> 0]}

\* Mutant: the listener is added before the job is started.
ListenerEarly(i) ==
    watch \cup {[pid |-> Len(proc), id |-> i, exited |-> FALSE, code |-> 0]}

\* Mutant: no listener is added.
ListenerNone(i) == watch

\* addProcessListener for the new process.
Listener(i) ==
    watch \cup {[pid |-> Len(proc) + 1, id |-> i, exited |-> FALSE, code |-> 0]}

\* SoftwareContainerAgent::execute: a job that cannot be started is an error and
\* changes nothing.
Execute(i) ==
    /\ handler = Idle /\ ctr[i].listed
    /\ Attached("command", i)
    /\ watch' = Listener(i)
    /\ UNCHANGED <<ctr, handler, sent, done>>

\* FunctionJob::start and wait, as NetworkGateway::setDefaultGateway calls them, and
\* Container::executeSync: both wait whether or not the process was started, and m_pid
\* is then still 0, the pid of executeSync's callers -1.
RunSync(i, op) ==
    /\ handler = Idle /\ ctr[i].listed
    /\ \/ /\ Attached("function", i)
          /\ handler' = [op |-> op, pid |-> Len(proc) + 1, started |-> TRUE]
       \/ /\ UNCHANGED proc
          /\ handler' = [op |-> op, pid |-> AnyChild, started |-> FALSE]
    /\ done' = NoJob
    /\ UNCHANGED <<ctr, watch, sent>>

\* Mutant: the result of execute() is not looked at.
SyncResultUnchecked(h, status) == WExitStatus(status) = 0

\* isSuccess() after wait(), and what executeSync returns.
SyncResult(h, status) ==
    (h.op = "executeSync" => h.started) /\ WExitStatus(status) = 0

\* The processes waitpid may return for a handler.
Awaitable(h) == IF h.started THEN {h.pid} \cap Unreaped ELSE Unreaped

\* waitForProcessTermination(pid): reaps a process that has ended.  Without any child
\* waitpid fails at once and the status stays 0.
WaitReturns ==
    /\ handler # Idle
    /\ \/ \E p \in Awaitable(handler) :
            /\ proc[p].st = "zombie"
            /\ proc' = [proc EXCEPT ![p].st = "taken"]
            /\ done' = [op |-> handler.op, own |-> handler.pid, pid |-> p,
                        success |-> SyncResult(handler, proc[p].status)]
       \/ /\ Awaitable(handler) = {}
          /\ done' = [op |-> handler.op, own |-> handler.pid, pid |-> AnyChild,
                      success |-> SyncResult(handler, 0)]
          /\ UNCHANGED proc
    /\ handler' = Idle
    /\ UNCHANGED <<ctr, watch, sent>>

----------------------------------------------------------------------------
(***************************************************************************)
(* External: processes end, a container's init dies.                        *)
(***************************************************************************)
ProcessEnds(p, status) ==
    /\ proc[p].st = "running"
    /\ proc' = [proc EXCEPT ![p].st = "zombie", ![p].status = status]
    /\ UNCHANGED <<ctr, watch, handler, sent, done>>

InitDies(i) ==
    /\ ctr[i].up
    /\ ctr' = [ctr EXCEPT ![i].up = FALSE]
    /\ proc' = KilledIn(i)
    /\ UNCHANGED <<watch, handler, sent, done>>

\* External: GLib's worker thread reaps a process that is watched; one that was reaped
\* by somebody else counts as ended with status 0.
WatchReaps(w) ==
    /\ ~w.exited /\ proc[w.pid].st # "running"
    /\ watch' = (watch \ {w}) \cup
                {[w EXCEPT !.exited = TRUE,
                           !.code = IF proc[w.pid].st = "zombie" THEN proc[w.pid].status ELSE 0]}
    /\ proc' = [proc EXCEPT ![w.pid].st = IF @ = "zombie" THEN "reaped" ELSE @]
    /\ UNCHANGED <<ctr, handler, sent, done>>

\* A child watch is removed when it has run.
Dispatched(w) == watch \ {w}

\* The main loop runs the listener that the adaptor's Execute made for a process that
\* has ended.
EmitStateChanged(w) ==
    /\ handler = Idle /\ w.exited
    /\ Len(sent) < MaxProcs
    /\ sent' = Append(sent, [id |-> w.id, pid |-> w.pid, isRunning |-> FALSE, code |-> w.code])
    /\ watch' = Dispatched(w)
    /\ UNCHANGED <<ctr, proc, handler, done>>

JobsNext ==
    \/ \E i \in Ids : Create(i) \/ Destroy(i) \/ StartProxy(i) \/ Execute(i) \/ InitDies(i)
    \/ \E i \in Ids, op \in {"wait", "executeSync"} : RunSync(i, op)
    \/ WaitReturns
    \/ \E p \in DOMAIN proc, c \in ExitCodes : ProcessEnds(p, Exited(c))
    \/ \E p \in DOMAIN proc : ProcessEnds(p, Killed)
    \/ \E w \in watch : WatchReaps(w) \/ EmitStateChanged(w)

JobsSpec == JobsInit /\ [][JobsNext]_jobsVars

\* GLib's worker runs, a wait returns when a child it waits for has ended, and the main
\* loop, which runs all sources that are ready before it looks for new ones, passes no
\* listener by for ever.  No process has to end, so a handler may wait for ever.
JobsFairness ==
    /\ WF_jobsVars(WaitReturns)
    /\ WF_jobsVars(\E w \in watch : WatchReaps(w))
    /\ SF_jobsVars(\E w \in watch : EmitStateChanged(w))

----------------------------------------------------------------------------
(***************************************************************************)
(* Properties.                                                             *)
(***************************************************************************)

\* Types of the processes, the watches and the handler's state.
JobsTypeOK ==
    /\ ctr \in [Ids -> [listed : BOOLEAN, gen : 0..MaxGen, up : BOOLEAN]]
    /\ proc \in Seq(ProcessRec) /\ Len(proc) <= MaxProcs
    /\ watch \subseteq WatchRec
    /\ handler \in HandlerRec

\* A ProcessStateChanged signal says that a command has ended, which it has, with the
\* status wait(2) reported for it and the container id that Execute was called with.  A
\* command that a handler waiting for any child took first is announced with 0, whatever
\* its status was.  The id may by then be that of another container (that is not excluded
\* here: nothing prevents it); the process id tells which command is meant.
SignalsAreTrue ==
    \A k \in DOMAIN sent :
        LET p == proc[sent[k].pid] IN
        /\ p.kind = "command" /\ Gone(sent[k].pid)
        /\ sent[k].id = p.id
        /\ sent[k].code = IF p.st = "reaped" THEN p.status ELSE 0

\* The end of a process is announced at most once.
AnnouncedOnce ==
    \A j, k \in DOMAIN sent : sent[j].pid = sent[k].pid => j = k

\* executeSync() that returns true reports on the very process this call has started:
\* its wait took that process and no other, whatever other children the agent has and
\* whoever else waits for them.  The function returned 0 or it was killed, at whatever
\* point, since WEXITSTATUS is 0 for a process that did not exit.
SyncSuccessIsOwn ==
    done.op = "executeSync" /\ done.success =>
        /\ done.own # AnyChild /\ done.pid = done.own
        /\ proc[done.own].kind = "function" /\ proc[done.own].st = "taken"
        /\ proc[done.own].status \in {Exited(0), Killed}

Ended(p)     == p \in DOMAIN proc /\ proc[p].kind = "command" /\ proc[p].st # "running"
Announced(p) == \E k \in DOMAIN sent : sent[k].pid = p

\* The loop is blocked by a handler that waits while all it waits for runs on.
Blocked ==
    /\ handler # Idle /\ Awaitable(handler) # {}
    /\ \A p \in Awaitable(handler) : proc[p].st = "running"

\* The end of every command that Execute started is announced by ProcessStateChanged,
\* unless a handler blocks the loop for ever: one that waits for a function that does not
\* end, or, having started none, for any child while all children run on.
EndIsAnnounced == (\A p \in 1..MaxProcs : Ended(p) ~> Announced(p)) \/ <>[]Blocked
=============================================================================
