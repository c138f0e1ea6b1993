---------------------------- MODULE AgentBus_proofs ----------------------------
(***************************************************************************)
(* The safety properties of the agent's adaptor and of its jobs, for every *)
(* number of containers, processes and calls.                              *)
(***************************************************************************)
EXTENDS MCAgentBus, TLAPS

(***************************************************************************)
(* The jobs.                                                               *)
(***************************************************************************)
\* An id that is in use has been given out.
Listed == \A i \in Ids : ctr[i].listed => ctr[i].gen >= 1

\* What is said of a process: that it has ended, and with which status.
Tells(x, c) ==
    x.st \in {"reaped", "taken"} /\ c = IF x.st = "reaped" THEN x.status ELSE 0

\* A watch belongs to a command, names the container the command was started in, and
\* is the only one for its process; what it says of a process that ended is true, and
\* until then GLib has not reaped it.
Watches ==
    /\ \A w \in watch :
          /\ w.pid \in DOMAIN proc
          /\ proc[w.pid].kind = "command" /\ w.id = proc[w.pid].id
          /\ w.exited => Tells(proc[w.pid], w.code)
    /\ \A v, w \in watch : v.pid = w.pid => v = w

Unseen == \A w \in watch : ~w.exited => proc[w.pid].st # "reaped"

\* What has been announced is true and is watched no longer.
Sent ==
    /\ sent \in Seq([id : Ids, pid : 1..MaxProcs, isRunning : BOOLEAN, code : Int])
    /\ \A k \in DOMAIN sent :
          /\ sent[k].pid \in DOMAIN proc
          /\ proc[sent[k].pid].kind = "command" /\ Tells(proc[sent[k].pid], sent[k].code)
          /\ sent[k].id = proc[sent[k].pid].id
          /\ \A w \in watch : w.pid # sent[k].pid

\* The function a handler waits for is there until the handler has reaped it: GLib
\* reaps commands only, and no other handler runs.
Waits ==
    handler.started =>
        /\ handler.pid \in DOMAIN proc
        /\ proc[handler.pid].kind = "function" /\ ~Gone(handler.pid)

\* A success of executeSync is that of the function it has started and taken.
Synced ==
    done.op = "executeSync" /\ done.success =>
        /\ done.pid = done.own /\ done.pid \in DOMAIN proc
        /\ proc[done.pid].kind = "function" /\ proc[done.pid].st = "taken"
        /\ WExitStatus(proc[done.pid].status) = 0

\* The inductive invariant of the jobs.
JobsInv == JobsTypeOK /\ Listed /\ Watches /\ Unseen /\ Sent /\ AnnouncedOnce /\ Waits /\ Synced

(***************************************************************************)
(* The adaptor.                                                            *)
(***************************************************************************)
\* A call that waits or runs has no answer; calls, and with them jobs, come only through an
\* object whose registration has set m_connection.
AdaptorInv ==
    /\ AdaptorTypeOK
    /\ \A k \in DOMAIN calls : calls[k].st # "handled" => calls[k].answers = 0
    /\ object => conn
    /\ calls # <<>> => conn
    /\ jobs > 0 => conn
    /\ EmitterIsConnected

\* The inductive invariant.
Inv == JobsInv /\ AdaptorInv

----------------------------------------------------------------------------
(***************************************************************************)
(* Processes.                                                              *)
(***************************************************************************)
\* What wait(2) may report.
Statuses == {Exited(c) : c \in ExitCodes} \cup {Killed, 0}

\* A status is a number.
LEMMA StatusLemma == Statuses \subseteq Int
BY JobsAssumption DEF Statuses, Exited, Killed

Over == {"reaped", "taken"}

\* What may happen to process x: it becomes y, which is the same process, and has
\* ended if x has, as x has.
Ages(x, y) ==
    /\ y \in ProcessRec /\ y.kind = x.kind /\ y.id = x.id
    /\ x.st \in Over => y.st \in Over /\ y.status = x.status /\ (x.kind # "proxy" => y.st = x.st)

\* A process that has ended and not been waited for.
Zombie(x, t) == [x EXCEPT !.st = "zombie", !.status = t]

\* A process that ends stays the process it is.
LEMMA EndedLemma ==
    ASSUME NEW x \in ProcessRec, NEW t \in Statuses, x.st = "running"
    PROVE  Ages(x, Zombie(x, t)) /\ Zombie(x, t).st = "zombie"
<1> DEFINE y == Zombie(x, t)
<1> DEFINE d == [x EXCEPT !.st = "zombie"]
<1>1. d \in ProcessRec /\ d.kind = x.kind /\ d.id = x.id /\ d.st = "zombie"
  BY DEF ProcessRec
<1>2. y = [d EXCEPT !.status = t]
  BY DEF ProcessRec, Zombie
<1> HIDE DEF d, y
<1>3. y \in ProcessRec /\ y.kind = x.kind /\ y.id = x.id /\ y.st = "zombie"
  BY <1>1, <1>2 DEF ProcessRec, Statuses
<1> QED  BY <1>3 DEF Ages, Over, y

\* A process that is reaped or taken stays the process it is.
LEMMA ReapedLemma ==
    ASSUME NEW x \in ProcessRec, NEW st \in Over, NEW y, y = [x EXCEPT !.st = st],
           x.st = "zombie" \/ x.st = st \/ x.kind = "proxy"
    PROVE  Ages(x, y) /\ y.st = st /\ y.status = x.status
BY DEF ProcessRec, Ages, Over

\* A process nothing happens to.
LEMMA SameLemma ==
    ASSUME NEW x \in ProcessRec
    PROVE  Ages(x, x)
BY DEF Ages

\* A process that is started.
LEMMA NewLemma ==
    ASSUME JobsTypeOK, Listed, NEW i \in Ids, ctr[i].listed,
           NEW kind \in {"command", "function", "proxy"}
    PROVE  /\ New(kind, i) \in ProcessRec
           /\ New(kind, i).kind = kind /\ New(kind, i).id = i /\ New(kind, i).st = "running"
BY JobsAssumption DEF JobsTypeOK, Listed, New, ProcessRec

\* What may happen to all processes: none disappears.
Evolves ==
    /\ proc' \in Seq(ProcessRec) /\ Len(proc) <= Len(proc') /\ Len(proc') <= MaxProcs
    /\ \A p \in DOMAIN proc : Ages(proc[p], proc'[p])

\* A process is added.
LEMMA AppendEvolves ==
    ASSUME JobsTypeOK, Len(proc) < MaxProcs, NEW x \in ProcessRec, proc' = Append(proc, x)
    PROVE  Evolves /\ Len(proc') = Len(proc) + 1 /\ proc'[Len(proc) + 1] = x
           /\ \A p \in DOMAIN proc : proc'[p] = proc[p]
<1>1. proc \in Seq(ProcessRec)
  BY DEF JobsTypeOK
<1>2. /\ proc' \in Seq(ProcessRec) /\ Len(proc') = Len(proc) + 1 /\ proc'[Len(proc) + 1] = x
      /\ \A p \in DOMAIN proc : proc'[p] = proc[p] /\ proc[p] \in ProcessRec
  BY <1>1
<1> QED  BY <1>1, <1>2, JobsAssumption DEF Evolves, Ages

\* GLib reaps nothing.
Quiet == \A p \in DOMAIN proc : proc'[p].st = "reaped" => proc[p].st = "reaped"

\* Every process ages.
LEMMA AllEvolve ==
    ASSUME JobsTypeOK, DOMAIN proc' = DOMAIN proc, proc' = [p \in DOMAIN proc' |-> proc'[p]],
           \A p \in DOMAIN proc : Ages(proc[p], proc'[p])
    PROVE  Evolves /\ Len(proc') = Len(proc)
<1>1. proc \in Seq(ProcessRec) /\ Len(proc) \in Nat /\ DOMAIN proc = 1..Len(proc)
  BY DEF JobsTypeOK
<1>2. \A p \in 1..Len(proc) : proc'[p] \in ProcessRec
  BY <1>1 DEF Ages
<1>3. proc' \in [1..Len(proc) -> ProcessRec]
  BY <1>1, <1>2
<1>4. proc' \in Seq(ProcessRec) /\ Len(proc') = Len(proc)
  BY <1>1, <1>3
<1> QED  BY <1>4 DEF Evolves, JobsTypeOK

----------------------------------------------------------------------------
(***************************************************************************)
(* The steps of the jobs.                                                  *)
(***************************************************************************)
\* The containers' records.
CtrOK == ctr \in [Ids -> [listed : BOOLEAN, gen : 0..MaxGen, up : BOOLEAN]] /\ Listed

\* Nothing that has been said of processes becomes false as they age.
LEMMA KeptLemma ==
    ASSUME JobsInv, Evolves, done' \in {done, NoJob}
    PROVE  /\ DOMAIN proc \subseteq DOMAIN proc'
           /\ \A w \in watch :
                 /\ w.pid \in DOMAIN proc'
                 /\ proc'[w.pid].kind = "command" /\ w.id = proc'[w.pid].id
                 /\ w.exited => Tells(proc'[w.pid], w.code)
           /\ \A k \in DOMAIN sent :
                 /\ sent[k].pid \in DOMAIN proc'
                 /\ proc'[sent[k].pid].kind = "command"
                 /\ Tells(proc'[sent[k].pid], sent[k].code)
                 /\ sent[k].id = proc'[sent[k].pid].id
           /\ Synced'
<1>1. DOMAIN proc \subseteq DOMAIN proc'
  BY DEF Evolves, JobsInv, JobsTypeOK
<1>2. \A p \in DOMAIN proc :
         /\ p \in DOMAIN proc' /\ proc'[p].kind = proc[p].kind /\ proc'[p].id = proc[p].id
         /\ Gone(p) => Gone(p)' /\ proc'[p].status = proc[p].status
                        /\ (proc[p].kind # "proxy" => proc'[p].st = proc[p].st)
  BY <1>1 DEF Evolves, Ages, Gone, Over
<1>3. Synced'
  <2>1. CASE done' = done
    BY <1>2, <2>1 DEF JobsInv, Synced, Gone
  <2>2. CASE done' = NoJob
    BY <2>2 DEF Synced, NoJob
  <2> QED  BY <2>1, <2>2
<1>4. \A p \in DOMAIN proc : \A c :
         proc[p].kind = "command" /\ Tells(proc[p], c) => Tells(proc'[p], c)
  BY <1>2 DEF Tells, Gone
<1> QED  BY <1>1, <1>2, <1>3, <1>4 DEF JobsInv, Watches, Sent

\* A step that only ages processes and changes what the loop does.
LEMMA AgeStep ==
    ASSUME JobsInv, Evolves, Quiet, CtrOK', watch' = watch, sent' = sent, done' \in {done, NoJob},
           handler' \in HandlerRec, Waits'
    PROVE  JobsInv'
<1>1. JobsTypeOK'
  BY DEF JobsInv, JobsTypeOK, Evolves, CtrOK
<1>2. Watches' /\ Sent' /\ Unseen'
  BY KeptLemma DEF JobsInv, Watches, Unseen, Sent, Tells, Quiet
<1>3. AnnouncedOnce'
  BY DEF JobsInv, AnnouncedOnce
<1> QED  BY <1>1, <1>2, <1>3, KeptLemma DEF JobsInv, CtrOK

\* A step that leaves the processes alone ages them.
LEMMA SameEvolves == JobsInv /\ proc' = proc => Evolves /\ Quiet
<1> SUFFICES ASSUME JobsInv, proc' = proc PROVE Evolves /\ Quiet
  OBVIOUS
<1>1. proc \in Seq(ProcessRec) /\ Len(proc) \in Nat /\ Len(proc) <= MaxProcs
  BY DEF JobsInv, JobsTypeOK
<1>2. \A p \in DOMAIN proc : proc[p] \in ProcessRec
  BY <1>1
<1> QED  BY <1>1, <1>2 DEF Evolves, Quiet, Ages

\* create
LEMMA CreateStep ==
    ASSUME JobsInv, NEW i \in Ids, Create(i)
    PROVE  JobsInv'
<1>1. CtrOK'
  BY JobsAssumption DEF JobsInv, JobsTypeOK, Listed, CtrOK, Create
<1>2. Evolves /\ Quiet
  BY SameEvolves DEF Create
<1>3. Waits' /\ handler' \in HandlerRec
  BY DEF JobsInv, JobsTypeOK, Waits, Create, Idle
<1> QED  BY <1>1, <1>2, <1>3, AgeStep DEF Create

\* With its init, processes of a container are killed.
LEMMA KilledLemma ==
    ASSUME JobsInv, NEW i \in Ids, NEW p \in DOMAIN proc
    PROVE  /\ Ages(proc[p], KilledIn(i)[p])
           /\ KilledIn(i)[p].st = "reaped" => proc[p].st = "reaped"
           /\ KilledIn(i)[p].st \in Over => Gone(p)
<1>1. proc[p] \in ProcessRec
  BY DEF JobsInv, JobsTypeOK
<1>2. Killed \in Statuses
  BY DEF Statuses
<1> DEFINE hit == Here(i, p) /\ proc[p].kind # "proxy" /\ proc[p].st = "running"
<1>3. KilledIn(i)[p] = IF hit THEN [proc[p] EXCEPT !.st = "zombie", !.status = Killed] ELSE proc[p]
  BY DEF KilledIn
<1>4. CASE hit
  <2>1. KilledIn(i)[p] = Zombie(proc[p], Killed) /\ proc[p].st = "running"
    BY <1>3, <1>4 DEF Zombie
  <2> HIDE DEF hit
  <2> QED  BY <1>1, <1>2, <2>1, EndedLemma DEF Over
<1>5. CASE ~hit
  <2>1. KilledIn(i)[p] = proc[p]
    BY <1>3, <1>5
  <2> HIDE DEF hit
  <2> QED  BY <1>1, <2>1, SameLemma DEF Gone, Over
<1> QED  BY <1>4, <1>5

\* destroy
LEMMA DestroyStep ==
    ASSUME JobsInv, NEW i \in Ids, Destroy(i)
    PROVE  JobsInv'
<1>1. CtrOK'
  <2> DEFINE c == [ctr EXCEPT ![i].listed = FALSE, ![i].up = FALSE]
  <2>1. ctr' = c
    BY DEF Destroy
  <2>2. ctr \in [Ids -> [listed : BOOLEAN, gen : 0..MaxGen, up : BOOLEAN]] /\ Listed
    BY DEF JobsInv, JobsTypeOK
  <2>3. c \in [Ids -> [listed : BOOLEAN, gen : 0..MaxGen, up : BOOLEAN]]
    BY <2>2
  <2>4. \A j \in Ids : c[j].gen = ctr[j].gen /\ (c[j].listed => ctr[j].listed)
    BY <2>2
  <2> HIDE DEF c
  <2>5. \A j \in Ids : c[j].listed => c[j].gen >= 1
    BY <2>2, <2>4 DEF Listed
  <2> QED
    BY <2>1, <2>3, <2>5 DEF CtrOK, Listed
<1>2. ASSUME NEW p \in DOMAIN proc
      PROVE  Ages(proc[p], proc'[p]) /\ (proc'[p].st = "reaped" => proc[p].st = "reaped")
  <2>1. proc[p] \in ProcessRec
    BY <1>2 DEF JobsInv, JobsTypeOK
  <2>2. \/ proc'[p] = [proc[p] EXCEPT !.st = "taken"] /\ proc[p].kind = "proxy"
        \/ proc'[p] = KilledIn(i)[p]
    BY <1>2 DEF Destroy
  <2> QED  BY <1>2, <2>1, <2>2, KilledLemma, ReapedLemma DEF Over
<1>3. Evolves /\ Quiet
  BY <1>2, AllEvolve DEF Destroy, JobsInv, Quiet
<1>4. Waits' /\ handler' \in HandlerRec
  BY DEF JobsInv, JobsTypeOK, Waits, Destroy, Idle
<1> QED  BY <1>1, <1>3, <1>4, AgeStep DEF Destroy

\* The death of a container's init
LEMMA InitDiesStep ==
    ASSUME JobsInv, NEW i \in Ids, InitDies(i)
    PROVE  JobsInv'
<1>1. CtrOK'
  BY JobsAssumption DEF JobsInv, JobsTypeOK, Listed, CtrOK, InitDies
<1>2. proc' = KilledIn(i) /\ DOMAIN proc' = DOMAIN proc
  BY DEF InitDies, KilledIn
<1>3. Evolves /\ Quiet
  <2>1. proc' = [p \in DOMAIN proc' |-> proc'[p]]
    BY <1>2 DEF KilledIn
  <2> QED  BY <1>2, <2>1, KilledLemma, AllEvolve DEF JobsInv, Quiet
<1>4. Waits'
  <2>1. handler.started => /\ handler.pid \in DOMAIN proc
                           /\ proc[handler.pid].kind = "function"
                           /\ ~Gone(handler.pid)
    BY DEF JobsInv, Waits
  <2> QED  BY <1>2, <2>1, KilledLemma DEF Waits, Ages, InitDies, Gone, Over
<1>5. handler' \in HandlerRec
  BY DEF JobsInv, JobsTypeOK, InitDies
<1> QED  BY <1>1, <1>3, <1>4, <1>5, AgeStep DEF InitDies

\* A gateway starts its proxy.
LEMMA StartProxyStep ==
    ASSUME JobsInv, NEW i \in Ids, StartProxy(i)
    PROVE  JobsInv'
<1>1. CtrOK'
  BY DEF JobsInv, JobsTypeOK, Listed, CtrOK, StartProxy
<1>2. Evolves /\ Quiet
  BY NewLemma, AppendEvolves DEF JobsInv, StartProxy, Quiet
<1>3. Waits' /\ handler' \in HandlerRec
  BY DEF JobsInv, JobsTypeOK, Waits, StartProxy, Idle
<1> QED  BY <1>1, <1>2, <1>3, AgeStep DEF StartProxy

\* A process ends.
LEMMA ProcessEndsStep ==
    ASSUME JobsInv, NEW p \in DOMAIN proc, NEW t \in Statuses, ProcessEnds(p, t)
    PROVE  JobsInv'
<1>1. CtrOK'
  BY DEF JobsInv, JobsTypeOK, Listed, CtrOK, ProcessEnds
<1>2. proc \in Seq(ProcessRec) /\ \A q \in DOMAIN proc : proc[q] \in ProcessRec
  BY DEF JobsInv, JobsTypeOK
<1>3. /\ DOMAIN proc' = DOMAIN proc /\ proc' = [q \in DOMAIN proc' |-> proc'[q]]
      /\ proc'[p] = [proc[p] EXCEPT !.st = "zombie", !.status = t]
      /\ \A q \in DOMAIN proc : q # p => proc'[q] = proc[q]
      /\ proc[p].st = "running"
  BY <1>2 DEF ProcessEnds
<1>4. Ages(proc[p], proc'[p]) /\ proc'[p].st = "zombie"
  <2>1. /\ proc[p] \in ProcessRec /\ proc[p].st = "running"
        /\ proc'[p] = Zombie(proc[p], t)
    BY <1>2, <1>3 DEF Zombie
  <2> QED  BY <2>1, EndedLemma
<1>5. \A q \in DOMAIN proc : Ages(proc[q], proc'[q])
  BY <1>2, <1>3, <1>4, SameLemma
<1>6. Evolves /\ Quiet
  BY <1>3, <1>4, <1>5, AllEvolve DEF JobsInv, Quiet
<1>7. Waits' /\ handler' \in HandlerRec
  BY <1>3, <1>4, <1>5 DEF JobsInv, JobsTypeOK, Waits, ProcessEnds, Ages, Gone
<1> QED  BY <1>1, <1>6, <1>7, AgeStep DEF ProcessEnds

\* Execute: the new process is watched by nobody else and has not been announced.
LEMMA ExecuteStep ==
    ASSUME JobsInv, NEW i \in Ids, Execute(i)
    PROVE  JobsInv'
<1> DEFINE n == Len(proc) + 1
           new == [pid |-> n, id |-> i, exited |-> FALSE, code |-> 0]
<1>1. /\ ctr[i].listed /\ Len(proc) < MaxProcs /\ proc' = Append(proc, New("command", i))
      /\ watch' = watch \cup {new}
      /\ ctr' = ctr /\ handler' = handler /\ sent' = sent /\ done' = done /\ handler = Idle
  BY DEF Execute, Attached, Listener
<1>2. /\ Evolves /\ Len(proc') = n /\ proc'[n].kind = "command" /\ proc'[n].id = i
      /\ proc'[n].st = "running" /\ \A p \in DOMAIN proc : proc'[p] = proc[p]
  BY <1>1, NewLemma, AppendEvolves DEF JobsInv
<1>3. Len(proc) \in Nat /\ DOMAIN proc = 1..Len(proc) /\ DOMAIN proc' = 1..n
  BY <1>2 DEF JobsInv, JobsTypeOK, Evolves
<1>4. new \in WatchRec /\ new.pid = n /\ new.id = i /\ ~new.exited
  BY <1>1, <1>3, JobsAssumption DEF WatchRec
<1>5. \A w \in watch : w.pid \in 1..Len(proc)
  BY <1>3 DEF JobsInv, Watches
<1>6. \A k \in DOMAIN sent : sent[k].pid \in 1..Len(proc)
  BY <1>3 DEF JobsInv, Sent
<1> HIDE DEF new
<1>7. JobsTypeOK'
  BY <1>1, <1>2, <1>4 DEF JobsInv, JobsTypeOK, Evolves
<1>8. Watches'
  BY <1>1, <1>2, <1>3, <1>4, <1>5, KeptLemma DEF JobsInv, Watches
<1>9. Sent'
  BY <1>1, <1>2, <1>3, <1>4, <1>6, KeptLemma DEF JobsInv, Sent
<1>10. Synced'
  BY <1>1, <1>2, KeptLemma
<1>11. Listed' /\ AnnouncedOnce' /\ Waits'
  BY <1>1 DEF JobsInv, Listed, AnnouncedOnce, Waits, Idle
<1>12. Unseen'
  BY <1>1, <1>2, <1>3, <1>4, <1>5 DEF JobsInv, Unseen
<1> QED  BY <1>7, <1>8, <1>9, <1>10, <1>11, <1>12 DEF JobsInv

\* A function job, started or not, and waited for in either case.
LEMMA RunSyncStep ==
    ASSUME JobsInv, NEW i \in Ids, NEW op \in {"wait", "executeSync"}, RunSync(i, op)
    PROVE  JobsInv'
<1>1. CtrOK' /\ watch' = watch /\ sent' = sent /\ done' = NoJob
  BY DEF JobsInv, JobsTypeOK, Listed, CtrOK, RunSync
<1>2. CASE /\ Attached("function", i)
           /\ handler' = [op |-> op, pid |-> Len(proc) + 1, started |-> TRUE]
  <2>1. ctr[i].listed /\ Len(proc) < MaxProcs /\ proc' = Append(proc, New("function", i))
    BY <1>2 DEF RunSync, Attached
  <2>2. /\ Evolves /\ Quiet /\ Len(proc') = Len(proc) + 1
        /\ proc'[Len(proc) + 1].kind = "function" /\ proc'[Len(proc) + 1].st = "running"
    BY <2>1, NewLemma, AppendEvolves DEF JobsInv, Quiet
  <2>3. Len(proc) \in Nat /\ DOMAIN proc' = 1..(Len(proc) + 1)
    BY <2>2 DEF JobsInv, JobsTypeOK, Evolves
  <2>4. handler' \in HandlerRec
    BY <1>2, <2>1, <2>3, JobsAssumption DEF HandlerRec
  <2>5. Waits'
    BY <1>2, <2>2, <2>3 DEF Waits, Gone
  <2> QED  BY <1>1, <2>2, <2>4, <2>5, AgeStep
<1>3. CASE /\ UNCHANGED proc
           /\ handler' = [op |-> op, pid |-> AnyChild, started |-> FALSE]
  <2>1. handler' \in HandlerRec /\ Waits'
    BY <1>3, JobsAssumption DEF HandlerRec, AnyChild, Waits
  <2> QED  BY <1>1, <1>3, <2>1, SameEvolves, AgeStep
<1> QED  BY <1>2, <1>3 DEF RunSync

\* A process that has ended is reaped or taken.
LEMMA ReapEvolves ==
    ASSUME JobsInv, NEW p \in DOMAIN proc, NEW st \in Over, proc' = [proc EXCEPT ![p].st = st],
           proc[p].st \in {"zombie", st}
    PROVE  /\ Evolves /\ DOMAIN proc' = DOMAIN proc
           /\ proc'[p].st = st /\ proc'[p].status = proc[p].status
           /\ \A q \in DOMAIN proc : q # p => proc'[q] = proc[q]
<1>1. proc \in Seq(ProcessRec) /\ \A q \in DOMAIN proc : proc[q] \in ProcessRec
  BY DEF JobsInv, JobsTypeOK
<1>2. /\ DOMAIN proc' = DOMAIN proc /\ proc' = [q \in DOMAIN proc' |-> proc'[q]]
      /\ proc'[p] = [proc[p] EXCEPT !.st = st]
      /\ \A q \in DOMAIN proc : q # p => proc'[q] = proc[q]
  BY <1>1
<1>3. Ages(proc[p], proc'[p]) /\ proc'[p].st = st /\ proc'[p].status = proc[p].status
  BY <1>1, <1>2, ReapedLemma
<1>4. \A q \in DOMAIN proc : Ages(proc[q], proc'[q])
  BY <1>1, <1>2, <1>3, SameLemma
<1> QED  BY <1>2, <1>3, <1>4, AllEvolve DEF JobsInv

\* waitForProcessTermination: the process of executeSync, which nobody else can have
\* reaped, is the one it reports on.
LEMMA WaitStep == JobsInv /\ WaitReturns => JobsInv'
<1> SUFFICES ASSUME JobsInv, WaitReturns PROVE JobsInv'
  OBVIOUS
<1>1. /\ ctr' = ctr /\ watch' = watch /\ sent' = sent /\ handler' = Idle
  BY DEF WaitReturns
<1>2. handler' \in HandlerRec /\ Waits' /\ Listed'
  BY <1>1, JobsAssumption DEF Idle, HandlerRec, AnyChild, Waits, JobsInv, Listed
<1>3. handler.started => handler.pid \in Unreaped /\ proc[handler.pid].kind = "function"
  BY DEF JobsInv, Waits, Unreaped
<1>4. CASE /\ Awaitable(handler) = {}
           /\ done' = [op |-> handler.op, own |-> handler.pid, pid |-> AnyChild,
                       success |-> SyncResult(handler, 0)]
           /\ UNCHANGED proc
  <2>1. ~handler.started
    BY <1>3, <1>4 DEF Awaitable
  <2>2. ~(done'.op = "executeSync" /\ done'.success)
    BY <1>4, <2>1 DEF SyncResult
  <2>3. JobsTypeOK' /\ Watches' /\ Unseen' /\ Sent' /\ AnnouncedOnce'
    BY <1>1, <1>2, <1>4
       DEF JobsInv, JobsTypeOK, Watches, Unseen, Sent, AnnouncedOnce, Tells, Gone
  <2> QED  BY <1>2, <2>2, <2>3 DEF JobsInv, Synced
<1>5. ASSUME NEW p \in Awaitable(handler),
             proc[p].st = "zombie", proc' = [proc EXCEPT ![p].st = "taken"],
             done' = [op |-> handler.op, own |-> handler.pid, pid |-> p,
                      success |-> SyncResult(handler, proc[p].status)]
      PROVE  JobsInv'
  <2>1. p \in DOMAIN proc
    BY <1>5 DEF Awaitable, Unreaped
  <2>2. /\ Evolves /\ DOMAIN proc' = DOMAIN proc
        /\ proc'[p].st = "taken" /\ proc'[p].status = proc[p].status
        /\ \A q \in DOMAIN proc : q # p => proc'[q] = proc[q]
    BY <1>5, <2>1, ReapEvolves DEF Over
  <2>3. Synced'
    <3>1. ASSUME done'.op = "executeSync", done'.success
          PROVE  handler.started /\ WExitStatus(proc[p].status) = 0 /\ p = handler.pid
      BY <1>3, <1>5, <3>1 DEF SyncResult, Awaitable
    <3>2. done'.pid = p /\ done'.own = handler.pid
      BY <1>5
    <3>3. proc'[p].kind = proc[p].kind
      BY <2>1, <2>2 DEF Evolves, Ages
    <3> QED  BY <1>3, <2>1, <2>2, <3>1, <3>2, <3>3 DEF Synced
  <2>4. JobsTypeOK'
    BY <1>1, <1>2, <2>2 DEF JobsInv, JobsTypeOK, Evolves
  <2>5. Watches' /\ Unseen' /\ Sent' /\ AnnouncedOnce'
    <3>1. \A q \in DOMAIN proc :
             /\ q \in DOMAIN proc' /\ proc'[q].kind = proc[q].kind /\ proc'[q].id = proc[q].id
             /\ proc'[q].st = "reaped" => proc[q].st = "reaped"
      BY <2>1, <2>2 DEF Evolves, Ages
    <3>2. ASSUME NEW q \in DOMAIN proc, NEW c, Tells(proc[q], c)
          PROVE  Tells(proc'[q], c)
      <4>1. q # p
        BY <1>5, <3>2 DEF Tells, Gone
      <4> QED  BY <2>2, <3>2, <4>1 DEF Tells, Gone
    <3>3. Watches'
      BY <1>1, <3>1, <3>2 DEF JobsInv, Watches
    <3>4. Unseen'
      BY <1>1, <3>1 DEF JobsInv, Watches, Unseen
    <3>5. Sent'
      BY <1>1, <3>1, <3>2 DEF JobsInv, Sent
    <3>6. AnnouncedOnce'
      BY <1>1 DEF JobsInv, AnnouncedOnce
    <3> QED  BY <3>3, <3>4, <3>5, <3>6
  <2> QED  BY <1>2, <2>3, <2>4, <2>5 DEF JobsInv
<1> QED  BY <1>4, <1>5 DEF WaitReturns

\* What GLib's worker makes of a watch.
Reaped(w) ==
    [w EXCEPT !.exited = TRUE,
              !.code = IF proc[w.pid].st = "zombie" THEN proc[w.pid].status ELSE 0]

\* It is still the watch of the same process.
LEMMA ReapedWatch ==
    ASSUME JobsInv, NEW w \in watch
    PROVE  /\ Reaped(w) \in WatchRec
           /\ Reaped(w).pid = w.pid /\ Reaped(w).id = w.id /\ Reaped(w).exited
           /\ Reaped(w).code = IF proc[w.pid].st = "zombie" THEN proc[w.pid].status ELSE 0
<1> DEFINE c == IF proc[w.pid].st = "zombie" THEN proc[w.pid].status ELSE 0
           d == [w EXCEPT !.exited = TRUE]
<1>1. w \in WatchRec /\ w.pid \in DOMAIN proc /\ proc \in Seq(ProcessRec)
  BY DEF JobsInv, JobsTypeOK, Watches
<1>2. c \in Int
  <2>1. proc[w.pid] \in ProcessRec
    BY <1>1
  <2>2. proc[w.pid].status \in Statuses
    BY <2>1 DEF ProcessRec, Statuses
  <2>3. proc[w.pid].status \in Int
    BY <2>2, StatusLemma
  <2> QED  BY <2>3
<1>3. d \in WatchRec /\ d.pid = w.pid /\ d.id = w.id /\ d.exited
  BY <1>1 DEF WatchRec
<1>4. Reaped(w) = [d EXCEPT !.code = c]
  BY <1>1 DEF WatchRec, Reaped
<1> HIDE DEF d
<1>5. Reaped(w).code = c
  BY <1>3, <1>4 DEF WatchRec
<1> HIDE DEF c
<1>6. /\ Reaped(w) \in WatchRec
      /\ Reaped(w).pid = w.pid /\ Reaped(w).id = w.id /\ Reaped(w).exited
  BY <1>2, <1>3, <1>4 DEF WatchRec
<1> QED  BY <1>5, <1>6 DEF c

\* GLib's worker reaps a command; it never takes away the process a handler waits for.
LEMMA WatchReapsStep ==
    ASSUME JobsInv, NEW w \in watch, WatchReaps(w)
    PROVE  JobsInv'
<1> DEFINE v == Reaped(w)
<1> DEFINE st == IF proc[w.pid].st = "zombie" THEN "reaped" ELSE proc[w.pid].st
<1>1. /\ watch' = (watch \ {w}) \cup {v} /\ proc' = [proc EXCEPT ![w.pid].st = st]
      /\ ctr' = ctr /\ handler' = handler /\ sent' = sent /\ done' = done
  BY DEF WatchReaps, Reaped
<1>2. /\ w.pid \in DOMAIN proc /\ proc[w.pid].kind = "command" /\ w.id = proc[w.pid].id
      /\ w \in WatchRec /\ ~w.exited /\ proc[w.pid].st \in {"zombie", "taken"}
      /\ proc[w.pid] \in ProcessRec
  <2>1. w.pid \in DOMAIN proc /\ proc[w.pid] \in ProcessRec
    BY DEF JobsInv, Watches, JobsTypeOK
  <2> QED  BY <2>1 DEF JobsInv, Watches, Unseen, JobsTypeOK, WatchReaps, ProcessRec
<1>3. /\ Evolves /\ DOMAIN proc' = DOMAIN proc
      /\ proc'[w.pid].st = st /\ proc'[w.pid].status = proc[w.pid].status
      /\ \A q \in DOMAIN proc : q # w.pid => proc'[q] = proc[q]
  <2>1. st \in Over /\ proc[w.pid].st \in {"zombie", st}
    BY <1>2 DEF Over
  <2> HIDE DEF st
  <2> QED  BY <1>1, <1>2, <2>1, ReapEvolves
<1>4. v \in WatchRec /\ v.pid = w.pid /\ v.id = w.id /\ v.exited
      /\ v.code = IF proc[w.pid].st = "zombie" THEN proc[w.pid].status ELSE 0
  BY ReapedWatch
<1> HIDE DEF v
<1>13. Tells(proc'[v.pid], v.code)
  BY <1>2, <1>3, <1>4 DEF Tells, Gone
<1>14. Unseen'
  BY <1>1, <1>2, <1>3, <1>4 DEF JobsInv, Watches, Unseen
<1>5. JobsTypeOK'
  BY <1>1, <1>3, <1>4 DEF JobsInv, JobsTypeOK, Evolves
<1>6. Watches'
  <2>1. ASSUME NEW u \in watch'
        PROVE
           /\ u.pid \in DOMAIN proc'
           /\ proc'[u.pid].kind = "command" /\ u.id = proc'[u.pid].id
           /\ u.exited => Tells(proc'[u.pid], u.code)
    <3>1. CASE u = v
      <4>1. v.pid \in DOMAIN proc'
        BY <1>2, <1>3, <1>4
      <4>2. proc'[v.pid].kind = "command" /\ v.id = proc'[v.pid].id
        BY <1>2, <1>3, <1>4 DEF Evolves, Ages
      <4> QED  BY <1>13, <3>1, <4>1, <4>2
    <3>2. CASE u \in watch
      BY <1>1, <1>3, <3>2, KeptLemma
    <3> QED  BY <1>1, <3>1, <3>2
  <2>2. \A u \in watch' : u = v \/ (u \in watch /\ u.pid # v.pid)
    BY <1>1, <1>4 DEF JobsInv, Watches
  <2>3. \A t, u \in watch : t.pid = u.pid => t = u
    BY DEF JobsInv, Watches
  <2> QED  BY <2>1, <2>2, <2>3 DEF Watches
<1>7. Sent'
  <2>1. \A k \in DOMAIN sent : \A u \in watch' : u.pid # sent[k].pid
    BY <1>1, <1>4 DEF JobsInv, Sent
  <2> QED  BY <1>1, <1>3, <2>1, KeptLemma DEF JobsInv, Sent, Tells
<1>8. Synced'
  BY <1>1, <1>3, KeptLemma
<1>9. Waits'
  <2>1. handler.started => handler.pid \in DOMAIN proc /\ handler.pid # w.pid
    BY <1>2 DEF JobsInv, Waits
  <2> QED  BY <1>1, <1>3, <2>1 DEF JobsInv, Waits, Gone
<1>10. Listed' /\ AnnouncedOnce'
  BY <1>1 DEF JobsInv, Listed, AnnouncedOnce
<1> QED  BY <1>5, <1>6, <1>7, <1>8, <1>9, <1>10, <1>14 DEF JobsInv

\* ProcessStateChanged is sent for a watch that then is gone.
LEMMA EmitStep ==
    ASSUME JobsInv, NEW w \in watch, EmitStateChanged(w)
    PROVE  JobsInv'
<1> DEFINE new == [id |-> w.id, pid |-> w.pid, isRunning |-> FALSE, code |-> w.code]
           Sig == [id : Ids, pid : 1..MaxProcs, isRunning : BOOLEAN, code : Int]
<1>1. /\ sent' = Append(sent, new) /\ watch' = watch \ {w} /\ w.exited
      /\ ctr' = ctr /\ proc' = proc /\ handler' = handler /\ done' = done
  BY DEF EmitStateChanged, Dispatched
<1>2. /\ w.pid \in DOMAIN proc /\ proc[w.pid].kind = "command" /\ w.id = proc[w.pid].id
      /\ Tells(proc[w.pid], w.code) /\ w \in WatchRec
  BY <1>1 DEF JobsInv, Watches, JobsTypeOK
<1>3. new \in Sig /\ new.pid = w.pid /\ new.id = w.id /\ new.code = w.code
  BY <1>2 DEF WatchRec
<1> HIDE DEF new
<1>4. sent \in Seq(Sig)
  BY DEF JobsInv, Sent
<1> HIDE DEF Sig
<1>5. /\ sent' \in Seq(Sig) /\ Len(sent) \in Nat
      /\ DOMAIN sent = 1..Len(sent) /\ DOMAIN sent' = 1..(Len(sent) + 1)
      /\ sent'[Len(sent) + 1] = new /\ \A k \in DOMAIN sent : sent'[k] = sent[k]
  BY <1>1, <1>3, <1>4
<1>6. \A k \in DOMAIN sent' : k \in DOMAIN sent \/ k = Len(sent) + 1
  BY <1>5
<1>7. \A u \in watch' : u \in watch /\ u.pid # w.pid
  BY <1>1 DEF JobsInv, Watches
<1>8. \A k \in DOMAIN sent :
         /\ sent[k].pid \in DOMAIN proc
         /\ proc[sent[k].pid].kind = "command" /\ Tells(proc[sent[k].pid], sent[k].code)
         /\ sent[k].id = proc[sent[k].pid].id
         /\ \A u \in watch : u.pid # sent[k].pid
  BY DEF JobsInv, Sent
<1>9. ASSUME NEW k \in DOMAIN sent'
      PROVE  /\ sent'[k].pid \in DOMAIN proc
             /\ proc[sent'[k].pid].kind = "command" /\ Tells(proc[sent'[k].pid], sent'[k].code)
             /\ sent'[k].id = proc[sent'[k].pid].id
             /\ \A u \in watch' : u.pid # sent'[k].pid
  <2>1. CASE k \in DOMAIN sent
    BY <1>5, <1>7, <1>8, <2>1
  <2>2. CASE k = Len(sent) + 1
    BY <1>2, <1>3, <1>5, <1>7, <2>2
  <2> QED  BY <1>6, <1>9, <2>1, <2>2
<1>10. Sent'
  BY <1>1, <1>5, <1>9 DEF Sent, Sig, Tells, Gone
<1>11. AnnouncedOnce'
  <2>1. \A j, k \in DOMAIN sent : sent[j].pid = sent[k].pid => j = k
    BY DEF JobsInv, AnnouncedOnce
  <2>2. \A k \in DOMAIN sent : sent'[k].pid # w.pid
    BY <1>5, <1>8
  <2>3. sent'[Len(sent) + 1].pid = w.pid
    BY <1>3, <1>5
  <2> QED  BY <1>5, <1>6, <2>1, <2>2, <2>3 DEF AnnouncedOnce
<1>12. JobsTypeOK' /\ Listed' /\ Watches' /\ Unseen' /\ Waits' /\ Synced'
  BY <1>1, <1>7
     DEF JobsInv, JobsTypeOK, Listed, Watches, Unseen, Waits, Synced, Tells, Gone
<1> QED  BY <1>10, <1>11, <1>12 DEF JobsInv

\* Every step of the jobs preserves their invariant.
LEMMA JobsNextLemma == JobsInv /\ JobsNext => JobsInv'
<1> SUFFICES ASSUME JobsInv, JobsNext PROVE JobsInv'
  OBVIOUS
<1>1. ASSUME NEW i \in Ids, Create(i) \/ Destroy(i) \/ StartProxy(i) \/ Execute(i) \/ InitDies(i)
      PROVE  JobsInv'
  BY <1>1, CreateStep, DestroyStep, StartProxyStep, ExecuteStep, InitDiesStep
<1>2. ASSUME NEW i \in Ids, NEW op \in {"wait", "executeSync"}, RunSync(i, op)
      PROVE  JobsInv'
  BY <1>2, RunSyncStep
<1>3. CASE WaitReturns
  BY <1>3, WaitStep
<1>4. ASSUME NEW p \in DOMAIN proc, NEW c \in ExitCodes, ProcessEnds(p, Exited(c))
      PROVE  JobsInv'
  BY <1>4, ProcessEndsStep DEF Statuses
<1>5. ASSUME NEW p \in DOMAIN proc, ProcessEnds(p, Killed)
      PROVE  JobsInv'
  BY <1>5, ProcessEndsStep DEF Statuses
<1>6. ASSUME NEW w \in watch, WatchReaps(w) \/ EmitStateChanged(w)
      PROVE  JobsInv'
  BY <1>6, WatchReapsStep, EmitStep
<1> QED  BY <1>1, <1>2, <1>3, <1>4, <1>5, <1>6 DEF JobsNext

\* The invariant of the jobs only speaks of their variables.
LEMMA JobsSame == JobsInv /\ UNCHANGED jobsVars => JobsInv'
BY DEF jobsVars, JobsInv, JobsTypeOK, Listed, Watches, Unseen, Sent, AnnouncedOnce, Waits, Synced,
       Tells, Gone

----------------------------------------------------------------------------
(***************************************************************************)
(* The steps of the adaptor.                                               *)
(***************************************************************************)
\* A call that has been answered.
AnsweredCall(c) == [c EXCEPT !.st = "handled", !.answers = @ + 1]

\* It is a call that no longer waits.
LEMMA CallLemma ==
    ASSUME NEW c \in CallRec, c.answers = 0
    PROVE  AnsweredCall(c) \in CallRec /\ AnsweredCall(c).st = "handled"
<1> DEFINE e == [c EXCEPT !.st = "handled"]
<1>1. e \in CallRec /\ e.st = "handled"
  BY DEF CallRec
<1>2. AnsweredCall(c) = [e EXCEPT !.answers = 1]
  BY DEF CallRec, AnsweredCall
<1> HIDE DEF e
<1> QED  BY <1>1, <1>2 DEF CallRec

\* A call whose method is entered has no answer yet.
LEMMA EnterStep ==
    ASSUME AdaptorInv, NEW k \in DOMAIN calls, Enter(k)
    PROVE  AdaptorInv'
<1> DEFINE d == [calls[k] EXCEPT !.st = "running"]
<1>1. /\ calls \in Seq(CallRec) /\ calls[k] \in CallRec /\ calls[k].answers = 0 /\ calls # <<>> /\ conn
  BY DEF AdaptorInv, AdaptorTypeOK, Enter, First
<1>2. calls' = [calls EXCEPT ![k] = d]
  BY DEF Enter
<1>3. d \in CallRec /\ d.answers = 0
  BY <1>1 DEF CallRec
<1> HIDE DEF d
<1>4. /\ calls' \in Seq(CallRec)
      /\ \A j \in DOMAIN calls' : calls'[j].st # "handled" => calls'[j].answers = 0
  BY <1>1, <1>2, <1>3 DEF AdaptorInv
<1>5. /\ conn' = conn /\ nullCall' = nullCall /\ object' = object /\ jobs' = jobs
      /\ bus' = bus /\ name' = name /\ loop' = loop
  BY DEF Enter
<1> QED  BY <1>1, <1>4, <1>5 DEF AdaptorInv, AdaptorTypeOK, EmitterIsConnected

\* on_method_call: a call is answered at most once.
LEMMA ReturnStep ==
    ASSUME AdaptorInv, NEW k \in DOMAIN calls, NEW outcome \in {"ok", "error"}, Return(k, outcome)
    PROVE  AdaptorInv'
<1> DEFINE d == AnsweredCall(calls[k])
<1>1. /\ calls \in Seq(CallRec) /\ calls[k] \in CallRec /\ calls[k].answers = 0 /\ calls # <<>> /\ conn
  BY DEF AdaptorInv, AdaptorTypeOK, Return
<1>2. calls' = [calls EXCEPT ![k] = d]
  BY DEF Return, Answers, AnsweredCall
<1>3. d \in CallRec /\ d.st = "handled"
  BY <1>1, CallLemma
<1> HIDE DEF d
<1>4. /\ calls' \in Seq(CallRec)
      /\ \A j \in DOMAIN calls' : calls'[j].st # "handled" => calls'[j].answers = 0
  BY <1>1, <1>2, <1>3 DEF AdaptorInv
<1>5. /\ conn' = conn /\ nullCall' = nullCall /\ object' = object
      /\ bus' = bus /\ name' = name /\ loop' = loop
  BY DEF Return
<1>6. jobs' \in Nat
  BY DEF AdaptorInv, AdaptorTypeOK, Return
<1> QED  BY <1>1, <1>4, <1>5, <1>6 DEF AdaptorInv, AdaptorTypeOK, EmitterIsConnected

\* An exception that leaves the callback.
LEMMA AbortStep ==
    ASSUME AdaptorInv, NEW k \in DOMAIN calls, HandleAborts(k)
    PROVE  AdaptorInv'
<1>1. calls \in Seq(CallRec) /\ calls[k] \in CallRec /\ calls # <<>> /\ conn
  BY DEF AdaptorInv, AdaptorTypeOK
<1>2. /\ [calls[k] EXCEPT !.st = "handled"] \in CallRec
      /\ [calls[k] EXCEPT !.st = "handled"].st = "handled"
  BY <1>1 DEF CallRec
<1>3. calls' = [calls EXCEPT ![k] = [calls[k] EXCEPT !.st = "handled"]]
  BY DEF HandleAborts
<1>4. /\ calls' \in Seq(CallRec)
      /\ \A j \in DOMAIN calls' : calls'[j].st # "handled" => calls'[j].answers = 0
  BY <1>1, <1>2, <1>3 DEF AdaptorInv
<1>5. /\ conn' = conn /\ nullCall' = nullCall /\ object' = object /\ jobs' = jobs
      /\ bus' = bus /\ name' = name /\ loop' = "aborted"
  BY DEF HandleAborts
<1> QED  BY <1>1, <1>4, <1>5 DEF AdaptorInv, AdaptorTypeOK, EmitterIsConnected

\* A call arrives through a registered object.
LEMMA ArrivesStep ==
    ASSUME AdaptorInv, NEW m \in Methods, Arrives(m)
    PROVE  AdaptorInv'
<1> DEFINE c == [method |-> m, st |-> "queued", answers |-> 0]
<1>1. c \in CallRec /\ c.answers = 0
  BY DEF CallRec
<1>2. calls' = Append(calls, c) /\ calls \in Seq(CallRec) /\ conn
  BY DEF Arrives, AdaptorInv, AdaptorTypeOK
<1> HIDE DEF c
<1>3. /\ calls' \in Seq(CallRec)
      /\ \A j \in DOMAIN calls' : calls'[j].st # "handled" => calls'[j].answers = 0
  BY <1>1, <1>2 DEF AdaptorInv
<1>4. /\ conn' = conn /\ nullCall' = nullCall /\ object' = object /\ jobs' = jobs
      /\ bus' = bus /\ name' = name /\ loop' = loop
  BY DEF Arrives
<1> QED  BY <1>2, <1>3, <1>4 DEF AdaptorInv, AdaptorTypeOK, EmitterIsConnected

\* Every step of the adaptor preserves its invariant.
LEMMA AdaptorNextLemma == AdaptorInv /\ AdaptorNext => AdaptorInv'
<1> SUFFICES ASSUME AdaptorInv, AdaptorNext PROVE AdaptorInv'
  OBVIOUS
<1> USE DEF AdaptorInv, AdaptorTypeOK, EmitterIsConnected, OnDBusError, ConnectionSet
<1>1. CASE BusAcquired
  <2>1. CASE object' = TRUE /\ conn' = TRUE /\ UNCHANGED loop
    BY <1>1, <2>1 DEF BusAcquired
  <2>2. CASE loop' = "quit" /\ UNCHANGED <<object, conn>>
    BY <1>1, <2>2 DEF BusAcquired
  <2> QED  BY <1>1, <2>1, <2>2 DEF BusAcquired
<1>2. CASE BusFails
  BY <1>2 DEF BusFails
<1>3. CASE NameAcquired
  BY <1>3 DEF NameAcquired
<1>4. CASE NameLost
  BY <1>4 DEF NameLost
<1>5. CASE ConnectionCloses
  BY <1>5 DEF ConnectionCloses
<1>6. ASSUME NEW m \in Methods, Arrives(m)
      PROVE  AdaptorInv'
  BY <1>6, ArrivesStep
<1>7. ASSUME NEW k \in DOMAIN calls, NEW outcome \in {"ok", "error"}, Return(k, outcome)
      PROVE  AdaptorInv'
  BY <1>7, ReturnStep
<1>8. ASSUME NEW k \in DOMAIN calls, Enter(k) \/ HandleAborts(k)
      PROVE  AdaptorInv'
  BY <1>8, EnterStep, AbortStep
<1>9. CASE Announce
  BY <1>9 DEF Announce
<1>10. CASE LoopEnds
  BY <1>10 DEF LoopEnds
<1> QED  BY <1>1, <1>2, <1>3, <1>4, <1>5, <1>6, <1>7, <1>8, <1>9, <1>10 DEF AdaptorNext

\* The invariant of the adaptor only speaks of its variables.
LEMMA AdaptorSame == AdaptorInv /\ UNCHANGED adaptorVars => AdaptorInv'
BY DEF adaptorVars, AdaptorInv, AdaptorTypeOK, EmitterIsConnected

----------------------------------------------------------------------------
(***************************************************************************)
(* The theorems.                                                           *)
(***************************************************************************)
\* The inductive invariant holds.
THEOREM Invariance == BusSpec => []Inv
<1>1. BusInit => Inv
  <2> SUFFICES ASSUME BusInit PROVE Inv
    OBVIOUS
  <2>1. JobsTypeOK /\ Listed
    BY JobsAssumption DEF BusInit, JobsInit, JobsTypeOK, Listed, Idle, HandlerRec, AnyChild
  <2>2. Watches /\ Unseen /\ Sent /\ AnnouncedOnce /\ Waits /\ Synced
    BY DEF BusInit, JobsInit, NoJob, Watches, Unseen, Sent, AnnouncedOnce, Waits, Synced, Idle
  <2>3. AdaptorInv
    <3>1. object = FALSE /\ conn = FALSE /\ nullCall = FALSE
      BY DEF BusInit, AdaptorInit
    <3>2. object \in BOOLEAN /\ conn \in BOOLEAN /\ nullCall \in BOOLEAN /\ ~object /\ ~nullCall
      BY <3>1
    <3>3. /\ calls = <<>> /\ ~(jobs > 0) /\ calls \in Seq(CallRec) /\ jobs \in Nat
          /\ bus = "connecting" /\ name = "unknown" /\ loop = "running"
      BY DEF BusInit, AdaptorInit
    <3> QED  BY <3>2, <3>3 DEF AdaptorInv, AdaptorTypeOK, EmitterIsConnected
  <2> QED  BY <2>1, <2>2, <2>3 DEF Inv, JobsInv
<1>2. Inv /\ [BusNext]_busVars => Inv'
  <2> SUFFICES ASSUME Inv, [BusNext]_busVars PROVE Inv'
    OBVIOUS
  <2>1. CASE JobsNext /\ UNCHANGED adaptorVars
    BY <2>1, JobsNextLemma, AdaptorSame DEF Inv
  <2>2. CASE AdaptorNext /\ UNCHANGED jobsVars
    BY <2>2, AdaptorNextLemma, JobsSame DEF Inv
  <2>3. CASE UNCHANGED busVars
    BY <2>3, JobsSame, AdaptorSame DEF Inv, busVars
  <2> QED  BY <2>1, <2>2, <2>3 DEF BusNext
<1> QED  BY <1>1, <1>2, PTL DEF BusSpec

\* Every variable keeps to its type; no call is answered twice.
THEOREM TypeCorrect == BusSpec => []BusTypeOK
<1>1. Inv => BusTypeOK
  BY DEF Inv, JobsInv, AdaptorInv, BusTypeOK
<1> QED  BY <1>1, Invariance, PTL

\* Every ProcessStateChanged tells the end of a command that has ended, with the status
\* that GLib reaped it with, or with 0 if a handler took it first; it names the id that
\* Execute was called with, is the only one for its process, and goes out on a connection
\* that is there, whoever else waits for children (SignalsAreSound of the adaptor's
\* listener and of addProcessListener).
THEOREM SignalsAreRight == BusSpec => []SignalsAreSound
<1>1. Inv => SignalsAreSound
  BY DEF Inv, JobsInv, Sent, AdaptorInv, SignalsAreSound, SignalsAreTrue, Tells, Gone
<1> QED  BY <1>1, Invariance, PTL

\* WEXITSTATUS is 0 for a process that returned 0 and for one that was killed.
LEMMA SuccessLemma ==
    ASSUME NEW t \in Statuses, WExitStatus(t) = 0
    PROVE  t \in {Exited(0), Killed}
<1>1. CASE t = 0
  BY <1>1 DEF Exited
<1>2. ASSUME NEW c \in ExitCodes, t = Exited(c)
      PROVE  t = Exited(0)
  <2>1. c \in 0..255
    BY JobsAssumption
  <2>2. WExitStatus(t) = c
    BY <1>2, <2>1 DEF WExitStatus, Exited
  <2> QED  BY <1>2, <2>2
<1> QED  BY <1>1, <1>2 DEF Statuses

\* An executeSync that returns true has waited for the process it started, which returned
\* 0 or was killed (SyncSuccessIsOwn of Container::executeSync).
THEOREM SyncReportsItsOwn == BusSpec => []SyncSuccessIsOwn
<1>1. Inv => SyncSuccessIsOwn
  <2> SUFFICES ASSUME Inv PROVE SyncSuccessIsOwn
    OBVIOUS
  <2>1. proc \in Seq(ProcessRec)
    BY DEF Inv, JobsInv, JobsTypeOK
  <2>2. AnyChild \notin DOMAIN proc
    BY <2>1 DEF AnyChild
  <2> SUFFICES ASSUME done.op = "executeSync", done.success
               PROVE  /\ done.own # AnyChild /\ done.pid = done.own
                      /\ proc[done.own].kind = "function" /\ proc[done.own].st = "taken"
                      /\ proc[done.own].status \in {Exited(0), Killed}
    BY DEF SyncSuccessIsOwn
  <2>3. /\ done.pid = done.own /\ done.pid \in DOMAIN proc
        /\ proc[done.pid].kind = "function" /\ proc[done.pid].st = "taken"
        /\ WExitStatus(proc[done.pid].status) = 0
    BY DEF Inv, JobsInv, Synced
  <2>4. proc[done.pid].status \in Statuses
    <3>1. proc[done.pid] \in ProcessRec
      BY <2>1, <2>3
    <3> QED  BY <3>1 DEF ProcessRec, Statuses
  <2> QED  BY <2>2, <2>3, <2>4, SuccessLemma
<1> QED  BY <1>1, Invariance, PTL
=============================================================================
