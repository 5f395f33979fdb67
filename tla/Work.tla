-------------------------------- MODULE Work --------------------------------
(***************************************************************************)
(* The work framework (src/src/work/): a tree of units of work under the   *)
(* work manager, which are run by callbacks of one event loop, fail, wait  *)
(* and try again, and units that run a command as a subprocess             *)
(* (src/src/historywork/RunCommandWork.cpp) through the process manager    *)
(* (src/src/process/ProcessManagerImpl.cpp).                               *)
(*                                                                         *)
(* Operators take and return a record w with the fields                    *)
(*    unit    for every unit, whether it exists, mState, mRetries,         *)
(*            mScheduled, whether mRetryTimer runs, and how many of its    *)
(*            phases (calls of onSuccess that went on) are behind it       *)
(*    posted  the callbacks in the event loop's queue                      *)
(*    procs   mPendingImpls, gImpls and gNumProcessesActive                *)
(* Callbacks hold weak pointers: those of a unit that is gone do nothing,  *)
(* and are dropped with it.  Its process stays, and belongs to nobody.     *)
(***************************************************************************)
EXTENDS Integers, Sequences, FiniteSets, SequencesExt

CONSTANTS
    Unit,           \* the units of work
    Manager,        \* the work manager, parent of the roots
    Nobody,         \* the owner of a process whose unit is gone
    ParentOf,       \* [Unit -> Unit \cup {Manager}]
    UnitOrder,      \* all units, children before parents, siblings by name
    Phases,         \* Phases[u][1]: children u has after onReset; the others:
                    \* children onSuccess adds next, none to run once more
    Rebuilds,       \* units whose onReset clears their children and adds them anew
    Command,        \* units that run a command
    Judge,          \* units whose onSuccess may return WORK_FAILURE_FATAL
    MaxRetries,     \* [Unit -> Nat]
    MAX_CONCURRENT_SUBPROCESSES

VARIABLE wk

Roots == {u \in Unit : ParentOf[u] = Manager}

\* A unit and the units above it.
LineOf[u \in Unit] == {u} \cup IF u \in Roots THEN {} ELSE LineOf[ParentOf[u]]

Subtree(u) == {v \in Unit : u \in LineOf[v]}

\* The units that come with a new u: addWork calls addChild, which resets.
CreatedWith(u) ==
    {v \in Subtree(u) : \A x \in LineOf[v] \ LineOf[u] : x \in Phases[ParentOf[x]][1]}

AbsentUnit == [there |-> FALSE, state |-> "PENDING", retries |-> 0,
               scheduled |-> FALSE, timer |-> FALSE, phase |-> 1]

Children(w, u) == {v \in Unit : ParentOf[v] = u /\ w.unit[v].there}

allChildrenSuccessful(w, u) == \A v \in Children(w, u) : w.unit[v].state = "SUCCESS"
anyChildFatalFailure(w, u) == \E v \in Children(w, u) : w.unit[v].state = "FAILURE_FATAL"
anyChildRaiseFailure(w, u) == \E v \in Children(w, u) : w.unit[v].state = "FAILURE_RAISE"

addWorks(w, us) ==
    [w EXCEPT !.unit = [u \in Unit |-> IF u \in us THEN [AbsentUnit EXCEPT !.there = TRUE]
                                       ELSE w.unit[u]]]

\* Wrong: the exit of the process of a unit that is gone goes to its successor.
clearUnitsButProcesses(w, us) ==
    [w EXCEPT !.unit = [u \in Unit |-> IF u \in us THEN AbsentUnit ELSE w.unit[u]],
              !.posted = SelectSeq(@, LAMBDA c : c.unit \notin us)]

clearUnits(w, us) ==
    [w EXCEPT !.unit = [u \in Unit |-> IF u \in us THEN AbsentUnit ELSE w.unit[u]],
              !.posted = SelectSeq(@, LAMBDA c : c.unit \notin us),
              !.procs.pending = [i \in DOMAIN @ |-> IF @[i] \in us THEN Nobody ELSE @[i]],
              !.procs.running = [o \in DOMAIN @ |->
                  IF o = Nobody THEN @[o] + Cardinality({u \in us : @[u] = 1})
                  ELSE IF o \in us THEN 0 ELSE @[o]]]

-----------------------------------------------------------------------------
(* Scheduling: one callback per unit at a time. *)

schedule(w, u, call) ==
    IF w.unit[u].scheduled THEN w
    ELSE [w EXCEPT !.unit[u].scheduled = TRUE,
                   !.posted = Append(@, [unit |-> u, call |-> call])]

\* What Work::advance schedules for a pending unit.
advanceCall(w, u) ==
    IF allChildrenSuccessful(w, u) THEN "run"
    ELSE IF anyChildFatalFailure(w, u) THEN "FATAL"
    ELSE IF anyChildRaiseFailure(w, u) THEN "FAILURE" ELSE "none"

\* advance goes down through pending units and looks at children first.
\* It changes no unit's state, so the calls can be told in advance.
advance(w, tops) ==
    LET reached(u) == \E t \in tops :
            t \in LineOf[u] /\ \A x \in LineOf[u] \ (LineOf[t] \ {t}) :
                                   w.unit[x].there /\ w.unit[x].state = "PENDING"
        due == SelectSeq(UnitOrder, LAMBDA u : reached(u) /\ ~w.unit[u].scheduled
                                                  /\ advanceCall(w, u) # "none")
    IN  [w EXCEPT !.unit = [u \in Unit |->
                        IF \E i \in DOMAIN due : due[i] = u
                        THEN [w.unit[u] EXCEPT !.scheduled = TRUE] ELSE w.unit[u]],
                  !.posted = @ \o [i \in DOMAIN due |->
                        [unit |-> due[i], call |-> advanceCall(w, due[i])]]]

reset(w, u) ==
    LET p == [w EXCEPT !.unit[u].state = "PENDING"]
    IN  IF u \notin Rebuilds THEN p
        ELSE addWorks(clearUnits([p EXCEPT !.unit[u].phase = 1], Subtree(u) \ {u}),
                      CreatedWith(u) \ {u})

-----------------------------------------------------------------------------
(* Processes. *)

\* Cancelling or destroying the timer of an exit event posts its handler,
\* which is callComplete and does not look at mScheduled.
exitEvents(owners, call) ==
    LET told == SelectSeq(owners, LAMBDA o : o # Nobody)
    IN  [i \in DOMAIN told |-> [unit |-> told[i], call |-> call]]

\* The first n pending processes are tried, those in fails throw: that is
\* logged, the exit event is released, and its handler finds the error code
\* it was created with, which is none.
tryProcesses(w, n, fails) ==
    LET pending == w.procs.pending
        never   == SelectSeq([i \in 1..n |-> i], LAMBDA i : i \in fails)
        owners  == [i \in DOMAIN never |-> pending[never[i]]]
    IN  [w EXCEPT !.procs.pending = SubSeq(@, n + 1, Len(@)),
                  !.procs.running = [o \in DOMAIN @ |->
                      @[o] + Cardinality({i \in 1..n \ fails : pending[i] = o})],
                  !.posted = @ \o exitEvents(owners, "exit 0")]

\* Wrong: an attempt that failed still counts as an active process.
maybeRunPendingProcessesLeak(w, fails) ==
    LET n == IF w.procs.shutdown THEN 0
             ELSE Min({Len(w.procs.pending), MAX_CONCURRENT_SUBPROCESSES - w.procs.active})
    IN  [tryProcesses(w, n, fails) EXCEPT !.procs.active = @ + n]

maybeRunPendingProcesses(w, fails) ==
    LET room  == MAX_CONCURRENT_SUBPROCESSES - w.procs.active
        tried == {i \in DOMAIN w.procs.pending :
                     ~w.procs.shutdown /\ Cardinality(1..(i - 1) \ fails) < room}
    IN  [tryProcesses(w, Cardinality(tried), fails) EXCEPT
            !.procs.active = @ + Cardinality(tried \ fails)]

runProcess(w, u, fails) ==
    maybeRunPendingProcesses([w EXCEPT !.procs.pending = Append(@, u)], fails)

-----------------------------------------------------------------------------
(* Callbacks. *)

\* Work::run: RunCommandWork starts its command in onStart and does nothing
\* in onRun, the others go straight to scheduleSuccess.
runUnit(w, u, fails) ==
    LET start == w.unit[u].state = "PENDING"
        r     == [w EXCEPT !.unit[u].state = "RUNNING"]
    IN  IF u \notin Command THEN schedule(r, u, "OK")
        ELSE IF start THEN runProcess(r, u, fails) ELSE r

\* A unit that is done tells its parent: the manager drops it and advances
\* the other roots, a unit looks at its children again if it is pending.
notifyParent(w, u) ==
    IF u \in Roots THEN LET e == clearUnits(w, Subtree(u)) IN advance(e, Children(e, Manager))
    ELSE advance(w, {ParentOf[u]})

setState(w, u, st) ==
    [w EXCEPT !.unit[u].state =
        IF st = "FAILURE_RETRY" /\ w.unit[u].retries >= MaxRetries[u]
        THEN "FAILURE_RAISE" ELSE st]

scheduleRetry(w, u) ==
    IF w.unit[u].scheduled THEN w
    ELSE [w EXCEPT !.unit[u].scheduled = TRUE, !.unit[u].timer = TRUE]

\* The second half of Work::complete.
completed(w, u) ==
    CASE w.unit[u].state \in {"SUCCESS", "FAILURE_RAISE", "FAILURE_FATAL"} -> notifyParent(w, u)
      [] w.unit[u].state = "FAILURE_RETRY" -> scheduleRetry(w, u)
      [] w.unit[u].state = "PENDING"       -> advance(w, {u})
      [] w.unit[u].state = "RUNNING"       -> schedule(w, u, "run")

\* onSuccess: the next phase if there is one.
nextPhase(w, u) ==
    LET kids == Phases[u][w.unit[u].phase + 1]
        p    == [w EXCEPT !.unit[u].phase = @ + 1]
    IN  IF kids = {} THEN setState(p, u, "RUNNING")
        ELSE addWorks(setState(p, u, "PENDING"), UNION {CreatedWith(v) : v \in kids})

complete(w, u, result, verdict) ==
    CASE result = "FAILURE" -> completed(setState(w, u, "FAILURE_RETRY"), u)
      [] result = "FATAL"   -> completed(setState(w, u, "FAILURE_FATAL"), u)
      [] result = "OK" /\ w.unit[u].phase < Len(Phases[u]) -> completed(nextPhase(w, u), u)
      [] result = "OK" /\ w.unit[u].phase = Len(Phases[u]) -> completed(setState(w, u, verdict), u)

-----------------------------------------------------------------------------
(* The system. *)

NoWork ==
    [unit    |-> [u \in Unit |-> AbsentUnit],
     posted  |-> << >>,
     procs   |-> [pending |-> << >>, running |-> [o \in Unit \cup {Nobody} |-> 0],
                  active |-> 0, shutdown |-> FALSE]]

WorkInit == wk = advance(addWorks(NoWork, UNION {CreatedWith(u) : u \in Roots}), Roots)

Pop(w) == [w EXCEPT !.posted = Tail(@)]

\* The next callback of the event loop is a run.
RunPosted ==
    /\ wk.posted # << >> /\ Head(wk.posted).call = "run"
    /\ LET u == Head(wk.posted).unit
       IN  \E fails \in SUBSET (1..(Len(wk.procs.pending) + 1)) :
              wk' = runUnit([Pop(wk) EXCEPT !.unit[u].scheduled = FALSE], u, fails)

\* It is a completion, by scheduleComplete or by the exit of a process.
CompletePosted ==
    /\ wk.posted # << >> /\ Head(wk.posted).call # "run"
    /\ LET u == Head(wk.posted).unit
           c == Head(wk.posted).call
           w == IF c \in {"exit 0", "exit 1"} THEN Pop(wk)
                ELSE [Pop(wk) EXCEPT !.unit[u].scheduled = FALSE]
           result == CASE c = "exit 0" -> "OK" [] c = "exit 1" -> "FAILURE" [] OTHER -> c
       IN  \E verdict \in IF u \in Judge THEN {"SUCCESS", "FAILURE_FATAL"} ELSE {"SUCCESS"} :
              wk' = complete(w, u, result, verdict)

\* mRetryTimer expires.
RetryTimerExpires(u) ==
    /\ wk.unit[u].timer
    /\ wk' = advance(reset([wk EXCEPT !.unit[u].timer = FALSE, !.unit[u].scheduled = FALSE,
                                      !.unit[u].retries = @ + 1], u), {u})

\* SIGCHLD: a process is reaped, others take its place, then its owner is told.
ProcessExits(o) ==
    /\ ~wk.procs.shutdown /\ wk.procs.running[o] > 0
    /\ \E call \in {"exit 0", "exit 1"}, fails \in SUBSET DOMAIN wk.procs.pending :
          LET w == maybeRunPendingProcesses(
                      [wk EXCEPT !.procs.running[o] = @ - 1, !.procs.active = @ - 1], fails)
          IN  wk' = [w EXCEPT !.posted = @ \o exitEvents(<<o>>, call)]

\* ProcessManagerImpl::shutdown cancels the events of all processes.
ShutdownProcesses ==
    /\ ~wk.procs.shutdown
    /\ LET running == SelectSeq(UnitOrder, LAMBDA u : wk.procs.running[u] > 0)
       IN  wk' = [wk EXCEPT
              !.posted = @ \o exitEvents(wk.procs.pending \o running, "exit 1"),
              !.procs = [pending |-> << >>, running |-> [o \in DOMAIN @.running |-> 0],
                         active |-> 0, shutdown |-> TRUE]]

WorkNext ==
    \/ RunPosted
    \/ CompletePosted
    \/ \E u \in Unit : RetryTimerExpires(u)
    \/ \E o \in Unit \cup {Nobody} : ProcessExits(o)
    \/ ShutdownProcesses

\* The event loop runs what is posted, timers fire and commands end.
WorkFairness ==
    /\ WF_wk(RunPosted) /\ WF_wk(CompletePosted)
    /\ \A u \in Unit : WF_wk(RetryTimerExpires(u))
    /\ \A o \in Unit \cup {Nobody} : WF_wk(ProcessExits(o))

WorkSpec == WorkInit /\ [][WorkNext]_wk /\ WorkFairness

-----------------------------------------------------------------------------
(* Properties. *)

\* RunCommandWork, ProcessManagerImpl: a running command has exactly one of a
\* process that waits or runs and an exit that is on its way, so that it is
\* completed once for every time it was started, by its own process.
OneProcessPerCommand ==
    \A u \in Command : wk.unit[u].there /\ wk.unit[u].state = "RUNNING" =>
        (wk.procs.running[u]
            + Cardinality({i \in DOMAIN wk.procs.pending : wk.procs.pending[i] = u})
            + Cardinality({i \in DOMAIN wk.posted : wk.posted[i].unit = u
                               /\ wk.posted[i].call \in {"exit 0", "exit 1"}})) = 1

\* Work::scheduleRun, scheduleComplete, scheduleRetry: every root ends, through
\* all retries and with every callback that is dropped because another one is
\* scheduled, unless the process manager is shut down.
RootsFinish == <>((\A u \in Roots : ~wk.unit[u].there) \/ wk.procs.shutdown)
=============================================================================
