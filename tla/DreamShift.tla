----------------------------- MODULE DreamShift -----------------------------
(***************************************************************************)
(* One dream shift after another, run by several processes that share one  *)
(* brain.db: run_dream and its bookkeeping (dream/run.py), the Shift every *)
(* strategy receives (dream/shift.py), and the shape of the strategies.    *)
(*                                                                         *)
(* A process is at one database statement or one LLM call at a time; pc    *)
(* names the next one.  Anything may happen between two of its steps: time *)
(* passes, the user comes back, another process dreams, it crashes.        *)
(*                                                                         *)
(* Strategies have one of three shapes:                                    *)
(*   unit   one LLM call and one commit per work unit, keepalive() before  *)
(*          the call (cases, distill, consolidate, peers, contradict,      *)
(*          facts)                                                         *)
(*   batch  scans under tick() and stages, then applies and commits once,  *)
(*          whatever made the scan stop (mine, forget)                     *)
(*   plain  one commit, never looks at the lease (flush, forge, revise,    *)
(*          tune, probes, lane1)                                           *)
(***************************************************************************)
EXTENDS BrainLease, FiniteSets, Sequences

CONSTANTS
    UnitStrategies, BatchStrategies, PlainStrategies,
    Eager,          \* unit strategies that re-read the activity every unit
    Plans,          \* strategy sequences a caller may ask for
    RENEW,          \* RENEW_SECONDS, in ticks
    CheckEvery,     \* _PREEMPT_CHECK_EVERY
    Interval,       \* dream_min_interval_hours, in ticks
    Triggers,       \* how shifts start: "now", "if_due", "resume"
    MayBeOff,       \* strategies the user may switch off
    FaultPoints,    \* statements that may raise `database is locked'
    MaxUnits, MaxStarts, MaxFaults, MaxSleeps   \* bounds of the model

Strategies == UnitStrategies \cup BatchStrategies \cup PlainStrategies

ASSUME ShapesAssumption ==
    /\ UnitStrategies \cap BatchStrategies = {}
    /\ UnitStrategies \cap PlainStrategies = {}
    /\ BatchStrategies \cap PlainStrategies = {}
ASSUME RenewAssumption == RENEW \in Nat /\ RENEW <= TTL
ASSUME CheckAssumption == CheckEvery \in Nat \ {0}
ASSUME BoundsAssumption ==
    /\ Interval \in Nat /\ MaxUnits \in Nat /\ MaxStarts \in Nat
    /\ MaxFaults \in Nat /\ MaxSleeps \in Nat
ASSUME PlansAssumption == Plans \subseteq Seq(Strategies) /\ Plans # {}

VARIABLES
    pc,         \* the statement process p executes next
    age,        \* monotonic ticks since keepalive() last renewed, up to RENEW
    yielded,    \* Shift._preempted
    returned,   \* the user was active after p's baseline
    run,        \* the rest of p's shift: see RunState
    rows,       \* shift_runs, in order of insertion
    cool,       \* strategies whose cooldown_until is in the future
    dueIn,      \* ticks until last_dream_finished + Interval has passed
    stray,      \* history: p's commits while another process held the row
    lag,        \* history: units p began although the user was back
    starts, faults, sleeps      \* history: events used, up to their bounds

local == <<pc, age, yielded, returned, run, stray, lag>>
shared == <<rows, cool, dueIn>>
used == <<starts, faults, sleeps>>
vars == <<lease, mine, local, shared, used>>

-----------------------------------------------------------------------------
Inside == {"loop", "enter", "scan", "ask", "llm", "write", "record", "renew",
           "close"}
Points == {"idle", "due", "lifecycle", "open", "release", "down"} \cup Inside

Entries == {"already_done", "skipped_preempted", "off", "cooldown",
            "ok", "preempted", "error"}
Outcomes == {"running", "aborted", "preempted", "failed", "completed"}

RunState ==
    [plan : Plans,                      \* phase or PIPELINE
     resume : Nat,                      \* resume_shift_id, 0 for None
     id : Nat,                          \* shift_id, 0 for None
     at : Nat \ {0},                    \* position in the plan
     done : SUBSET Strategies,
     entries : SUBSET Entries,          \* kinds of summary["strategies"]
     aborted : BOOLEAN, failed : BOOLEAN,   \* summary["aborted"], ["error"]
     units : Int, staged : BOOLEAN,     \* work left; work staged
     ticks : Nat,                       \* _work_since_check
     result : {"none", "ok", "preempted", "error"}]

NoRun == [plan |-> CHOOSE plan \in Plans : TRUE, resume |-> 0,
          id |-> 0, at |-> 1, done |-> {}, entries |-> {}, aborted |-> FALSE,
          failed |-> FALSE, units |-> 0, staged |-> FALSE, ticks |-> 0,
          result |-> "none"]

Init ==
    /\ LeaseInit
    /\ pc = [p \in Procs |-> "idle"]
    /\ age = [p \in Procs |-> RENEW]
    /\ yielded = [p \in Procs |-> FALSE]
    /\ returned = [p \in Procs |-> FALSE]
    /\ run = [p \in Procs |-> NoRun]
    /\ rows = << >>
    /\ cool = {}
    /\ dueIn = 0
    /\ stray = [p \in Procs |-> 0]
    /\ lag = [p \in Procs |-> 0]
    /\ starts = 0 /\ faults = 0 /\ sleeps = 0

-----------------------------------------------------------------------------
\* Helpers: where p is, and the ways it moves on.

Current(p) == run[p].plan[run[p].at]

Go(p, point) == pc' = [pc EXCEPT ![p] = point]

Set(p, state) == run' = [run EXCEPT ![p] = state]

\* run_dream is over for p, or p is: what it kept in memory is gone.
Leave(p, point) ==
    /\ Go(p, point)
    /\ Set(p, NoRun)
    /\ age' = [age EXCEPT ![p] = RENEW]
    /\ yielded' = [yielded EXCEPT ![p] = FALSE]
    /\ returned' = [returned EXCEPT ![p] = FALSE]
    /\ stray' = [stray EXCEPT ![p] = 0]
    /\ lag' = [lag EXCEPT ![p] = 0]

\* _run_one is back: the strategy's entry is one of ok, preempted, error.
Return(p, result) ==
    /\ Go(p, "record")
    /\ Set(p, [run[p] EXCEPT !.result = result])

\* is_due(): nobody holds the lease and the last finished shift is old enough.
IsDue == HeldBy = NoProc /\ dueIn = 0

-----------------------------------------------------------------------------
\* A trigger: `dream --now [--phase X]' at any time, `dream --if-due' and the
\* idle worker only when due.  Only a caller of run_dream itself can resume.
Start(p) ==
    /\ pc[p] = "idle" /\ starts < MaxStarts
    /\ \E plan \in Plans, trigger \in Triggers, id \in 0..Len(rows) :
        /\ trigger = "if_due" => IsDue
        /\ IF trigger = "resume" THEN id # 0 /\ rows[id].outcome # "completed"
                                 ELSE id = 0
        /\ Set(p, [NoRun EXCEPT !.plan = plan, !.resume = id])
    /\ Go(p, "due")
    /\ starts' = starts + 1
    /\ UNCHANGED <<lease, mine, age, yielded, returned, stray, lag, shared,
                   faults, sleeps>>

\* lease.acquire, or {"skipped": "lease_held"}.
Acquire(p) ==
    /\ pc[p] = "due"
    /\ \/ /\ AcquireLease(p) /\ Go(p, "lifecycle")
          /\ UNCHANGED <<age, yielded, returned, run, stray, lag>>
       \/ ~Acquires(p) /\ Leave(p, "idle") /\ UNCHANGED leaseVars
    /\ UNCHANGED <<shared, used>>

\* apply_legacy_retention and expire_due, before the shift row exists.
Lifecycle(p) ==
    /\ pc[p] = "lifecycle"
    /\ Go(p, "open")
    /\ UNCHANGED <<leaseVars, age, yielded, returned, run, stray, lag, shared,
                   used>>

\* _open_shift and a new Shift with its activity baseline; _last_renew is 0,
\* so the first keepalive renews.
Open(p) ==
    /\ pc[p] = "open"
    /\ IF run[p].resume # 0
       THEN /\ Set(p, [run[p] EXCEPT !.id = run[p].resume,
                                     !.done = rows[run[p].resume].done])
            /\ UNCHANGED rows
       ELSE /\ Set(p, [run[p] EXCEPT !.id = Len(rows) + 1])
            /\ rows' = Append(rows, [done |-> {}, outcome |-> "running"])
    /\ Go(p, "loop")
    /\ UNCHANGED <<leaseVars, age, yielded, returned, stray, lag, cool, dueIn,
                   used>>

\* shift.preempted() answers, and remembers a True in _preempted.
Preempted(p) == yielded[p] \/ returned[p]
NotePreempted(p) == yielded' = [yielded EXCEPT ![p] = Preempted(p)]

\* `continue' in run_dream's loop, with this entry.
Skip(p, entry) ==
    /\ Set(p, [run[p] EXCEPT !.at = @ + 1, !.entries = @ \cup {entry}])
    /\ UNCHANGED pc

EntryPoint(s) ==
    IF s \in UnitStrategies THEN "enter"
    ELSE IF s \in BatchStrategies THEN "scan" ELSE "write"

\* The head of run_dream's loop.  A mode can be switched to off by `dream
\* --disable' at any moment, so any strategy may be found off.
Loop(p) ==
    /\ pc[p] = "loop"
    /\ IF run[p].at > Len(run[p].plan)
       THEN Go(p, "close") /\ UNCHANGED <<run, yielded>>
       ELSE LET s == Current(p) IN
            IF s \in run[p].done
            THEN Skip(p, "already_done") /\ UNCHANGED yielded
            ELSE /\ NotePreempted(p)
                 /\ IF Preempted(p) THEN Skip(p, "skipped_preempted")
                    ELSE \/ s \in MayBeOff /\ Skip(p, "off")
                         \/ s \in cool /\ Skip(p, "cooldown")
                         \/ /\ s \notin cool
                            /\ Go(p, EntryPoint(s))
                            /\ \E n \in 0..MaxUnits :
                                 Set(p, [run[p] EXCEPT !.units = n,
                                           !.staged = s \in PlainStrategies])
    /\ UNCHANGED <<leaseVars, age, returned, stray, lag, shared, used>>

\* `if shift.preempted(): return {"preempted": True}' opens a unit strategy.
Enter(p) ==
    /\ pc[p] = "enter"
    /\ NotePreempted(p)
    /\ IF Preempted(p) THEN Return(p, "preempted")
       ELSE Go(p, "scan") /\ UNCHANGED run
    /\ UNCHANGED <<leaseVars, age, returned, stray, lag, shared, used>>

-----------------------------------------------------------------------------
\* keepalive(): True without a look at the row if it renewed less than RENEW
\* ago; otherwise the row decides, and a loss is remembered.
Recent(p) == age[p] < RENEW
KeptAlive(p) == ~yielded[p] /\ (Recent(p) \/ Renews(p))

KeepaliveTrue(p) ==
    /\ KeptAlive(p)
    /\ IF Recent(p) THEN UNCHANGED <<leaseVars, age>>
       ELSE RenewLease(p) /\ age' = [age EXCEPT ![p] = 0]

KeepaliveFalse(p) ==
    /\ ~KeptAlive(p)
    /\ yielded' = [yielded EXCEPT ![p] = TRUE]
    /\ age' = IF yielded[p] THEN age ELSE [age EXCEPT ![p] = 0]
    /\ UNCHANGED leaseVars

\* What a scan does when tick() answers False: a unit strategy returns, a
\* batch strategy only leaves its loop.
Yield(p) ==
    IF Current(p) \in BatchStrategies THEN Go(p, "write") /\ UNCHANGED run
    ELSE Return(p, "preempted")

\* Mutant of Checks: `>' for `>='.
ChecksLate(p) == run[p].ticks + 1 > CheckEvery \/ Current(p) \in Eager

\* The activity is read at every CheckEvery-th tick, and by an eager strategy
\* at every unit.
Checks(p) == run[p].ticks + 1 >= CheckEvery \/ Current(p) \in Eager

BeginUnit(p) ==
    /\ Go(p, IF Current(p) \in BatchStrategies THEN "scan" ELSE "ask")
    /\ Set(p, [run[p] EXCEPT
                 !.ticks = IF @ + 1 >= CheckEvery THEN 0 ELSE @ + 1,
                 !.units = IF Current(p) \in BatchStrategies THEN @ - 1 ELSE @,
                 !.staged = Current(p) \in BatchStrategies])
    /\ lag' = [lag EXCEPT ![p] = IF returned[p] THEN @ + 1 ELSE @]

\* The next work unit, under tick(); or the work is over.
Scan(p) ==
    /\ pc[p] = "scan"
    /\ \/ /\ run[p].units = 0
          /\ IF Current(p) \in BatchStrategies
             THEN Go(p, "write") /\ UNCHANGED run ELSE Return(p, "ok")
          /\ UNCHANGED <<leaseVars, age, yielded, lag>>
       \/ /\ run[p].units > 0 /\ KeepaliveFalse(p)
          /\ Yield(p) /\ UNCHANGED lag
       \/ /\ run[p].units > 0 /\ KeepaliveTrue(p)
          /\ IF Checks(p) /\ returned[p]
             THEN /\ yielded' = [yielded EXCEPT ![p] = TRUE]
                  /\ Yield(p) /\ UNCHANGED lag
             ELSE BeginUnit(p) /\ UNCHANGED yielded
    /\ UNCHANGED <<returned, stray, shared, used>>

\* keepalive() before the LLM call.
Ask(p) ==
    /\ pc[p] = "ask"
    /\ \/ KeepaliveTrue(p) /\ Go(p, "llm") /\ UNCHANGED <<yielded, run>>
       \/ KeepaliveFalse(p) /\ Return(p, "preempted")
    /\ UNCHANGED <<returned, stray, lag, shared, used>>

\* Mutant of LlmReturns: an unavailable LLM is asked for the same unit again.
LlmRetries(p) ==
    /\ pc[p] = "llm"
    /\ \/ Go(p, "write") /\ Set(p, [run[p] EXCEPT !.staged = TRUE])
       \/ Go(p, "scan") /\ UNCHANGED run
    /\ UNCHANGED <<leaseVars, age, yielded, returned, stray, lag, shared, used>>

\* The call comes back after any time, with an answer or LLMUnavailable; the
\* unit is then deferred and the strategy stops asking.
LlmReturns(p) ==
    /\ pc[p] = "llm"
    /\ \/ Go(p, "write") /\ Set(p, [run[p] EXCEPT !.staged = TRUE])
       \/ Return(p, "ok")
    /\ UNCHANGED <<leaseVars, age, yielded, returned, stray, lag, shared, used>>

\* The strategy commits what it has: one unit, one batch, or its only write.
Write(p) ==
    /\ pc[p] = "write"
    /\ stray' = [stray EXCEPT ![p] =
                   IF run[p].staged /\ lease.holder # p THEN @ + 1 ELSE @]
    /\ IF Current(p) \in UnitStrategies
       THEN Go(p, "scan") /\ Set(p, [run[p] EXCEPT !.units = @ - 1])
       ELSE Return(p, "ok")
    /\ UNCHANGED <<leaseVars, age, yielded, returned, lag, shared, used>>

-----------------------------------------------------------------------------
\* The entry goes into the summary; unless it is an error, the strategy is
\* recorded done.  A strategy that yielded answered {"preempted": True}, which
\* the test on entry["skipped"] does not see.
Record(p) ==
    /\ pc[p] = "record"
    /\ LET r == run[p].result
           done == IF r = "error" THEN run[p].done
                   ELSE run[p].done \cup {Current(p)} IN
       /\ Set(p, [run[p] EXCEPT !.entries = @ \cup {r}, !.done = done])
       /\ rows' = IF r = "error" THEN rows
                  ELSE [rows EXCEPT ![run[p].id].done = done]
    /\ Go(p, "renew")
    /\ UNCHANGED <<leaseVars, age, yielded, returned, stray, lag, cool, dueIn,
                   used>>

\* Mutant of Renew: the answer of lease.renew is ignored.
RenewUnchecked(p) ==
    /\ pc[p] = "renew"
    /\ \/ RenewLease(p)
       \/ ~Renews(p) /\ UNCHANGED leaseVars
    /\ Go(p, "loop")
    /\ Set(p, [run[p] EXCEPT !.at = @ + 1, !.result = "none"])
    /\ UNCHANGED <<age, yielded, returned, stray, lag, shared, used>>

\* lease.renew after every strategy; a lost lease ends the pipeline.
Renew(p) ==
    /\ pc[p] = "renew"
    /\ \/ /\ RenewLease(p)
          /\ Go(p, "loop")
          /\ Set(p, [run[p] EXCEPT !.at = @ + 1, !.result = "none"])
       \/ /\ ~Renews(p)
          /\ Go(p, "close")
          /\ Set(p, [run[p] EXCEPT !.aborted = TRUE])
          /\ UNCHANGED leaseVars
    /\ UNCHANGED <<age, yielded, returned, stray, lag, shared, used>>

\* Mutant of Outcome: an entry with an error does not count.
OutcomeSparesErrors(r) ==
    IF r.aborted THEN "aborted"
    ELSE IF "skipped_preempted" \in r.entries THEN "preempted"
    ELSE "completed"

\* _close_shift derives the outcome from the entries alone.
Outcome(r) ==
    IF r.aborted THEN "aborted"
    ELSE IF "skipped_preempted" \in r.entries THEN "preempted"
    ELSE IF "error" \in r.entries THEN "failed"
    ELSE "completed"

Close(p) ==
    /\ pc[p] = "close"
    /\ rows' = [rows EXCEPT ![run[p].id].outcome = Outcome(run[p])]
    /\ dueIn' = Interval
    /\ Go(p, "release")
    /\ UNCHANGED <<leaseVars, age, yielded, returned, run, stray, lag, cool,
                   used>>

Release(p) ==
    /\ pc[p] = "release"
    /\ ReleaseLease(p)
    /\ Leave(p, "idle")
    /\ UNCHANGED <<shared, used>>

-----------------------------------------------------------------------------
\* `database is locked', or any exception, at p's next statement.  Inside a
\* strategy _run_one rolls back and marks the failure; between strategies
\* run_dream's except clause does; in the finally clause nothing does.  A
\* keepalive that raises has set _last_renew without renewing.
Fault(p) ==
    /\ pc[p] \in FaultPoints /\ faults < MaxFaults
    /\ faults' = faults + 1
    /\ \/ /\ pc[p] \in {"enter", "scan", "ask", "llm", "write"}
          /\ Return(p, "error")
          /\ cool' \in {cool, cool \cup {Current(p)}}
          /\ age' \in {age, [age EXCEPT ![p] = 0]}
          /\ UNCHANGED <<yielded, returned, stray, lag>>
       \/ /\ pc[p] \in {"lifecycle", "open"}
          /\ Go(p, "release")
          /\ UNCHANGED <<run, cool, age, yielded, returned, stray, lag>>
       \/ /\ pc[p] \in {"loop", "record", "renew"}
          /\ Go(p, "close")
          /\ Set(p, [run[p] EXCEPT !.failed = TRUE])
          /\ UNCHANGED <<cool, age, yielded, returned, stray, lag>>
       \/ /\ pc[p] \in {"due", "close", "release"}
          /\ Leave(p, "idle")
          /\ UNCHANGED cool
    /\ UNCHANGED <<leaseVars, rows, dueIn, starts, sleeps>>

\* The process is killed.  Its row and its lease stay as they are, and no
\* later process has its holder tag, which contains the pid.
Crash(p) ==
    /\ pc[p] \notin {"idle", "down"}
    /\ Leave(p, "down")
    /\ UNCHANGED <<leaseVars, shared, used>>

\* activity.last_seen moves past every baseline taken so far.
Activity ==
    /\ returned' = [p \in Procs |-> pc[p] \in Inside]
    /\ UNCHANGED <<leaseVars, pc, age, yielded, run, stray, lag, shared, used>>

CooldownEnds ==
    /\ cool # {}
    /\ cool' = {}
    /\ UNCHANGED <<leaseVars, local, rows, dueIn, used>>

\* Wall clock and monotonic clock advance together.
Tick ==
    /\ PassTime
    /\ age' = [p \in Procs |-> IF age[p] < RENEW THEN age[p] + 1 ELSE RENEW]
    /\ dueIn' = IF dueIn > 0 THEN dueIn - 1 ELSE 0
    /\ UNCHANGED <<pc, yielded, returned, run, stray, lag, rows, cool, used>>

\* The machine sleeps past the TTL: the wall clock moves, time.monotonic()
\* does not.
Sleep ==
    /\ sleeps < MaxSleeps
    /\ sleeps' = sleeps + 1
    /\ lease' = [lease EXCEPT !.left = Expired]
    /\ mine' = [p \in Procs |-> Expired]
    /\ UNCHANGED <<local, shared, starts, faults>>

-----------------------------------------------------------------------------
\* p's own steps, once it was started and as long as it lives.
Step(p) ==
    \/ Acquire(p) \/ Lifecycle(p) \/ Open(p) \/ Loop(p) \/ Enter(p)
    \/ Scan(p) \/ Ask(p) \/ LlmReturns(p) \/ Write(p)
    \/ Record(p) \/ Renew(p) \/ Close(p) \/ Release(p)

Next ==
    \/ \E p \in Procs : Start(p) \/ Step(p) \/ Fault(p) \/ Crash(p)
    \/ Activity \/ CooldownEnds \/ Tick \/ Sleep

Spec == Init /\ [][Next]_vars

\* A live process goes on (LLM calls time out), and so does the clock.  No
\* fairness for triggers, faults, crashes, or the user.
FairSpec ==
    /\ Spec
    /\ \A p \in Procs : WF_vars(Step(p))
    /\ WF_vars(Tick)

-----------------------------------------------------------------------------
Row == [done : SUBSET Strategies, outcome : Outcomes]

TypeOK ==
    /\ LeaseTypeOK
    /\ pc \in [Procs -> Points]
    /\ age \in [Procs -> 0..RENEW]
    /\ yielded \in [Procs -> BOOLEAN]
    /\ returned \in [Procs -> BOOLEAN]
    /\ run \in [Procs -> RunState]
    /\ rows \in Seq(Row)
    /\ cool \in SUBSET Strategies
    /\ dueIn \in 0..Interval
    /\ stray \in [Procs -> Nat] /\ lag \in [Procs -> Nat]
    /\ starts \in 0..MaxStarts /\ faults \in 0..MaxFaults
    /\ sleeps \in 0..MaxSleeps

\* A process whose lease another one took commits at most once more in the
\* same shift: its next keepalive or renewal notices, unless the machine slept
\* and with it the clock that keepalive trusts (time.monotonic).
OneStrayCommit == sleeps = 0 => \A p \in Procs : stray[p] <= 1

\* The user is back: a shift begins fewer than CheckEvery more work units,
\* however its strategies divide them.
PromptYield == \A p \in Procs : lag[p] < CheckEvery

\* However run_dream ends, other than by a crash, it has given up the lease
\* (run.py: "the lease is always freed").
FreedOnExit == \A p \in Procs : pc[p] \in {"idle", "due"} => lease.holder # p

\* A shift closed as completed, with no strategy off or cooling down, has
\* every strategy of its plan in phases_done, the column a resume trusts.
CompletedIsDone ==
    [][\A p \in Procs :
        /\ Close(p)
        /\ rows'[run[p].id].outcome = "completed"
        /\ run[p].entries \cap {"off", "cooldown"} = {}
        => {run[p].plan[i] : i \in 1..Len(run[p].plan)}
              \subseteq rows'[run[p].id].done]_vars

\* run.py: "Only mark a strategy done if it actually completed (not
\* errored/preempted) so an idempotent resume re-runs it".
YieldedNotDone ==
    [][\A p \in Procs :
        Record(p) /\ run[p].result = "preempted"
        => Current(p) \notin rows'[run[p].id].done]_vars

\* Every shift of a live process ends.
ShiftEnds ==
    \A p \in Procs : pc[p] \in Inside ~> pc[p] \in {"idle", "due", "down"}

\* Whatever crashed while it held the row, the row can be taken again.
LeaseComesBack == []<>Acquirable
=============================================================================
