------------------------------ MODULE LlmBudget ------------------------------
(***************************************************************************)
(* Every LLM call of the plugin (llm.py) passes a gate that reads what the *)
(* day's ledger holds, reaches the provider, and is metered afterwards.    *)
(* Several processes call at once.  A caller in the middle of its own      *)
(* transaction has the ledger row ride that transaction; any other has it  *)
(* committed on a side connection (store/db.py commit_isolated).           *)
(***************************************************************************)
EXTENDS Integers, FiniteSets, FiniteSetsExt, Functions

CONSTANTS
    Callers,        \* processes that call
    Budget,         \* day_budget_usd, in units of Costs
    Costs,          \* what one call may cost
    NoCaller,
    MaxDays, MaxSpent, MaxStopped, MaxWorks   \* bounds

ASSUME CallersAssumption == NoCaller \notin Callers /\ IsFiniteSet(Callers)
ASSUME BudgetAssumption ==
    /\ Budget \in Nat /\ IsFiniteSet(Costs)
    /\ Costs \subseteq Nat \ {0} /\ Costs # {}
ASSUME LlmBoundsAssumption == {MaxDays, MaxSpent, MaxStopped, MaxWorks} \subseteq Nat

VARIABLES
    ledger,         \* committed llm_ledger rows: their sum, by day
    txOwner,        \* the caller whose transaction holds the write lock
    riding,         \* ledger rows of that transaction, by day
    own,            \* writes of its own in that transaction
    kept,           \* writes of every caller that are durable
    calling,        \* per caller: its step, attempt and unmetered cost
    day,
    spent, lost,    \* history, by day: cost of the calls, cost no row kept
    owed,           \* history: writes whose caller committed them
    stopped         \* history: processes that died

llmVars == <<ledger, txOwner, riding, own, kept, calling, day, spent, lost,
             owed, stopped>>
txVars == <<txOwner, riding, own, kept, owed>>

Days == 0..MaxDays
NoSpend == [d \in Days |-> 0]
Quiet == [step |-> "idle", attempt |-> 1, cost |-> 0, reply |-> "none"]
InTx(c) == txOwner = c
Plus(sums, d, n) == [sums EXCEPT ![d] = @ + n]
Both(a, b) == [d \in Days |-> a[d] + b[d]]

LlmInit ==
    /\ ledger = NoSpend /\ riding = NoSpend /\ spent = NoSpend /\ lost = NoSpend
    /\ txOwner = NoCaller /\ own = 0 /\ kept = 0 /\ owed = 0
    /\ calling = [c \in Callers |-> Quiet]
    /\ day = 0 /\ stopped = 0

\* The caller writes something of its own: its transaction takes the lock.
Works(c) ==
    /\ calling[c].step = "idle" /\ txOwner \in {c, NoCaller} /\ own = 0 /\ kept < MaxWorks
    /\ txOwner' = c /\ own' = 1
    /\ UNCHANGED <<ledger, riding, kept, calling, day, spent, lost, owed, stopped>>

CallerCommits(c) ==
    /\ calling[c].step = "idle" /\ InTx(c)
    /\ ledger' = Both(ledger, riding) /\ riding' = NoSpend
    /\ kept' = kept + own /\ owed' = owed + own /\ own' = 0
    /\ txOwner' = NoCaller
    /\ UNCHANGED <<calling, day, spent, lost, stopped>>

\* What a rollback undoes, the ledger rows that rode along with it.
Undo ==
    /\ lost' = Both(lost, riding) /\ riding' = NoSpend
    /\ own' = 0 /\ txOwner' = NoCaller
CallerRollsBack(c) ==
    /\ calling[c].step = "idle" /\ InTx(c)
    /\ Undo
    /\ UNCHANGED <<ledger, kept, calling, day, spent, owed, stopped>>

\* The sum _budget_gate reads on the caller's own connection.
SpentToday(c) == ledger[day] + IF InTx(c) THEN riding[day] ELSE 0

\* _budget_gate, at the head of call_text and call_query_rewrite.
Gate(c) ==
    /\ calling[c].step \in {"idle", "again"}
    /\ SpentToday(c) <= Budget
    /\ calling' = [calling EXCEPT ![c].step = "asking"]
    /\ UNCHANGED <<ledger, txVars, day, spent, lost, stopped>>

\* _budget_gate refuses a retry; _aux_call and call_query_rewrite find no host.
GivesUp(c) ==
    /\ \/ calling[c].step = "again" /\ SpentToday(c) > Budget
       \/ calling[c].step = "asking" /\ calling[c].attempt = 1
    /\ calling' = [calling EXCEPT ![c] = Quiet]
    /\ UNCHANGED <<ledger, txVars, day, spent, lost, stopped>>

\* The provider answers with JSON or with junk, or fails or says nothing.
Asks(c, cost, reply) ==
    /\ calling[c].step = "asking" /\ FoldFunction(+, 0, spent) < MaxSpent
    /\ spent' = Plus(spent, day, cost)
    /\ calling' = [calling EXCEPT ![c] =
            [@ EXCEPT !.step = "metering", !.cost = cost, !.reply = reply]]
    /\ UNCHANGED <<ledger, txVars, day, lost, stopped>>

\* call_json goes on after a reply it cannot parse, once.
AfterMeter(c) ==
    IF calling[c].reply = "junk" /\ calling[c].attempt = 1
    THEN [Quiet EXCEPT !.step = "again", !.attempt = 2]
    ELSE Quiet

\* Mutant of Metered: a call that gave nothing is not metered.
MeteredIfUseful(c) == calling[c].reply \in {"json", "junk"}
\* _aux_call and call_query_rewrite: which replies get a ledger row.
Metered(c) == calling[c].reply \in {"json", "junk", "failed"}

\* Mutant of Meter: the row is committed on the caller's connection.
MeterCommitting(c) ==
    /\ calling[c].step = "metering" /\ (InTx(c) \/ txOwner = NoCaller)
    /\ ledger' = Plus(Both(ledger, riding), day, calling[c].cost)
    /\ riding' = NoSpend
    /\ kept' = kept + own /\ own' = 0
    /\ txOwner' = NoCaller
    /\ calling' = [calling EXCEPT ![c] = AfterMeter(c)]
    /\ UNCHANGED <<day, spent, lost, owed, stopped>>
\* _meter and commit_isolated: inline in the caller's transaction, or on a
\* side connection that needs the write lock.
Meter(c) ==
    /\ calling[c].step = "metering"
    /\ LET cost == IF Metered(c) THEN calling[c].cost ELSE 0
       IN \/ /\ InTx(c)
             /\ riding' = Plus(riding, day, cost) /\ UNCHANGED ledger
          \/ /\ txOwner = NoCaller
             /\ ledger' = Plus(ledger, day, cost) /\ UNCHANGED riding
    /\ calling' = [calling EXCEPT ![c] = AfterMeter(c)]
    /\ UNCHANGED <<txOwner, own, kept, owed, day, spent, lost, stopped>>

\* commit_isolated gives up after five seconds of another's transaction.
MeterLost(c) ==
    /\ calling[c].step = "metering" /\ txOwner \notin {c, NoCaller}
    /\ lost' = Plus(lost, day, calling[c].cost)
    /\ calling' = [calling EXCEPT ![c] = AfterMeter(c)]
    /\ UNCHANGED <<ledger, txVars, day, spent, stopped>>

Midnight ==
    /\ day < MaxDays
    /\ day' = day + 1
    /\ UNCHANGED <<ledger, txVars, calling, spent, lost, stopped>>

\* A process dies; what it was charged for and did not meter is lost.
Stops(c) ==
    /\ stopped < MaxStopped /\ calling[c].step # "idle"
    /\ stopped' = stopped + 1
    /\ LET gone == Plus(lost, day, calling[c].cost)
       IN IF InTx(c)
          THEN /\ lost' = Both(gone, riding) /\ riding' = NoSpend
               /\ own' = 0 /\ txOwner' = NoCaller
          ELSE lost' = gone /\ UNCHANGED <<txOwner, riding, own>>
    /\ calling' = [calling EXCEPT ![c] = Quiet]
    /\ UNCHANGED <<ledger, kept, owed, day, spent>>

LlmNext ==
    \/ Midnight
    \/ \E c \in Callers :
        \/ Works(c) \/ CallerCommits(c) \/ CallerRollsBack(c)
        \/ Gate(c) \/ GivesUp(c) \/ Meter(c) \/ MeterLost(c) \/ Stops(c)
        \/ \E cost \in Costs, reply \in {"json", "junk", "failed"} :
                Asks(c, cost, reply)

LlmTypeOK ==
    /\ {ledger, riding, spent, lost} \subseteq [Days -> Nat]
    /\ txOwner \in Callers \cup {NoCaller}
    /\ {own, kept, owed, day, stopped} \subseteq Nat
    /\ calling \in [Callers -> [step : {"idle", "asking", "metering", "again"},
            attempt : 1..2, cost : Costs \cup {0},
            reply : {"none", "json", "junk", "failed"}]]

\* Whatever races, a day costs no more than its budget, one call of every
\* process that was past the gate, and the calls whose ledger row a rollback,
\* the lock or a crash took: a call that fails or says nothing counts too
\* (_budget_gate reads the ledger before the call, _meter writes it after).
BudgetHolds == \A d \in Days :
    spent[d] <= Budget + Cardinality(Callers) * Max(Costs) + lost[d]

\* An unfinished unit of work never becomes durable through a call it makes:
\* metering does not commit the caller's transaction (commit_isolated).
OnlyCallerCommits == kept = owed
=============================================================================
