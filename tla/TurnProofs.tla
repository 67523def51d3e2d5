----------------------------- MODULE TurnProofs -----------------------------
(***************************************************************************)
(* The memory provider, for any sessions, configurations and number of     *)
(* turns, switches, faults and lives: every turn is kept, once and in      *)
(* order, no retrieval is dropped but by a reset, neither an episode nor   *)
(* lane 1 passes for more trusted than it is, and a turn is credited with  *)
(* the block it was served.  And the retrieval, for any rows, indexes,     *)
(* identities and writes beside it: no row reaches a session it is not     *)
(* for, no block is older than its retrieval, and a linked profile is      *)
(* heard.                                                                  *)
(***************************************************************************)
EXTENDS ProviderWorker, Recall, SequenceTheorems, FiniteSetTheorems,
        WellFoundedInduction, TLAPS

Work == [kind : {"turn", "retrieve", "marker", "sentinel"},
         sid : Sessions \cup {Sentinel}, turn : 0..MaxTurns]
JobsOf(q) == {q[i] : i \in DOMAIN q}
TurnsIn(q) == {task \in JobsOf(q) : task.kind = "turn"}

-----------------------------------------------------------------------------
\* The inductive invariant.
\* A provider that was initialised is in a session it knows, and knows
\* nobody in those it was never initialised for.
Placed ==
    /\ host # "off" => session # None
    /\ session = None => host = "off" /\ worker.at = "none" /\ queue = << >> /\ lane1 = "static"
    /\ session # None => identity[session] # None
    /\ \A s \in Guests : identity[s] = None

\* A job is of a turn that was said, in the session it was said in.
JobTrue(task) ==
    task.kind \in {"turn", "retrieve"} =>
        /\ task.turn \in DOMAIN said
        /\ task.sid = said[task.turn].sid
        /\ task.kind = "turn" => said[task.turn].kept
JobsTrue ==
    /\ \A task \in JobsOf(queue) : JobTrue(task)
    /\ worker.at = "search" => worker.turn \in DOMAIN said /\ worker.sid \in Sessions
    /\ \A i \in DOMAIN captured : captured[i].turn \in DOMAIN said
    /\ \A d \in dropped : d.turn \in DOMAIN said

\* The turns come in order: the episodes, then the queue.
Rising(q) ==
    \A i, j \in DOMAIN q : i < j /\ q[i].kind = "turn" /\ q[j].kind = "turn" => q[i].turn < q[j].turn
Before(done, q) ==
    \A i \in DOMAIN done : \A task \in TurnsIn(q) : done[i].turn < task.turn
QueueInOrder == Rising(queue) /\ Before(captured, queue)

\* Only after a join that timed out does a provider that is off have a thread
\* or jobs, one that is up have none or a sentinel, or come a job after it.
EarlyEnd(q) == \E i \in DOMAIN q : i < Len(q) /\ q[i].kind = "sentinel"
TimedOut ==
    \/ host = "off" /\ (queue # << >> \/ worker.at # "none")
    \/ host = "up" /\ (worker.at = "none" \/ \E task \in JobsOf(queue) : task.kind = "sentinel")
    \/ host = "joining" /\ worker.at = "none" /\ queue # << >>
    \/ host = "joining" /\ EarlyEnd(queue)

\* The trust of the session, when the database opens.  It has another only if
\* the database did not open.
Own == IF person = "stranger" THEN "known_user" ELSE "owner"
Counted ==
    /\ TimedOut => faults > 0
    /\ session # None /\ identity[session] # Own =>
        person = "enrolled" /\ faults > 0 /\ (TimedOut => faults > 1)

\* A turn that waits will be captured with the trust it was said with, or
\* with none since its session was left.
Steady == person # "enrolled" \/ faults < 2
TrustTrue(task) ==
    LET turn == said[task.turn]
    IN /\ task.sid \in Guests => turn.trust = "known_user"
       /\ task.sid \in Mains /\ Steady =>
            /\ turn.trust = identity[session]
            /\ IdentityFor(task.sid) \in {turn.trust, "known_user"}
            /\ IdentityFor(task.sid) = turn.trust \/ task.sid \in left
TrustsTrue == \A task \in TurnsIn(queue) : TrustTrue(task)

\* A retrieval that waits will be wanted, but for what OnlyResetDrops names.
Followed(task) ==
    LET turn == said[task.turn]
        s == Renamed(task.sid)
    IN task.kind = "retrieve" /\ turn.kept =>
        \/ turn.resumed \/ task.sid \in away \cup twice
        \/ s \in counted \cup away \/ alias[s] # None
AllFollowed == \A task \in JobsOf(queue) : Followed(task)

TurnInv ==
    /\ ProviderTypeOK
    /\ Placed /\ JobsTrue /\ QueueInOrder /\ Counted /\ TrustsTrue /\ AllFollowed
    /\ JobsKept /\ TrustHeld

-----------------------------------------------------------------------------
\* What is left of a queue when its first job is taken.
LEMMA TailOf ==
    ASSUME NEW q \in Seq(Work), q # << >>
    PROVE  /\ Tail(q) \in Seq(Work) /\ Head(q) \in Work
           /\ JobsOf(q) = JobsOf(Tail(q)) \cup {Head(q)}
           /\ Rising(q) => Rising(Tail(q))
           /\ Rising(q) /\ Head(q).kind = "turn" =>
                \A task \in TurnsIn(Tail(q)) : Head(q).turn < task.turn
           /\ EarlyEnd(Tail(q)) => EarlyEnd(q)
           /\ Tail(q) # << >> /\ Head(q).kind = "sentinel" => EarlyEnd(q)
<1>1. /\ Tail(q) \in Seq(Work) /\ Head(q) = q[1] /\ 1 \in DOMAIN q /\ DOMAIN q = 1..Len(q)
      /\ Len(q) \in Nat \ {0} /\ Len(Tail(q)) = Len(q) - 1 /\ DOMAIN Tail(q) = 1..(Len(q) - 1)
      /\ \A i \in DOMAIN Tail(q) : Tail(q)[i] = q[i + 1] /\ i + 1 \in DOMAIN q
  OBVIOUS
<1>2. Head(q) \in Work
  BY <1>1
<1>3. JobsOf(q) = JobsOf(Tail(q)) \cup {Head(q)}
  <2>1. ASSUME NEW i \in DOMAIN q
        PROVE  q[i] \in JobsOf(Tail(q)) \cup {Head(q)}
    <3>1. CASE i = 1
      BY <1>1, <3>1
    <3>2. CASE i # 1
      <4>1. i - 1 \in DOMAIN Tail(q) /\ (i - 1) + 1 = i
        BY <1>1, <3>2
      <4> QED
        BY <1>1, <4>1 DEF JobsOf
    <3> QED
      BY <3>1, <3>2
  <2>2. JobsOf(Tail(q)) \cup {Head(q)} \subseteq JobsOf(q)
    BY <1>1 DEF JobsOf
  <2> QED
    BY <2>1, <2>2 DEF JobsOf
<1>4. Rising(q) => Rising(Tail(q))
  <2>1. SUFFICES ASSUME Rising(q), NEW i \in DOMAIN Tail(q), NEW j \in DOMAIN Tail(q), i < j,
                        Tail(q)[i].kind = "turn", Tail(q)[j].kind = "turn"
                 PROVE  Tail(q)[i].turn < Tail(q)[j].turn
    BY DEF Rising
  <2>2. i + 1 < j + 1
    BY <1>1, <2>1
  <2> QED
    BY <1>1, <2>1, <2>2 DEF Rising
<1>5. ASSUME Rising(q), Head(q).kind = "turn", NEW task \in TurnsIn(Tail(q))
      PROVE  Head(q).turn < task.turn
  <2>1. PICK i \in DOMAIN Tail(q) : task = Tail(q)[i] /\ task.kind = "turn"
    BY DEF TurnsIn, JobsOf
  <2>2. 1 < i + 1
    BY <1>1
  <2> QED
    BY <1>1, <1>5, <2>1, <2>2 DEF Rising
<1>6. EarlyEnd(Tail(q)) => EarlyEnd(q)
  <2>1. SUFFICES ASSUME NEW i \in DOMAIN Tail(q), i < Len(Tail(q)), Tail(q)[i].kind = "sentinel"
                 PROVE  EarlyEnd(q)
    BY DEF EarlyEnd
  <2>2. i + 1 < Len(q)
    BY <1>1, <2>1
  <2> QED
    BY <1>1, <2>1, <2>2 DEF EarlyEnd
<1>7. Tail(q) # << >> /\ Head(q).kind = "sentinel" => EarlyEnd(q)
  <2>1. Tail(q) # << >> => 1 < Len(q)
    BY <1>1
  <2> QED
    BY <1>1, <2>1 DEF EarlyEnd
<1> QED
  BY <1>1, <1>2, <1>3, <1>4, <1>5, <1>6, <1>7

\* A queue with a job more.
LEMMA AppendOf ==
    ASSUME NEW q \in Seq(Work), NEW task \in Work
    PROVE  /\ Append(q, task) \in Seq(Work) /\ Append(q, task) # << >>
           /\ q \o <<task>> = Append(q, task) /\ q \o << >> = q
           /\ JobsOf(Append(q, task)) = JobsOf(q) \cup {task}
           /\ Rising(q) /\ (task.kind = "turn" => \A j \in TurnsIn(q) : j.turn < task.turn) =>
                Rising(Append(q, task))
           /\ EarlyEnd(Append(q, task)) => \E j \in JobsOf(q) : j.kind = "sentinel"
<1> DEFINE r == Append(q, task)
<1>1. /\ r \in Seq(Work) /\ r # << >> /\ Len(q) \in Nat /\ Len(r) = Len(q) + 1
      /\ DOMAIN q = 1..Len(q) /\ DOMAIN r = 1..(Len(q) + 1)
      /\ r[Len(q) + 1] = task /\ \A i \in DOMAIN q : r[i] = q[i]
      /\ q \o <<task>> = r /\ q \o << >> = q
  OBVIOUS
<1> HIDE DEF r
<1>2. \A i \in DOMAIN r : i = Len(q) + 1 \/ i \in DOMAIN q
  BY <1>1
<1>3. JobsOf(r) = JobsOf(q) \cup {task}
  <2>1. JobsOf(r) \subseteq JobsOf(q) \cup {task}
    BY <1>1, <1>2 DEF JobsOf
  <2>2. JobsOf(q) \cup {task} \subseteq JobsOf(r)
    <3>1. \A i \in DOMAIN q : i \in DOMAIN r
      BY <1>1
    <3>2. Len(q) + 1 \in DOMAIN r
      BY <1>1
    <3> QED
      BY <1>1, <3>1, <3>2 DEF JobsOf
  <2> QED
    BY <2>1, <2>2
<1>4. ASSUME Rising(q), task.kind = "turn" => \A j \in TurnsIn(q) : j.turn < task.turn
      PROVE  Rising(r)
  <2>1. SUFFICES ASSUME NEW i \in DOMAIN r, NEW j \in DOMAIN r, i < j,
                        r[i].kind = "turn", r[j].kind = "turn"
                 PROVE  r[i].turn < r[j].turn
    BY DEF Rising
  <2>2. i \in DOMAIN q
    BY <1>1, <1>2, <2>1
  <2>3. CASE j \in DOMAIN q
    BY <1>1, <1>4, <2>1, <2>2, <2>3 DEF Rising
  <2>4. CASE j = Len(q) + 1
    <3>1. q[i] \in TurnsIn(q)
      BY <1>1, <2>1, <2>2 DEF TurnsIn, JobsOf
    <3> QED
      BY <1>1, <1>4, <2>1, <2>2, <2>4, <3>1
  <2> QED
    BY <1>2, <2>3, <2>4
<1>5. ASSUME EarlyEnd(r)
      PROVE  \E j \in JobsOf(q) : j.kind = "sentinel"
  <2>1. PICK i \in DOMAIN r : i < Len(r) /\ r[i].kind = "sentinel"
    BY <1>5 DEF EarlyEnd
  <2>2. i \in DOMAIN q
    BY <1>1, <2>1
  <2> QED
    BY <1>1, <2>1, <2>2 DEF JobsOf
<1> QED
  BY <1>1, <1>3, <1>4, <1>5 DEF r

-----------------------------------------------------------------------------
\* Each variable keeps its type.
LEMMA Types ==
    ProviderTypeOK =>
        /\ MaxTurns \in Nat /\ Len(said) \in Nat /\ DOMAIN said = 1..Len(said)
        /\ switches \in Nat /\ faults \in Nat /\ lives \in Nat
        /\ queue \in Seq(Work) /\ JobsOf(queue) \subseteq Work
<1> SUFFICES ASSUME ProviderTypeOK
             PROVE  /\ MaxTurns \in Nat /\ Len(said) \in Nat /\ DOMAIN said = 1..Len(said)
                    /\ switches \in Nat /\ faults \in Nat /\ lives \in Nat
                    /\ queue \in Seq(Work) /\ JobsOf(queue) \subseteq Work
  OBVIOUS
<1>1. MaxTurns \in Nat
  BY ProviderBoundsAssumption
<1>2. Len(said) \in Nat /\ DOMAIN said = 1..Len(said)
  BY DEF ProviderTypeOK
<1>3. switches \in Nat /\ faults \in Nat /\ lives \in Nat
  BY DEF ProviderTypeOK
<1>4. queue \in Seq(Work)
  BY DEF ProviderTypeOK, Work
<1>5. JobsOf(queue) \subseteq Work
  BY <1>4 DEF JobsOf
<1> QED
  BY <1>1, <1>2, <1>3, <1>4, <1>5

\* ... when the provider is initialised.
LEMMA InitializeTyped ==
    ASSUME ProviderTypeOK, NEW fresh \in BOOLEAN, Initialize(fresh)
    PROVE  ProviderTypeOK'
<1>1. PICK s \in Mains, opened \in BOOLEAN :
        /\ faults' = IF opened THEN faults ELSE faults + 1
        /\ session' = s
        /\ \E trust \in Trusts :
            /\ identity' = [IF fresh THEN [t \in Sessions |-> None] ELSE identity EXCEPT ![s] = trust]
            /\ lane1' \in {"static", "snapshot"}
  BY DEF Initialize, Trusts
<1>2. identity' \in [Sessions -> Trusts \cup {None}] /\ lane1' \in {"static", "snapshot"}
  <2>1. identity \in [Sessions -> Trusts \cup {None}]
    BY DEF ProviderTypeOK
  <2> QED
    BY <1>1, <2>1
<1>3. {switches', faults', lives'} \subseteq Nat
  BY <1>1, Types DEF Initialize
<1>4. /\ person' = person /\ host' = "up" /\ mode' \in Modes /\ session' \in Mains \cup {None}
      /\ open' = open /\ captured' = captured /\ pending' = pending /\ credits' = credits
      /\ said' = said /\ logged' = logged /\ left' = left /\ away' = away /\ twice' = twice
      /\ dropped' = dropped
  BY <1>1 DEF Initialize, db
<1> DEFINE Rest ==
        /\ counted \subseteq Sessions /\ alias \in [Sessions -> Mains \cup {None}]
        /\ staged \in {"static", "snapshot"} /\ lane2 \in [Sessions -> 0..MaxTurns]
        /\ queue \in Seq(Work) /\ lost \subseteq 0..MaxTurns /\ strays \subseteq 0..MaxTurns
        /\ worker \in [at : {"none", "connect", "loop", "search", "tick"},
                       sid : Sessions \cup {None}, turn : 0..MaxTurns]
<1>5. Rest
  BY Types DEF ProviderTypeOK
<1>6. Doing("connect") \in [at : {"none", "connect", "loop", "search", "tick"},
                           sid : Sessions \cup {None}, turn : 0..MaxTurns]
  BY Types DEF Doing
<1>7. ASSUME fresh PROVE Rest'
  <2>1. strays' \subseteq 0..MaxTurns
    BY <1>7 DEF Initialize, ProviderTypeOK, Unstamped
  <2>2. lost' \subseteq 0..MaxTurns
    <3>1. \A task \in JobsOf(queue) : task.turn \in 0..MaxTurns
      BY Types DEF Work
    <3>2. lost' = lost \cup {queue[i].turn : i \in {j \in DOMAIN queue : queue[j].kind = "turn"}}
      BY <1>7 DEF Initialize
    <3>3. lost \subseteq 0..MaxTurns
      BY DEF ProviderTypeOK
    <3> QED
      BY <3>1, <3>2, <3>3 DEF JobsOf
  <2>3. lane2' \in [Sessions -> 0..MaxTurns]
    BY <1>7, Types DEF Initialize
  <2>4. queue' = << >> /\ worker' = Doing("connect") /\ counted' = {} /\ staged' = "static"
        /\ alias' = [t \in Sessions |-> None]
    BY <1>7 DEF Initialize
  <2> QED
    BY <1>6, <2>1, <2>2, <2>3, <2>4
<1>8. ASSUME ~fresh PROVE Rest'
  BY <1>5, <1>6, <1>8 DEF Initialize
<1>9. Rest'
  BY <1>7, <1>8
<1> QED
  BY <1>2, <1>3, <1>4, <1>9 DEF ProviderTypeOK, Work

\* ... at the end of a turn.
LEMMA TurnEndTyped ==
    ASSUME ProviderTypeOK, Placed, NEW c \in Channels, TurnEnd(c)
    PROVE  /\ ProviderTypeOK' /\ SidOf(c) \in Sessions
           /\ \E turn, mid :
                /\ turn.sid = SidOf(c) /\ turn.trust = IdentityFor(SidOf(c))
                /\ turn.kept = CaptureAllowed /\ turn.resumed = (alias[SidOf(c)] # None)
                /\ turn.served = open[c].served /\ turn.late = (open[c].late \/ open[c].sid # SidOf(c))
                /\ DOMAIN said' = 1..(Len(said) + 1) /\ said'[Len(said) + 1] = turn
                /\ (\A u \in DOMAIN said : said'[u] = said[u])
                /\ Len(said') = Len(said) + 1 /\ Len(said) + 1 \in Turns /\ Len(said) \in Nat
                /\ mid \in Seq(Work)
                /\ mid = IF CaptureAllowed
                         THEN Append(queue, [kind |-> "turn", sid |-> SidOf(c), turn |-> Len(said) + 1])
                         ELSE queue
                /\ queue' = IF mode # "tools"
                            THEN Append(mid, [kind |-> "retrieve", sid |-> SidOf(c), turn |-> Len(said) + 1])
                            ELSE mid
<1> DEFINE s == SidOf(c)
           t == Len(said) + 1
           turn == [sid |-> s, trust |-> IdentityFor(s), kept |-> CaptureAllowed, resumed |-> alias[s] # None,
                    served |-> open[c].served, late |-> open[c].late \/ open[c].sid # s]
           first == [kind |-> "turn", sid |-> s, turn |-> t]
           second == [kind |-> "retrieve", sid |-> s, turn |-> t]
           mid == IF CaptureAllowed THEN Append(queue, first) ELSE queue
<1>1. s \in Sessions
  BY DEF TurnEnd, SidOf, Placed, Channels, ProviderTypeOK, Sessions
<1>2. t \in Turns /\ Len(said) \in Nat
  BY Types DEF TurnEnd, Turns
<1>3. turn \in [sid : Sessions, trust : Trusts, kept : BOOLEAN, resumed : BOOLEAN,
                served : 0..MaxTurns, late : BOOLEAN]
  <2>1. open[c] \in [served : 0..MaxTurns, sid : Sessions, late : BOOLEAN]
    BY DEF TurnEnd, ProviderTypeOK
  <2>2. IdentityFor(s) \in Trusts
    BY <1>1 DEF IdentityFor, ProviderTypeOK, Trusts
  <2>3. CaptureAllowed \in BOOLEAN
    BY DEF CaptureAllowed
  <2> QED
    BY <1>1, <2>1, <2>2, <2>3
<1>4. said' = Append(said, turn)
  BY DEF TurnEnd
<1>5. first \in Work /\ second \in Work
  BY <1>1, <1>2 DEF Work, Turns
<1>6. queue \in Seq(Work)
  BY Types
<1>7. mid \in Seq(Work)
  BY <1>5, <1>6
<1>8. queue' = queue \o (IF CaptureAllowed THEN <<first>> ELSE << >>)
                    \o (IF mode # "tools" THEN <<second>> ELSE << >>)
  BY DEF TurnEnd
<1>9. queue' = IF mode # "tools" THEN Append(mid, second) ELSE mid
  <2> HIDE DEF first, second
  <2>1. queue \o (IF CaptureAllowed THEN <<first>> ELSE << >>) = mid
    BY <1>5, <1>6, AppendOf
  <2> HIDE DEF mid
  <2>2. mid \o (IF mode # "tools" THEN <<second>> ELSE << >>)
            = IF mode # "tools" THEN Append(mid, second) ELSE mid
    BY <1>5, <1>7, AppendOf
  <2> QED
    BY <1>8, <2>1, <2>2
<1>10. queue' \in Seq(Work)
  <2> HIDE DEF mid, second
  <2> QED
    BY <1>5, <1>7, <1>9
<1>11. ProviderTypeOK'
  <2> HIDE DEF mid, second, first, turn, s
  <2>1. said' \in Seq([sid : Sessions, trust : Trusts, kept : BOOLEAN, resumed : BOOLEAN,
                       served : 0..MaxTurns, late : BOOLEAN])
    BY <1>3, <1>4 DEF ProviderTypeOK
  <2>2. counted' \subseteq Sessions
    BY <1>1 DEF TurnEnd, ProviderTypeOK, s
  <2>3. open' \in [Channels -> {None} \cup [served : 0..MaxTurns, sid : Sessions, late : BOOLEAN]]
    BY DEF TurnEnd, ProviderTypeOK
  <2> QED
    BY <1>10, <2>1, <2>2, <2>3 DEF TurnEnd, ProviderTypeOK, Work, hostVars, lanes, db, counters
<1>12. mid = IF CaptureAllowed
             THEN Append(queue, [kind |-> "turn", sid |-> SidOf(c), turn |-> Len(said) + 1])
             ELSE queue
  OBVIOUS
<1>13. queue' = IF mode # "tools"
                THEN Append(mid, [kind |-> "retrieve", sid |-> SidOf(c), turn |-> Len(said) + 1])
                ELSE mid
  BY <1>9
<1>14. /\ turn.sid = SidOf(c) /\ turn.trust = IdentityFor(SidOf(c))
       /\ turn.kept = CaptureAllowed /\ turn.resumed = (alias[SidOf(c)] # None)
       /\ turn.served = open[c].served /\ turn.late = (open[c].late \/ open[c].sid # SidOf(c))
  OBVIOUS
<1> HIDE DEF mid, turn
<1>15. /\ DOMAIN said' = 1..(Len(said) + 1) /\ said'[Len(said) + 1] = turn /\ Len(said') = Len(said) + 1
       /\ \A u \in DOMAIN said : said'[u] = said[u]
  <2> DEFINE Said == [sid : Sessions, trust : Trusts, kept : BOOLEAN, resumed : BOOLEAN,
                      served : 0..MaxTurns, late : BOOLEAN]
  <2>1. said \in Seq(Said) /\ turn \in Said
    BY <1>3 DEF ProviderTypeOK
  <2> HIDE DEF Said
  <2> QED
    BY <1>2, <1>4, <2>1
<1> QED
  BY <1>1, <1>2, <1>7, <1>11, <1>12, <1>13, <1>14, <1>15

\* ... when the host switches sessions.
LEMMA SwitchTyped ==
    ASSUME ProviderTypeOK, Placed, NEW new \in Mains \ {session}, ResetTo(new) \/ ContinueAs(new)
    PROVE  ProviderTypeOK' /\ session \in Mains
<1>1. session \in Mains /\ new \in Mains /\ Mains \subseteq Sessions
  BY DEF Placed, ResetTo, ContinueAs, Leave, ProviderTypeOK, Sessions
<1>2. /\ identity \in [Sessions -> Trusts \cup {None}] /\ lane2 \in [Sessions -> 0..MaxTurns]
      /\ alias \in [Sessions -> Mains \cup {None}] /\ pending \in [Sessions -> 0..MaxTurns]
  BY DEF ProviderTypeOK
<1>3. /\ switches' \in Nat /\ left' \subseteq Mains /\ strays' \subseteq 0..MaxTurns
      /\ host' \in {"off", "up", "joining"} /\ session' \in Mains
      /\ UNCHANGED <<person, open, queue, worker, db, said, lost, logged, dropped, faults, lives>>
  <2>1. Leave(new) /\ session' = new
    BY DEF ResetTo, ContinueAs
  <2>2. switches' \in Nat
    <3>1. switches \in Nat /\ switches' = switches + 1
      BY <2>1, Types DEF Leave
    <3> QED
      BY <3>1
  <2>3. left' \subseteq Mains /\ strays' \subseteq 0..MaxTurns
    BY <1>1, <1>2, <2>1 DEF Leave, ProviderTypeOK
  <2>4. /\ host' = host /\ host \in {"off", "up", "joining"}
        /\ UNCHANGED <<person, open, queue, worker, db, said, lost, logged, dropped, faults, lives>>
    BY <2>1 DEF Leave, ProviderTypeOK
  <2> QED
    BY <1>1, <2>1, <2>2, <2>3, <2>4
<1>4. ASSUME ResetTo(new)
      PROVE  /\ mode' \in Modes /\ identity' \in [Sessions -> Trusts \cup {None}]
             /\ counted' \subseteq Sessions /\ lane2' \in [Sessions -> 0..MaxTurns]
             /\ {lane1', staged'} \subseteq {"static", "snapshot"} /\ away' \subseteq Mains
             /\ alias' = alias /\ twice' = twice
  <2>1. identity' \in [Sessions -> Trusts \cup {None}]
    BY <1>1, <1>2, <1>4 DEF ResetTo, IdentityFor, Trusts
  <2>2. lane2' \in [Sessions -> 0..MaxTurns]
    <3>1. lane2' = [lane2 EXCEPT ![session] = 0, ![new] = 0]
      BY <1>4 DEF ResetTo
    <3>2. 0 \in 0..MaxTurns
      BY Types
    <3> QED
      BY <1>1, <1>2, <3>1, <3>2
  <2> QED
    BY <1>1, <1>4, <2>1, <2>2 DEF ResetTo, ProviderTypeOK
<1>5. ASSUME ContinueAs(new)
      PROVE  /\ mode' \in Modes /\ identity' \in [Sessions -> Trusts \cup {None}]
             /\ counted' \subseteq Sessions /\ lane2' \in [Sessions -> 0..MaxTurns]
             /\ {lane1', staged'} \subseteq {"static", "snapshot"} /\ away' \subseteq Mains
             /\ alias' \in [Sessions -> Mains \cup {None}] /\ twice' \subseteq Mains
  <2>1. identity' \in [Sessions -> Trusts \cup {None}]
    BY <1>1, <1>2, <1>5 DEF ContinueAs, Moved
  <2>2. lane2' \in [Sessions -> 0..MaxTurns]
    <3>1. \/ lane2' = lane2
          \/ lane2' = [lane2 EXCEPT ![new] = lane2[session], ![session] = 0]
      BY <1>5 DEF ContinueAs, Moved
    <3>2. 0 \in 0..MaxTurns
      BY Types
    <3> QED
      BY <1>1, <1>2, <3>1, <3>2
  <2>3. alias' \in [Sessions -> Mains \cup {None}]
    BY <1>1, <1>2, <1>5 DEF ContinueAs
  <2>4. counted' \subseteq Sessions /\ twice' \subseteq Mains
    BY <1>1, <1>5 DEF ContinueAs, ProviderTypeOK
  <2> QED
    BY <1>5, <2>1, <2>2, <2>3, <2>4 DEF ContinueAs, ProviderTypeOK
<1>6. /\ person' = person /\ open' = open /\ queue' = queue /\ worker' = worker
      /\ captured' = captured /\ pending' = pending /\ credits' = credits /\ said' = said
      /\ lost' = lost /\ logged' = logged /\ dropped' = dropped /\ faults' = faults /\ lives' = lives
  BY <1>3 DEF db
<1>7. ProviderTypeOK'
  BY <1>3, <1>4, <1>5, <1>6 DEF ProviderTypeOK
<1> QED
  BY <1>1, <1>7

\* ... when the thread takes a job.
LEMMA TakeTyped ==
    ASSUME ProviderTypeOK, JobsTrue, NEW kind, Take(kind)
    PROVE  /\ queue # << >> /\ Head(queue).kind = kind /\ queue' = Tail(queue) /\ queue' \in Seq(Work)
           /\ Head(queue) \in Work /\ JobsOf(queue) = JobsOf(queue') \cup {Head(queue)}
           /\ JobTrue(Head(queue))
           /\ Head(queue).kind \in {"turn", "retrieve"} =>
                Head(queue).sid \in Sessions /\ Head(queue).turn \in Turns
<1>1. /\ queue # << >> /\ Head(queue).kind = kind /\ queue' = Tail(queue) /\ queue' \in Seq(Work)
      /\ Head(queue) \in Work /\ JobsOf(queue) = JobsOf(queue') \cup {Head(queue)}
  BY Types, TailOf DEF Take
<1>2. JobTrue(Head(queue))
  BY <1>1 DEF JobsTrue
<1>3. ASSUME Head(queue).kind \in {"turn", "retrieve"}
      PROVE  Head(queue).sid \in Sessions /\ Head(queue).turn \in Turns
  <2>1. Head(queue).turn \in DOMAIN said /\ Head(queue).sid = said[Head(queue).turn].sid
    BY <1>2, <1>3 DEF JobTrue
  <2>2. said[Head(queue).turn].sid \in Sessions
    <3> DEFINE Said == [sid : Sessions, trust : Trusts, kept : BOOLEAN, resumed : BOOLEAN,
                        served : 0..MaxTurns, late : BOOLEAN]
    <3>1. said \in Seq(Said)
      BY DEF ProviderTypeOK
    <3>2. \A item \in Said : item.sid \in Sessions
      OBVIOUS
    <3> HIDE DEF Said
    <3>3. \A t \in DOMAIN said : said[t] \in Said
      BY <3>1
    <3> QED
      BY <2>1, <3>2, <3>3
  <2>3. Head(queue).turn \in 0..MaxTurns /\ Head(queue).turn >= 1
    BY <1>1, <2>1, Types DEF Work
  <2> QED
    BY <2>1, <2>2, <2>3, Types DEF Turns
<1> QED
  BY <1>1, <1>2, <1>3

LEMMA CaptureTyped == ASSUME ProviderTypeOK, JobsTrue, CaptureTurn PROVE ProviderTypeOK'
<1> DEFINE task == Head(queue)
<1>1. queue' \in Seq(Work) /\ task.sid \in Sessions /\ task.turn \in Turns
  BY TakeTyped DEF CaptureTurn
<1>2. captured' \in Seq([turn : Turns, trust : Trusts]) /\ lost' \subseteq 0..MaxTurns
      /\ {switches', faults', lives'} \subseteq Nat
  <2>1. captured \in Seq([turn : Turns, trust : Trusts]) /\ lost \subseteq 0..MaxTurns
    BY DEF ProviderTypeOK
  <2>2. TrustOf(task.sid) \in Trusts
    BY <1>1 DEF TrustOf, IdentityFor, ProviderTypeOK, Trusts
  <2>3. CASE captured' = Append(captured, [turn |-> task.turn, trust |-> TrustOf(task.sid)])
             /\ UNCHANGED <<lost, counters>>
    <3>1. captured' \in Seq([turn : Turns, trust : Trusts])
      BY <1>1, <2>1, <2>2, <2>3
    <3> QED
      BY <2>1, <2>3, <3>1, Types DEF counters
  <2>4. CASE Fault /\ lost' = lost \cup {task.turn} /\ UNCHANGED captured
    <3>1. {switches', faults', lives'} \subseteq Nat
      BY <2>4, Types DEF Fault
    <3>2. task.turn \in 0..MaxTurns
      BY <1>1, Types DEF Turns
    <3> QED
      BY <2>1, <2>4, <3>1, <3>2
  <2> QED
    BY <2>3, <2>4 DEF CaptureTurn
<1>3. credits' \in [Turns -> SUBSET Turns] /\ pending' \in [Sessions -> 0..MaxTurns]
  <2>1. pending \in [Sessions -> 0..MaxTurns] /\ credits \in [Turns -> SUBSET Turns]
    BY DEF ProviderTypeOK
  <2>2. {pending[task.sid]} \ {0} \subseteq Turns
    BY <1>1, <2>1, Types DEF Turns
  <2>3. credits' = [credits EXCEPT ![task.turn] = {pending[task.sid]} \ {0}]
        /\ pending' = [pending EXCEPT ![task.sid] = 0]
    BY DEF CaptureTurn, Stamp
  <2>4. 0 \in 0..MaxTurns
    BY Types
  <2> QED
    BY <2>1, <2>2, <2>3, <2>4
<1>4. /\ UNCHANGED <<hostVars, perSession, open, lanes, worker, said, logged, strays, left, away, twice, dropped>>
  BY DEF CaptureTurn, Take
<1> QED
  BY <1>1, <1>2, <1>3, <1>4 DEF ProviderTypeOK, Work, hostVars, perSession, lanes

LEMMA RetrieveTyped == ASSUME ProviderTypeOK, JobsTrue, Retrieve PROVE ProviderTypeOK'
<1> DEFINE task == Head(queue)
           s == Renamed(task.sid)
<1>1. queue' \in Seq(Work) /\ task.sid \in Sessions /\ task.turn \in Turns
  BY TakeTyped DEF Retrieve
<1>2. s \in Sessions
  BY <1>1 DEF Renamed, ProviderTypeOK, Sessions
<1>3. worker' \in [at : {"none", "connect", "loop", "search", "tick"},
                   sid : Sessions \cup {None}, turn : 0..MaxTurns]
      /\ dropped' \subseteq [turn : Turns, sid : Sessions, again : BOOLEAN]
  <2>1. Wanted(s) => worker' = [at |-> "search", sid |-> s, turn |-> task.turn] /\ UNCHANGED dropped
    BY DEF Retrieve
  <2>2. ~Wanted(s) => /\ dropped' = dropped \cup {[turn |-> task.turn, sid |-> s, again |-> alias[s] # None]}
                      /\ UNCHANGED worker
    BY DEF Retrieve
  <2> QED
    <3>1. worker \in [at : {"none", "connect", "loop", "search", "tick"},
                      sid : Sessions \cup {None}, turn : 0..MaxTurns]
          /\ dropped \subseteq [turn : Turns, sid : Sessions, again : BOOLEAN]
      BY DEF ProviderTypeOK
    <3>2. task.turn \in 0..MaxTurns
      BY <1>1, Types DEF Turns
    <3>3. CASE Wanted(s)
      BY <1>2, <2>1, <3>1, <3>2, <3>3
    <3>4. CASE ~Wanted(s)
      <4>1. [turn |-> task.turn, sid |-> s, again |-> alias[s] # None]
                \in [turn : Turns, sid : Sessions, again : BOOLEAN]
        BY <1>1, <1>2
      <4> QED
        BY <2>2, <3>1, <3>4, <4>1
    <3> QED
      BY <3>3, <3>4
<1>4. UNCHANGED <<hostVars, perSession, open, lanes, db, said, lost, logged, strays, left, away, twice, counters>>
  BY DEF Retrieve, Take
<1> QED
  BY <1>1, <1>3, <1>4 DEF ProviderTypeOK, Work, hostVars, perSession, lanes, db, counters

LEMMA FoundTyped == ASSUME ProviderTypeOK, JobsTrue, Found PROVE ProviderTypeOK'
<1>1. PICK given \in {0, worker.turn} :
         /\ lane2' = [lane2 EXCEPT ![worker.sid] = given]
         /\ IF given # 0 /\ CaptureAllowed
            THEN /\ pending' = [pending EXCEPT ![worker.sid] = given]
                 /\ logged' = logged \cup {given}
            ELSE UNCHANGED <<pending, logged>>
         /\ strays' \subseteq strays \cup {given, pending[worker.sid]}
  BY DEF Found
<1>2. given \in 0..MaxTurns
  BY <1>1, Types DEF ProviderTypeOK
<1>3. lane2' \in [Sessions -> 0..MaxTurns] /\ pending' \in [Sessions -> 0..MaxTurns]
      /\ logged' \subseteq 0..MaxTurns /\ strays' \subseteq 0..MaxTurns
  <2>1. lane2 \in [Sessions -> 0..MaxTurns] /\ pending \in [Sessions -> 0..MaxTurns]
        /\ logged \subseteq 0..MaxTurns /\ strays \subseteq 0..MaxTurns /\ worker.sid \in Sessions
    BY DEF ProviderTypeOK, JobsTrue, Found
  <2> QED
    BY <1>1, <1>2, <2>1
<1>4. worker' \in [at : {"none", "connect", "loop", "search", "tick"},
                   sid : Sessions \cup {None}, turn : 0..MaxTurns]
  BY Types DEF Found, Doing
<1> QED
  BY <1>3, <1>4 DEF Found, ProviderTypeOK, hostVars, perSession, counters

\* ... and in every other step.
LEMMA OtherTyped ==
    ASSUME ProviderTypeOK, Placed, JobsTrue,
           \/ Shutdown \/ Joined \/ JoinTimeout \/ SessionEnd
           \/ \E c \in Channels : TurnBegin(c)
           \/ Connect \/ Discard \/ EndSession \/ SearchFails \/ Tick \/ TickDone \/ End
           \/ UNCHANGED providerVars
    PROVE  ProviderTypeOK'
<1> DEFINE Workers == [at : {"none", "connect", "loop", "search", "tick"},
                       sid : Sessions \cup {None}, turn : 0..MaxTurns]
<1>1. queue \in Seq(Work) /\ worker \in Workers /\ {switches, faults, lives} \subseteq Nat
  BY Types DEF ProviderTypeOK
<1>2. NoThread \in Workers /\ \A phase \in {"connect", "loop", "search", "tick"} : Doing(phase) \in Workers
  BY Types DEF NoThread, Doing
<1> HIDE DEF Workers
<1>3. /\ queue' \in Seq(Work) /\ worker' \in Workers
      /\ switches' = switches /\ lives' = lives /\ faults' \in Nat
      /\ host' \in {"off", "up", "joining"} /\ staged' \in {"static", "snapshot"}
      /\ lost' \subseteq 0..MaxTurns
      /\ open' \in [Channels -> {None} \cup [served : 0..MaxTurns, sid : Sessions, late : BOOLEAN]]
      /\ UNCHANGED <<person, mode, session, perSession, lane1, lane2, db>>
      /\ UNCHANGED <<said, logged, strays, left, away, twice, dropped>>
  <2> DEFINE Goal ==
        /\ queue' \in Seq(Work) /\ worker' \in Workers
        /\ switches' = switches /\ lives' = lives /\ faults' \in Nat
        /\ host' \in {"off", "up", "joining"} /\ staged' \in {"static", "snapshot"}
        /\ lost' \subseteq 0..MaxTurns
        /\ open' \in [Channels -> {None} \cup [served : 0..MaxTurns, sid : Sessions, late : BOOLEAN]]
        /\ UNCHANGED <<person, mode, session, perSession, lane1, lane2, db>>
        /\ UNCHANGED <<said, logged, strays, left, away, twice, dropped>>
  <2>1. /\ host \in {"off", "up", "joining"} /\ staged \in {"static", "snapshot"} /\ lost \subseteq 0..MaxTurns
        /\ open \in [Channels -> {None} \cup [served : 0..MaxTurns, sid : Sessions, late : BOOLEAN]]
    BY DEF ProviderTypeOK
  <2>2. ASSUME Shutdown PROVE Goal
    <3>1. EndJob \in Work
      BY Types DEF EndJob, Work
    <3>2. LastJob(EndJob) \in Seq(Work)
      BY <1>1, <3>1 DEF LastJob
    <3> QED
      BY <1>1, <2>1, <2>2, <3>2 DEF Shutdown, lanes, history, counters
  <2>3. ASSUME Joined PROVE Goal
    BY <1>1, <2>1, <2>3 DEF Joined, lanes, history, counters
  <2>4. ASSUME JoinTimeout PROVE Goal
    BY <1>1, <2>1, <2>4 DEF JoinTimeout, Fault, lanes, history
  <2>5. ASSUME SessionEnd PROVE Goal
    <3>1. session \in Sessions
      BY <2>5 DEF SessionEnd, Placed, ProviderTypeOK, Sessions
    <3>2. [kind |-> "marker", sid |-> session, turn |-> 0] \in Work
      BY <3>1, Types DEF Work
    <3>3. queue' \in Seq(Work)
      BY <1>1, <2>5, <3>2 DEF SessionEnd
    <3> QED
      BY <1>1, <2>1, <2>5, <3>3 DEF SessionEnd, hostVars, lanes, history, counters
  <2>6. ASSUME NEW c \in Channels, TurnBegin(c) PROVE Goal
    <3>1. SidOf(c) \in Sessions
      BY <2>6 DEF TurnBegin, SidOf, Placed, ProviderTypeOK, Sessions, Channels
    <3>2. [served |-> lane2[SidOf(c)], sid |-> SidOf(c), late |-> Outstanding]
            \in [served : 0..MaxTurns, sid : Sessions, late : BOOLEAN]
      <4>1. lane2 \in [Sessions -> 0..MaxTurns]
        BY DEF ProviderTypeOK
      <4> QED
        BY <3>1, <4>1 DEF Outstanding
    <3> HIDE DEF Goal
    <3>3. open' \in [Channels -> {None} \cup [served : 0..MaxTurns, sid : Sessions, late : BOOLEAN]]
      BY <2>1, <2>6, <3>2 DEF TurnBegin
    <3> USE DEF Goal
    <3> QED
      BY <1>1, <2>1, <2>6, <3>3 DEF TurnBegin, hostVars, lanes, history, counters
  <2>7. ASSUME Connect \/ Tick \/ TickDone \/ SearchFails PROVE Goal
    <3>1. worker' \in Workers
      BY <1>2, <2>7 DEF Connect, Tick, TickDone, SearchFails
    <3>2. switches' = switches /\ lives' = lives /\ faults' \in Nat
      BY <1>1, <2>7 DEF Connect, Tick, TickDone, SearchFails, Fault, counters
    <3>3. UNCHANGED <<hostVars, perSession, lanes, open, queue, db, history>>
      BY <2>7 DEF Connect, Tick, TickDone, SearchFails
    <3> QED
      BY <1>1, <2>1, <3>1, <3>2, <3>3 DEF hostVars, lanes, history
  <2>8. ASSUME Discard PROVE Goal
    <3>1. Tail(queue) \in Seq(Work) /\ Head(queue).turn \in 0..MaxTurns
      BY <1>1, <2>8, TailOf DEF Discard, Work
    <3>2. switches' = switches /\ lives' = lives /\ faults' \in Nat
      BY <1>1, <2>8 DEF Discard, Fault
    <3>3. worker' \in Workers /\ queue' \in Seq(Work) /\ lost' \subseteq 0..MaxTurns
      BY <1>1, <1>2, <2>1, <2>8, <3>1 DEF Discard
    <3>4. UNCHANGED <<hostVars, perSession, lanes, open, db, said, logged, strays, left, away, twice, dropped>>
      BY <2>8 DEF Discard
    <3> QED
      BY <2>1, <3>2, <3>3, <3>4 DEF hostVars, lanes
  <2>9. ASSUME EndSession \/ End PROVE Goal
    <3>1. queue' \in Seq(Work)
      BY <2>9, TakeTyped DEF EndSession, End
    <3> QED
      BY <1>1, <1>2, <2>1, <2>9, <3>1 DEF EndSession, End, Take, hostVars, lanes, history, counters
  <2>10. ASSUME UNCHANGED providerVars PROVE Goal
    BY <1>1, <2>1, <2>10 DEF providerVars, hostVars, lanes, history, counters
  <2> QED
    BY <2>2, <2>3, <2>4, <2>5, <2>6, <2>7, <2>8, <2>9, <2>10
<1> QED
  BY <1>1, <1>3 DEF ProviderTypeOK, Work, Workers, perSession, db

-----------------------------------------------------------------------------
\* The invariant is kept.
\* What TurnInv says of the jobs, as facts about the queue and the episodes.
LEMMA Reading ==
    ASSUME ProviderTypeOK
    PROVE  /\ Waiting = {task.turn : task \in TurnsIn(queue)}
           /\ DOMAIN captured = 1..Len(captured) /\ Len(captured) \in Nat
           /\ \A i \in DOMAIN captured : captured[i].turn \in Turns /\ captured[i].trust \in Trusts
           /\ \A t \in DOMAIN said : said[t].sid \in Sessions /\ said[t].trust \in Trusts
           /\ queue = << >> => Waiting = {}
<1>1. Waiting = {task.turn : task \in TurnsIn(queue)}
  <2>1. Waiting \subseteq {task.turn : task \in TurnsIn(queue)}
    BY DEF Waiting, TurnsIn, JobsOf
  <2>2. {task.turn : task \in TurnsIn(queue)} \subseteq Waiting
    BY DEF Waiting, TurnsIn, JobsOf
  <2> QED
    BY <2>1, <2>2
<1>2. /\ DOMAIN captured = 1..Len(captured) /\ Len(captured) \in Nat
      /\ \A i \in DOMAIN captured : captured[i].turn \in Turns /\ captured[i].trust \in Trusts
  <2> DEFINE Item == [turn : Turns, trust : Trusts]
  <2>1. captured \in Seq(Item)
    BY DEF ProviderTypeOK
  <2>2. \A item \in Item : item.turn \in Turns /\ item.trust \in Trusts
    OBVIOUS
  <2> HIDE DEF Item
  <2> QED
    BY <2>1, <2>2
<1>3. \A t \in DOMAIN said : said[t].sid \in Sessions /\ said[t].trust \in Trusts
  <2> DEFINE Said == [sid : Sessions, trust : Trusts, kept : BOOLEAN, resumed : BOOLEAN,
                      served : 0..MaxTurns, late : BOOLEAN]
  <2>1. said \in Seq(Said)
    BY DEF ProviderTypeOK
  <2>2. \A item \in Said : item.sid \in Sessions /\ item.trust \in Trusts
    OBVIOUS
  <2> HIDE DEF Said
  <2> QED
    BY <2>1, <2>2
<1>4. queue = << >> => Waiting = {}
  BY DEF Waiting
<1> QED
  BY <1>1, <1>2, <1>3, <1>4

\* The same after a step, when a provider that is off leaves no turn behind,
\* but after a fault.
LEMMA ReadingNext ==
    /\ Waiting' = {task.turn : task \in TurnsIn(queue')}
    /\ Counted' => (host' = "off" /\ faults' = 0 => Waiting' = {})
<1>1. Waiting' = {task.turn : task \in TurnsIn(queue')}
  <2>1. Waiting' \subseteq {task.turn : task \in TurnsIn(queue')}
    BY DEF Waiting, TurnsIn, JobsOf
  <2>2. {task.turn : task \in TurnsIn(queue')} \subseteq Waiting'
    BY DEF Waiting, TurnsIn, JobsOf
  <2> QED
    BY <2>1, <2>2
<1>2. ASSUME Counted', host' = "off", faults' = 0
      PROVE  Waiting' = {}
  <2>1. queue' = << >>
    BY <1>2 DEF Counted, TimedOut
  <2> QED
    BY <2>1 DEF Waiting
<1> QED
  BY <1>1, <1>2

\* Steps that leave the jobs and the sessions alone.
LEMMA CalmKeeps ==
    ASSUME TurnInv, ProviderTypeOK', faults' >= faults, worker'.at = "none" <=> worker.at = "none",
           worker'.at = "search" => worker' = worker,
           UNCHANGED <<person, host, session, identity, counted, alias, lane1, queue, captured>>,
           UNCHANGED <<said, lost, left, away, twice, dropped>>
    PROVE  TurnInv'
<1>1. Placed' /\ JobsTrue' /\ QueueInOrder' /\ AllFollowed'
  BY DEF TurnInv, Placed, JobsTrue, JobTrue, QueueInOrder, AllFollowed, Followed, Renamed
<1>2. faults \in Nat /\ faults' \in Nat
  BY Types DEF TurnInv, ProviderTypeOK
<1>3. Counted'
  <2>1. TimedOut' <=> TimedOut
    BY DEF TimedOut
  <2> QED
    BY <1>2, <2>1 DEF TurnInv, Counted, Own
<1>4. TrustsTrue' /\ TrustHeld'
  <2>1. Steady' => Steady
    BY <1>2 DEF Steady
  <2>2. TrustsTrue'
    BY <2>1 DEF TurnInv, TrustsTrue, TrustTrue, IdentityFor
  <2>3. TrustHeld'
    BY <1>2 DEF TurnInv, TrustHeld, TrustKept, ProfileForOwner, IdentityFor
  <2> QED
    BY <2>2, <2>3
<1>5. JobsKept'
  <2>1. OnlyResetDrops'
    BY DEF TurnInv, JobsKept, OnlyResetDrops
  <2>2. Captured' = Captured /\ Waiting' = Waiting
    BY DEF Captured, Waiting
  <2>3. faults' = 0 => faults = 0
    BY <1>2
  <2>4. EveryTurnKept'
    BY <2>2, <2>3 DEF TurnInv, JobsKept, EveryTurnKept
  <2> QED
    BY <2>1, <2>4 DEF JobsKept
<1> QED
  BY <1>1, <1>3, <1>4, <1>5 DEF TurnInv

\* Steps that take a job.
LEMMA TakenKeeps ==
    ASSUME TurnInv, ProviderTypeOK', queue # << >>, queue' = Tail(queue), faults' >= faults,
           worker.at # "none", worker'.at = "none" => Head(queue).kind = "sentinel",
           UNCHANGED <<person, host, session, identity, counted, alias, lane1, said, left, away, twice>>
    PROVE  /\ Placed' /\ Rising(queue') /\ Before(captured, queue') /\ Counted'
           /\ \A task \in JobsOf(queue') : JobTrue(task)'
           /\ TrustsTrue' /\ AllFollowed' /\ ProfileForOwner'
           /\ TurnsIn(queue) \subseteq TurnsIn(queue') \cup {Head(queue)}
           /\ Head(queue) \in JobsOf(queue) /\ Head(queue) \in Work
           /\ Head(queue).kind = "turn" =>
                \A task \in TurnsIn(queue') : Head(queue).turn < task.turn
           /\ \A i \in DOMAIN captured, task \in TurnsIn(queue) : captured[i].turn < task.turn
<1>1. /\ queue \in Seq(Work) /\ faults \in Nat /\ faults' \in Nat
      /\ Head(queue) \in Work /\ JobsOf(queue) = JobsOf(queue') \cup {Head(queue)}
      /\ Rising(queue')
      /\ Head(queue).kind = "turn" => \A task \in TurnsIn(queue') : Head(queue).turn < task.turn
      /\ EarlyEnd(queue') => EarlyEnd(queue)
      /\ queue' # << >> /\ Head(queue).kind = "sentinel" => EarlyEnd(queue)
  BY Types, TailOf DEF TurnInv, ProviderTypeOK, QueueInOrder
<1>2. TurnsIn(queue) \subseteq TurnsIn(queue') \cup {Head(queue)} /\ TurnsIn(queue') \subseteq TurnsIn(queue)
  BY <1>1 DEF TurnsIn
<1>3. Placed' /\ AllFollowed' /\ \A task \in JobsOf(queue') : JobTrue(task)'
  <2>1. session # None
    BY DEF TurnInv, Placed
  <2>2. Placed'
    BY <2>1 DEF TurnInv, Placed
  <2>3. AllFollowed'
    BY <1>1 DEF TurnInv, AllFollowed, Followed, Renamed
  <2>4. \A task \in JobsOf(queue') : JobTrue(task)'
    BY <1>1 DEF TurnInv, JobsTrue, JobTrue
  <2> QED
    BY <2>2, <2>3, <2>4
<1>4. TimedOut' => TimedOut
  <2>1. CASE host = "off"
    BY <2>1 DEF TimedOut
  <2>2. CASE host = "up"
    BY <1>1, <2>2 DEF TimedOut
  <2>3. CASE host = "joining"
    BY <1>1, <2>3 DEF TimedOut
  <2>4. host' \in {"off", "up", "joining"} /\ host' = host
    BY DEF ProviderTypeOK
  <2> QED
    BY <2>1, <2>2, <2>3, <2>4
<1>5. Counted'
  BY <1>1, <1>4 DEF TurnInv, Counted, Own
<1>6. TrustsTrue'
  <2>1. Steady' => Steady
    BY <1>1 DEF Steady
  <2> QED
    BY <1>2, <2>1 DEF TurnInv, TrustsTrue, TrustTrue, IdentityFor
<1>7. ProfileForOwner'
  BY DEF TurnInv, TrustHeld, ProfileForOwner, IdentityFor
<1>8. \A i \in DOMAIN captured, task \in TurnsIn(queue) : captured[i].turn < task.turn
  BY DEF TurnInv, QueueInOrder, Before
<1>9. Before(captured, queue')
  BY <1>2, <1>8 DEF Before
<1> QED
  BY <1>1, <1>2, <1>3, <1>5, <1>6, <1>7, <1>8, <1>9

\* ... and either capture its turn or leave the episodes alone.
LEMMA CaptureKeeps == ASSUME TurnInv, CaptureTurn PROVE TurnInv'
<1> DEFINE task == Head(queue)
           item == [turn |-> task.turn, trust |-> TrustOf(task.sid)]
<1>1. ProviderTypeOK' /\ ProviderTypeOK
  BY CaptureTyped DEF TurnInv
<1>2. /\ queue # << >> /\ queue' = Tail(queue) /\ task.kind = "turn" /\ JobTrue(task)
      /\ task.sid \in Sessions /\ task.turn \in Turns
  BY TakeTyped DEF TurnInv, CaptureTurn
<1>3. /\ worker' = worker /\ worker.at = "loop"
      /\ UNCHANGED <<person, host, session, identity, counted, alias, lane1, said, left, away, twice, dropped>>
  BY DEF CaptureTurn, Take, hostVars, perSession, lanes
<1>4. faults \in Nat /\ faults' \in Nat /\ faults' >= faults
  <2>1. faults \in Nat
    BY <1>1, Types
  <2>2. faults' = faults \/ faults' = faults + 1
    BY DEF CaptureTurn, Fault, counters
  <2> QED
    BY <2>1, <2>2
<1>5. /\ Placed' /\ Rising(queue') /\ Before(captured, queue') /\ Counted'
      /\ \A j \in JobsOf(queue') : JobTrue(j)'
      /\ TrustsTrue' /\ AllFollowed' /\ ProfileForOwner'
      /\ TurnsIn(queue) \subseteq TurnsIn(queue') \cup {task}
      /\ task \in JobsOf(queue) /\ \A j \in TurnsIn(queue') : task.turn < j.turn
      /\ \A i \in DOMAIN captured, j \in TurnsIn(queue) : captured[i].turn < j.turn
  BY <1>1, <1>2, <1>3, <1>4, TakenKeeps
<1>6. task.turn \in DOMAIN said /\ task.sid = said[task.turn].sid /\ said[task.turn].kept /\ task \in TurnsIn(queue)
  BY <1>2, <1>5 DEF JobTrue, TurnsIn
<1>7. /\ Waiting = {j.turn : j \in TurnsIn(queue)} /\ Waiting' = {j.turn : j \in TurnsIn(queue')}
      /\ DOMAIN captured = 1..Len(captured) /\ Len(captured) \in Nat
      /\ \A i \in DOMAIN captured : captured[i].turn \in Turns
  BY <1>1, Reading, ReadingNext
<1>8. Waiting \subseteq Waiting' \cup {task.turn}
  BY <1>5, <1>7
<1>9. host' = "off" /\ faults' = 0 => Waiting' = {}
  BY <1>1, <1>4, <1>5, ReadingNext
<1>10. OnlyResetDrops' /\ \A d \in dropped' : d.turn \in DOMAIN said'
  BY <1>3 DEF TurnInv, JobsKept, OnlyResetDrops, JobsTrue
<1>11. /\ \A t \in DOMAIN said : said[t].kept => t \in Captured \cup Waiting \cup lost
       /\ \A t \in Captured : said[t].kept
       /\ \A i, j \in DOMAIN captured : i < j => captured[i].turn < captured[j].turn
       /\ \A i \in DOMAIN captured : captured[i].turn \in DOMAIN said
  BY DEF TurnInv, JobsKept, EveryTurnKept, JobsTrue
<1>12. TrustKept
  BY DEF TurnInv, TrustHeld
<1>13. CASE captured' = Append(captured, item) /\ UNCHANGED <<lost, counters>>
  <2> DEFINE n == Len(captured)
  <2>1. /\ DOMAIN captured' = 1..(n + 1) /\ captured'[n + 1] = item
        /\ \A i \in DOMAIN captured : captured'[i] = captured[i] /\ i \in DOMAIN captured'
        /\ \A i \in DOMAIN captured' : i \in DOMAIN captured \/ i = n + 1
    <3> DEFINE Item == [turn : Turns, trust : Trusts]
    <3>1. captured \in Seq(Item)
      BY <1>1 DEF ProviderTypeOK
    <3> HIDE DEF item, Item
    <3> QED
      BY <1>7, <1>13, <3>1
  <2>2. item.turn = task.turn /\ item.trust = IdentityFor(task.sid)
    BY DEF TrustOf
  <2> HIDE DEF item, task
  <2>3. Captured' = Captured \cup {task.turn}
    <3>1. Captured' \subseteq Captured \cup {task.turn}
      BY <2>1, <2>2 DEF Captured
    <3>2. n + 1 \in DOMAIN captured'
      BY <1>7, <2>1
    <3>3. Captured \cup {task.turn} \subseteq Captured'
      BY <2>1, <2>2, <3>2 DEF Captured
    <3> QED
      BY <3>1, <3>3
  <2>4. \A t \in DOMAIN said' : said'[t].kept => t \in Captured' \cup Waiting' \cup lost'
    BY <1>3, <1>8, <1>11, <1>13, <2>3
  <2>5. \A t \in Captured' : said'[t].kept
    BY <1>3, <1>6, <1>11, <2>3
  <2>6. ASSUME NEW i \in DOMAIN captured', NEW j \in DOMAIN captured', i < j
        PROVE  captured'[i].turn < captured'[j].turn
    <3>1. i \in DOMAIN captured
      BY <1>7, <2>1, <2>6
    <3>2. CASE j \in DOMAIN captured
      BY <1>11, <2>1, <2>6, <3>1, <3>2
    <3>3. CASE j = n + 1
      BY <1>5, <1>6, <2>1, <2>2, <3>1, <3>3
    <3> QED
      BY <2>1, <3>2, <3>3
  <2>7. Before(captured', queue')
    <3>1. SUFFICES ASSUME NEW i \in DOMAIN captured', NEW j \in TurnsIn(queue')
                   PROVE  captured'[i].turn < j.turn
      BY DEF Before
    <3>2. CASE i \in DOMAIN captured
      BY <1>5, <2>1, <3>2 DEF Before
    <3>3. CASE i = n + 1
      BY <1>5, <2>1, <2>2, <3>3
    <3> QED
      BY <2>1, <3>2, <3>3
  <2>8. \A i \in DOMAIN captured' : captured'[i].turn \in DOMAIN said'
    BY <1>3, <1>6, <1>11, <2>1, <2>2
  <2>9. TrustKept'
    <3>1. SUFFICES ASSUME NEW i \in DOMAIN captured'
                   PROVE  LET turn == said[captured'[i].turn]
                          IN \/ captured'[i].trust = turn.trust
                             \/ turn.sid \in left /\ captured'[i].trust = "known_user"
                             \/ turn.sid \in Mains /\ person = "enrolled" /\ faults' > 1
      BY <1>3 DEF TrustKept
    <3>2. CASE i \in DOMAIN captured
      BY <1>4, <1>12, <2>1, <3>2 DEF TrustKept
    <3>3. CASE i = n + 1
      <4>1. TrustTrue(task)
        BY <1>6 DEF TurnInv, TrustsTrue
      <4>2. CASE task.sid \in Guests
        <5>1. IdentityFor(task.sid) = "known_user"
          BY <4>2 DEF TurnInv, Placed, IdentityFor
        <5> QED
          BY <1>6, <2>1, <2>2, <3>3, <4>1, <4>2, <5>1 DEF TrustTrue
      <4>3. CASE task.sid \in Mains /\ Steady
        BY <1>6, <2>1, <2>2, <3>3, <4>1, <4>3 DEF TrustTrue
      <4>4. CASE task.sid \in Mains /\ ~Steady
        BY <1>4, <1>6, <2>1, <2>2, <3>3, <4>4 DEF Steady
      <4> QED
        BY <1>2, <4>2, <4>3, <4>4 DEF Sessions
    <3> QED
      BY <2>1, <3>2, <3>3
  <2>10. EveryTurnKept'
    BY <1>9, <2>4, <2>5, <2>6 DEF EveryTurnKept
  <2> QED
    BY <1>1, <1>3, <1>5, <1>10, <2>7, <2>8, <2>9, <2>10
    DEF TurnInv, QueueInOrder, JobsTrue, JobsKept, TrustHeld
<1>14. CASE Fault /\ lost' = lost \cup {task.turn} /\ UNCHANGED captured
  <2>1. Captured' = Captured
    BY <1>14 DEF Captured
  <2>2. EveryTurnKept'
    BY <1>3, <1>8, <1>9, <1>11, <1>14, <2>1 DEF EveryTurnKept
  <2>3. TrustKept'
    BY <1>3, <1>4, <1>12, <1>14 DEF TrustKept
  <2> QED
    BY <1>1, <1>3, <1>5, <1>10, <1>11, <1>14, <2>2, <2>3
    DEF TurnInv, QueueInOrder, JobsTrue, JobsKept, TrustHeld
<1> QED
  BY <1>13, <1>14 DEF CaptureTurn

LEMMA RetrieveKeeps == ASSUME TurnInv, Retrieve PROVE TurnInv'
<1> DEFINE task == Head(queue)
           s == Renamed(task.sid)
<1>1. ProviderTypeOK' /\ ProviderTypeOK
  BY RetrieveTyped DEF TurnInv
<1>2. /\ queue # << >> /\ queue' = Tail(queue) /\ task.kind = "retrieve" /\ JobTrue(task)
  BY TakeTyped DEF TurnInv, Retrieve
<1>3. /\ worker.at = "loop" /\ worker'.at # "none"
      /\ UNCHANGED <<person, host, session, identity, counted, alias, lane1, said, left, away, twice>>
      /\ UNCHANGED <<captured, lost, faults>>
  BY DEF Retrieve, Take, hostVars, perSession, lanes, db, counters
<1>4. faults \in Nat
  BY Types, <1>1
<1>5. /\ Placed' /\ Rising(queue') /\ Before(captured, queue') /\ Counted'
      /\ \A j \in JobsOf(queue') : JobTrue(j)'
      /\ TrustsTrue' /\ AllFollowed' /\ ProfileForOwner'
      /\ TurnsIn(queue) \subseteq TurnsIn(queue') \cup {task} /\ task \in JobsOf(queue)
  BY <1>1, <1>2, <1>3, <1>4, TakenKeeps
<1>6. Waiting \subseteq Waiting'
  <2>1. /\ Waiting = {j.turn : j \in TurnsIn(queue)} /\ Waiting' = {j.turn : j \in TurnsIn(queue')}
    BY <1>1, Reading, ReadingNext
  <2> QED
    BY <1>2, <1>5, <2>1 DEF TurnsIn
<1>7. EveryTurnKept'
  <2>1. host' = "off" /\ faults' = 0 => Waiting' = {}
    BY <1>1, <1>4, <1>5, ReadingNext
  <2>2. Captured' = Captured
    BY <1>3 DEF Captured
  <2> QED
    BY <1>3, <1>6, <2>1, <2>2 DEF TurnInv, JobsKept, EveryTurnKept
<1>8. TrustKept'
  BY <1>3 DEF TurnInv, TrustHeld, TrustKept
<1>9. task.turn \in DOMAIN said /\ task.sid = said[task.turn].sid /\ Followed(task)
  BY <1>2, <1>5 DEF JobTrue, TurnInv, AllFollowed
<1>10. OnlyResetDrops' /\ \A d \in dropped' : d.turn \in DOMAIN said'
  <2>1. OnlyResetDrops /\ \A d \in dropped : d.turn \in DOMAIN said
    BY DEF TurnInv, JobsKept, JobsTrue
  <2>2. CASE dropped' = dropped
    BY <1>3, <2>1, <2>2 DEF OnlyResetDrops
  <2>3. CASE ~Wanted(s) /\ dropped' = dropped \cup {[turn |-> task.turn, sid |-> s, again |-> alias[s] # None]}
    <3>1. s \notin counted
      BY <2>3 DEF Wanted
    <3> DEFINE d == [turn |-> task.turn, sid |-> s, again |-> alias[s] # None]
    <3>2. d.turn = task.turn /\ d.sid = s /\ d.again = (alias[s] # None)
      OBVIOUS
    <3>3. dropped' = dropped \cup {d}
      BY <2>3
    <3> HIDE DEF d
    <3>4. said[d.turn].kept => \/ {d.sid, said[d.turn].sid} \cap away # {}
                               \/ d.again \/ said[d.turn].resumed \/ said[d.turn].sid \in twice
      BY <1>2, <1>9, <3>1, <3>2 DEF Followed
    <3> QED
      BY <1>3, <1>9, <2>1, <3>2, <3>3, <3>4 DEF OnlyResetDrops
  <2> QED
    BY <2>2, <2>3 DEF Retrieve
<1>11. worker'.at = "search" => worker'.turn \in DOMAIN said' /\ worker'.sid \in Sessions
  <2>1. s \in Sessions
    BY <1>1, TakeTyped DEF Retrieve, Renamed, TurnInv, ProviderTypeOK, Sessions
  <2>2. worker' = worker \/ worker' = [at |-> "search", sid |-> s, turn |-> task.turn]
    BY DEF Retrieve
  <2>3. worker' = [at |-> "search", sid |-> s, turn |-> task.turn] =>
            worker'.turn = task.turn /\ worker'.sid = s
    OBVIOUS
  <2> QED
    BY <1>3, <1>9, <2>1, <2>2, <2>3
<1> QED
  BY <1>1, <1>3, <1>5, <1>7, <1>8, <1>10, <1>11 DEF TurnInv, QueueInOrder, JobsTrue, JobsKept, TrustHeld

LEMMA PassKeeps == ASSUME TurnInv, EndSession \/ End \/ Discard PROVE TurnInv'
<1> DEFINE task == Head(queue)
<1>1. ProviderTypeOK' /\ ProviderTypeOK
  BY OtherTyped DEF TurnInv
<1>2. queue # << >> /\ queue' = Tail(queue)
  BY DEF EndSession, End, Discard, Take
<1>3. /\ worker.at # "none" /\ (worker'.at = "none" => task.kind = "sentinel") /\ worker'.at # "search"
      /\ UNCHANGED <<person, host, session, identity, counted, alias, lane1, said, left, away, twice, dropped>>
      /\ UNCHANGED captured
  BY DEF EndSession, End, Discard, Take, NoThread, hostVars, perSession, lanes, db, history, counters
<1>4. faults \in Nat /\ faults' \in Nat /\ faults' >= faults
  <2>1. faults \in Nat
    BY <1>1, Types
  <2>2. faults' = faults \/ faults' = faults + 1
    BY DEF EndSession, End, Discard, Fault, counters
  <2> QED
    BY <2>1, <2>2
<1>5. /\ Placed' /\ Rising(queue') /\ Before(captured, queue') /\ Counted'
      /\ \A j \in JobsOf(queue') : JobTrue(j)'
      /\ TrustsTrue' /\ AllFollowed' /\ ProfileForOwner'
      /\ TurnsIn(queue) \subseteq TurnsIn(queue') \cup {task} /\ task \in JobsOf(queue)
  BY <1>1, <1>2, <1>3, <1>4, TakenKeeps
<1>6. Waiting \cup lost \subseteq Waiting' \cup lost'
  <2>1. /\ Waiting = {j.turn : j \in TurnsIn(queue)} /\ Waiting' = {j.turn : j \in TurnsIn(queue')}
    BY <1>1, Reading, ReadingNext
  <2>2. lost \subseteq lost' /\ (task.kind = "turn" => task.turn \in lost')
    BY DEF EndSession, End, Discard, Take, history
  <2> QED
    BY <1>5, <2>1, <2>2 DEF TurnsIn
<1>7. EveryTurnKept'
  <2>1. host' = "off" /\ faults' = 0 => Waiting' = {}
    BY <1>1, <1>4, <1>5, ReadingNext
  <2>2. Captured' = Captured
    BY <1>3 DEF Captured
  <2>3. \A t \in DOMAIN said' : said'[t].kept => t \in Captured' \cup Waiting' \cup lost'
    BY <1>3, <1>6, <2>2 DEF TurnInv, JobsKept, EveryTurnKept
  <2> QED
    BY <1>3, <2>1, <2>2, <2>3 DEF TurnInv, JobsKept, EveryTurnKept
<1>8. TrustKept'
  BY <1>3, <1>4 DEF TurnInv, TrustHeld, TrustKept
<1>9. OnlyResetDrops'
  BY <1>3 DEF TurnInv, JobsKept, OnlyResetDrops
<1> QED
  BY <1>1, <1>3, <1>5, <1>7, <1>8, <1>9 DEF TurnInv, QueueInOrder, JobsTrue, JobsKept, TrustHeld

\* Steps of the host that queue a job that is no turn's, or none.
LEMMA ExtraKeeps ==
    ASSUME TurnInv, ProviderTypeOK', Counted', session # None, faults' >= faults,
           NEW task \in Work, task.kind \in {"marker", "sentinel"}, queue' \in {queue, Append(queue, task)},
           UNCHANGED <<person, session, identity, counted, alias, lane1, captured, worker>>,
           UNCHANGED <<said, lost, left, away, twice, dropped>>
    PROVE  TurnInv'
<1>1. queue \in Seq(Work) /\ faults \in Nat /\ faults' \in Nat
  BY Types DEF TurnInv, ProviderTypeOK
<1>2. /\ JobsOf(queue') \subseteq JobsOf(queue) \cup {task} /\ Rising(queue')
  BY <1>1, AppendOf DEF TurnInv, QueueInOrder
<1>3. TurnsIn(queue') = TurnsIn(queue)
  <2>1. JobsOf(queue) \subseteq JobsOf(queue')
    <3>1. JobsOf(Append(queue, task)) = JobsOf(queue) \cup {task}
      BY <1>1, AppendOf
    <3> QED
      BY <3>1
  <2> QED
    BY <1>2, <2>1 DEF TurnsIn
<1>4. Placed'
  BY DEF TurnInv, Placed
<1>5. JobsTrue'
  <2>1. \A j \in JobsOf(queue') : JobTrue(j)'
    BY <1>2 DEF TurnInv, JobsTrue, JobTrue
  <2> QED
    BY <2>1 DEF TurnInv, JobsTrue
<1>6. QueueInOrder'
  BY <1>2, <1>3 DEF TurnInv, QueueInOrder, Before
<1>7. TrustsTrue' /\ TrustHeld'
  <2>1. Steady' => Steady
    BY <1>1 DEF Steady
  <2>2. TrustsTrue'
    BY <1>3, <2>1 DEF TurnInv, TrustsTrue, TrustTrue, IdentityFor
  <2>3. TrustKept' /\ ProfileForOwner'
    BY <1>1 DEF TurnInv, TrustHeld, TrustKept, ProfileForOwner, IdentityFor
  <2> QED
    BY <2>2, <2>3 DEF TrustHeld
<1>8. AllFollowed'
  BY <1>2 DEF TurnInv, AllFollowed, Followed, Renamed
<1>9. EveryTurnKept'
  <2>1. Waiting' = Waiting /\ Captured' = Captured
    BY <1>3, Reading, ReadingNext DEF TurnInv, Captured
  <2>2. host' = "off" /\ faults' = 0 => Waiting' = {}
    BY ReadingNext
  <2> QED
    BY <2>1, <2>2 DEF TurnInv, JobsKept, EveryTurnKept
<1>10. OnlyResetDrops'
  BY DEF TurnInv, JobsKept, OnlyResetDrops
<1> QED
  BY <1>4, <1>5, <1>6, <1>7, <1>8, <1>9, <1>10 DEF TurnInv, JobsKept

LEMMA HostKeeps == ASSUME TurnInv, Shutdown \/ Joined \/ JoinTimeout \/ SessionEnd PROVE TurnInv'
<1>1. /\ ProviderTypeOK' /\ ProviderTypeOK /\ queue \in Seq(Work) /\ faults \in Nat
      /\ host # "off" /\ session # None
  BY OtherTyped, Types DEF TurnInv, Placed, Shutdown, Joined, JoinTimeout, SessionEnd
<1>2. /\ UNCHANGED <<person, session, identity, counted, alias, lane1, captured, worker>>
      /\ UNCHANGED <<said, lost, left, away, twice, dropped>>
  BY DEF Shutdown, Joined, JoinTimeout, SessionEnd, Fault, hostVars, perSession, lanes, db, history
<1>3. ASSUME Shutdown PROVE TurnInv'
  <2>1. EndJob \in Work /\ EndJob.kind = "sentinel"
    BY <1>1, Types DEF EndJob, Work
  <2>2. faults' = faults /\ queue' \in {queue, Append(queue, EndJob)}
    BY <1>3 DEF Shutdown, LastJob, counters
  <2>3. TimedOut' => TimedOut
    <3>1. CASE worker.at = "none"
      BY <1>3, <3>1 DEF Shutdown, TimedOut
    <3>2. CASE worker.at # "none"
      <4>1. host' = "joining" /\ queue' = Append(queue, EndJob) /\ host = "up"
        BY <1>3, <3>2 DEF Shutdown, LastJob
      <4>2. EarlyEnd(queue') => \E j \in JobsOf(queue) : j.kind = "sentinel"
        BY <1>1, <2>1, <4>1, AppendOf
      <4> QED
        BY <1>2, <3>2, <4>1, <4>2 DEF TimedOut
    <3> QED
      BY <3>1, <3>2
  <2>4. Counted'
    BY <1>2, <2>2, <2>3 DEF TurnInv, Counted, Own
  <2> HIDE DEF Shutdown
  <2> QED
    BY <1>1, <1>2, <2>1, <2>2, <2>4, ExtraKeeps
<1>4. ASSUME Joined \/ JoinTimeout PROVE TurnInv'
  <2>1. EndJob \in Work /\ EndJob.kind = "sentinel"
    BY <1>1, Types DEF EndJob, Work
  <2>2. faults' >= faults /\ queue' = queue
    BY <1>1, <1>4 DEF Joined, JoinTimeout, Fault, counters
  <2>3. Counted'
    <3>1. CASE Joined
      <4>1. TimedOut' => TimedOut
        BY <1>2, <3>1 DEF Joined, TimedOut
      <4> QED
        BY <1>2, <3>1, <4>1 DEF TurnInv, Counted, Own, Joined, counters
    <3>2. CASE JoinTimeout
      <4>1. faults' = faults + 1
        BY <3>2 DEF JoinTimeout, Fault
      <4> QED
        BY <1>1, <1>2, <4>1 DEF TurnInv, Counted, Own
    <3> QED
      BY <1>4, <3>1, <3>2
  <2> QED
    BY <1>1, <1>2, <2>1, <2>2, <2>3, ExtraKeeps
<1>5. ASSUME SessionEnd PROVE TurnInv'
  <2> DEFINE task == [kind |-> "marker", sid |-> session, turn |-> 0]
  <2>1. session \in Sessions
    BY <1>1 DEF ProviderTypeOK, Sessions
  <2>2. task \in Work /\ task.kind = "marker"
    BY <1>1, <2>1, Types DEF Work
  <2>3. queue' = Append(queue, task) /\ faults' = faults /\ host' = host /\ host = "up"
    BY <1>5 DEF SessionEnd, hostVars, counters
  <2> HIDE DEF task
  <2>4. JobsOf(queue') = JobsOf(queue) \cup {task}
    BY <1>1, <2>2, <2>3, AppendOf
  <2>5. TimedOut' => TimedOut
    BY <1>2, <2>2, <2>3, <2>4 DEF TimedOut
  <2>6. Counted'
    BY <1>2, <2>3, <2>5 DEF TurnInv, Counted, Own
  <2> QED
    BY <1>1, <1>2, <2>2, <2>3, <2>6, ExtraKeeps
<1> QED
  BY <1>3, <1>4, <1>5

\* The end of a turn queues its jobs.
LEMMA TurnEndKeeps == ASSUME TurnInv, NEW c \in Channels, TurnEnd(c) PROVE TurnInv'
<1> DEFINE s == SidOf(c)
           t == Len(said) + 1
           first == [kind |-> "turn", sid |-> s, turn |-> t]
           second == [kind |-> "retrieve", sid |-> s, turn |-> t]
<1>1. PICK turn, mid :
        /\ turn.sid = s /\ turn.trust = IdentityFor(s)
        /\ turn.kept = CaptureAllowed /\ turn.resumed = (alias[s] # None)
        /\ DOMAIN said' = 1..t /\ said'[t] = turn /\ (\A u \in DOMAIN said : said'[u] = said[u])
        /\ t \in Turns /\ Len(said) \in Nat
        /\ mid \in Seq(Work)
        /\ mid = IF CaptureAllowed THEN Append(queue, first) ELSE queue
        /\ queue' = IF mode # "tools" THEN Append(mid, second) ELSE mid
  BY TurnEndTyped DEF TurnInv
<1>2. /\ ProviderTypeOK /\ ProviderTypeOK' /\ s \in Sessions /\ queue \in Seq(Work) /\ faults \in Nat
      /\ DOMAIN said = 1..Len(said)
  BY TurnEndTyped, Types DEF TurnInv
<1>3. /\ UNCHANGED <<person, host, session, identity, alias, lane1, worker, captured>>
      /\ UNCHANGED <<lost, left, away, twice, dropped, faults>>
      /\ counted' = (IF CaptureAllowed THEN counted \cup {s} ELSE counted) /\ host = "up"
  BY DEF TurnEnd, hostVars, lanes, db, counters
<1>4. first \in Work /\ second \in Work /\ first.kind = "turn" /\ second.kind = "retrieve"
      /\ first.sid = s /\ first.turn = t /\ second.sid = s /\ second.turn = t
  BY <1>1, <1>2, Types DEF Work, Turns
<1>5. /\ DOMAIN said' = 1..t /\ said'[t] = turn /\ t \in DOMAIN said' /\ t \notin DOMAIN said
      /\ \A u \in DOMAIN said : said'[u] = said[u] /\ u \in DOMAIN said' /\ u < t
      /\ \A u \in DOMAIN said' : u \in DOMAIN said \/ u = t
  BY <1>1, <1>2
<1> HIDE DEF first, second, t, s
<1>6. /\ JobsOf(mid) = IF CaptureAllowed THEN JobsOf(queue) \cup {first} ELSE JobsOf(queue)
      /\ JobsOf(queue') = IF mode # "tools" THEN JobsOf(mid) \cup {second} ELSE JobsOf(mid)
  BY <1>1, <1>2, <1>4, AppendOf
<1>7. TurnsIn(queue') = IF CaptureAllowed THEN TurnsIn(queue) \cup {first} ELSE TurnsIn(queue)
  BY <1>4, <1>6 DEF TurnsIn
<1>8. Placed'
  <2>1. session # None
    BY <1>3 DEF TurnInv, Placed
  <2> QED
    BY <1>3, <2>1 DEF TurnInv, Placed
<1>9. \A task \in TurnsIn(queue) : task.turn \in DOMAIN said
  BY DEF TurnInv, JobsTrue, JobTrue, TurnsIn
<1>10. JobsTrue'
  <2>1. ASSUME NEW task \in JobsOf(queue') PROVE JobTrue(task)'
    <3>1. CASE task \in JobsOf(queue)
      <4>1. JobTrue(task)
        BY <3>1 DEF TurnInv, JobsTrue
      <4> QED
        BY <1>5, <4>1 DEF JobTrue
    <3>2. CASE task = first /\ CaptureAllowed
      BY <1>1, <1>4, <1>5, <3>2 DEF JobTrue
    <3>3. CASE task = second
      BY <1>1, <1>4, <1>5, <3>3 DEF JobTrue
    <3> QED
      BY <1>6, <2>1, <3>1, <3>2, <3>3
  <2> QED
    BY <1>3, <1>5, <2>1 DEF TurnInv, JobsTrue
<1>11. QueueInOrder'
  <2>1. \A task \in TurnsIn(queue) : task.turn < t
    BY <1>5, <1>9
  <2>2. Rising(mid)
    BY <1>1, <1>2, <1>4, <2>1, AppendOf DEF TurnInv, QueueInOrder
  <2>3. Rising(queue')
    BY <1>1, <1>4, <2>2, AppendOf
  <2>4. \A i \in DOMAIN captured : captured[i].turn < t
    BY <1>5 DEF TurnInv, JobsTrue
  <2>5. Before(captured', queue')
    BY <1>3, <1>4, <1>7, <2>4 DEF TurnInv, QueueInOrder, Before
  <2> QED
    BY <2>3, <2>5 DEF QueueInOrder
<1>12. Counted'
  <2>1. TimedOut' => TimedOut
    BY <1>3, <1>4, <1>6 DEF TimedOut
  <2> QED
    BY <1>3, <2>1 DEF TurnInv, Counted, Own
<1>13. TrustsTrue'
  <2>1. SUFFICES ASSUME NEW task \in TurnsIn(queue') PROVE TrustTrue(task)'
    BY DEF TrustsTrue
  <2>2. CASE task \in TurnsIn(queue)
    <3>1. TrustTrue(task) /\ task.turn \in DOMAIN said
      BY <1>9, <2>2 DEF TurnInv, TrustsTrue
    <3> QED
      BY <1>3, <1>5, <3>1 DEF TrustTrue, Steady, IdentityFor
  <2>3. CASE task = first
    <3>1. s \in Guests => IdentityFor(s) = "known_user"
      BY DEF TurnInv, Placed, IdentityFor
    <3>2. s \in Mains => s = session /\ IdentityFor(s) = identity[session]
      <4>1. s \in Mains => s = session
        BY SessionsAssumption DEF s, SidOf, Channels
      <4>2. identity[session] # None
        BY <1>3 DEF TurnInv, Placed
      <4> QED
        BY <4>1, <4>2 DEF IdentityFor
    <3>3. said'[task.turn].trust = IdentityFor(s) /\ task.sid = s
      BY <1>1, <1>4, <1>5, <2>3
    <3>4. IdentityFor(task.sid)' = IdentityFor(task.sid) /\ identity'[session'] = identity[session]
      BY <1>3 DEF IdentityFor
    <3> QED
      BY <3>1, <3>2, <3>3, <3>4 DEF TrustTrue
  <2> QED
    BY <1>7, <2>1, <2>2, <2>3
<1>14. TrustHeld'
  <2>1. \A i \in DOMAIN captured : captured[i].turn \in DOMAIN said
    BY DEF TurnInv, JobsTrue
  <2>2. TrustKept'
    BY <1>3, <1>5, <2>1 DEF TurnInv, TrustHeld, TrustKept
  <2>3. ProfileForOwner'
    BY <1>3 DEF TurnInv, TrustHeld, ProfileForOwner, IdentityFor
  <2> QED
    BY <2>2, <2>3 DEF TrustHeld
<1>15. AllFollowed'
  <2>1. SUFFICES ASSUME NEW task \in JobsOf(queue'), task.kind = "retrieve" PROVE Followed(task)'
    BY DEF AllFollowed, Followed
  <2>2. CASE task \in JobsOf(queue)
    <3>1. Followed(task) /\ task.turn \in DOMAIN said
      BY <2>1, <2>2 DEF TurnInv, AllFollowed, JobsTrue, JobTrue
    <3>2. counted \subseteq counted'
      BY <1>3
    <3> QED
      BY <1>3, <1>5, <3>1, <3>2 DEF Followed, Renamed
  <2>3. CASE task = second
    <3>1. said'[task.turn] = turn /\ task.sid = s
      BY <1>4, <1>5, <2>3
    <3> QED
      BY <1>1, <1>3, <3>1 DEF Followed, Renamed
  <2> QED
    BY <1>4, <1>6, <2>1, <2>2, <2>3
<1>16. EveryTurnKept'
  <2>1. Captured' = Captured
    BY <1>3 DEF Captured
  <2>2. Waiting' = IF CaptureAllowed THEN Waiting \cup {t} ELSE Waiting
    <3>1. /\ Waiting = {task.turn : task \in TurnsIn(queue)} /\ Waiting' = {task.turn : task \in TurnsIn(queue')}
      BY <1>2, Reading, ReadingNext
    <3> QED
      BY <1>4, <1>7, <3>1
  <2>3. \A u \in Captured : u \in DOMAIN said /\ said[u].kept
    BY DEF TurnInv, JobsTrue, JobsKept, EveryTurnKept, Captured
  <2>4. \A u \in DOMAIN said' : said'[u].kept => u \in Captured' \cup Waiting' \cup lost'
    <3>1. \A u \in DOMAIN said : said[u].kept => u \in Captured \cup Waiting \cup lost
      BY DEF TurnInv, JobsKept, EveryTurnKept
    <3> QED
      BY <1>1, <1>3, <1>5, <2>1, <2>2, <3>1
  <2>5. host' # "off"
    BY <1>3
  <2> QED
    BY <1>3, <1>5, <2>1, <2>3, <2>4, <2>5 DEF TurnInv, JobsKept, EveryTurnKept
<1>17. OnlyResetDrops'
  BY <1>3, <1>5 DEF TurnInv, JobsTrue, JobsKept, OnlyResetDrops
<1> QED
  BY <1>2, <1>8, <1>10, <1>11, <1>12, <1>13, <1>14, <1>15, <1>16, <1>17 DEF TurnInv, JobsKept

\* A process that goes on, or a new one, opens its session.
LEMMA InitializeKeeps == ASSUME TurnInv, NEW fresh \in BOOLEAN, Initialize(fresh) PROVE TurnInv'
<1>1. /\ ProviderTypeOK /\ ProviderTypeOK' /\ queue \in Seq(Work) /\ faults \in Nat
      /\ identity \in [Sessions -> Trusts \cup {None}] /\ Mains \subseteq Sessions
  BY InitializeTyped, Types DEF TurnInv, ProviderTypeOK, Sessions
<1>2. PICK s \in Mains, opened \in BOOLEAN, trust \in Trusts :
        /\ faults' = IF opened THEN faults ELSE faults + 1
        /\ session' = s
        /\ trust = IF person = "cli" \/ (person = "enrolled" /\ opened) THEN "owner" ELSE "known_user"
        /\ identity' = [IF fresh THEN [t \in Sessions |-> None] ELSE identity EXCEPT ![s] = trust]
        /\ lane1' = "snapshot" => trust = "owner"
  BY DEF Initialize, Trusts
<1>3. /\ host = "off" /\ host' = "up" /\ worker'.at # "none"
      /\ (worker'.at = "search" => worker' = worker)
      /\ UNCHANGED <<person, captured, said, left, away, twice, dropped>>
      /\ IF fresh THEN queue' = << >> ELSE UNCHANGED <<queue, counted, alias, lost>>
      /\ lost' = IF fresh THEN lost \cup Waiting ELSE lost
  BY DEF Initialize, db, Doing, Waiting
<1>4. /\ s \in Sessions /\ s \notin Guests /\ s # None /\ trust # None /\ identity'[s] = trust
      /\ \A x \in Sessions \ {s} : identity'[x] = IF fresh THEN None ELSE identity[x]
  BY <1>1, <1>2, SessionsAssumption DEF Trusts
<1>5. faults' \in Nat /\ faults' >= faults
  BY <1>1, <1>2
<1>6. trust # Own => person = "enrolled" /\ faults' = faults + 1
  BY <1>1, <1>2, ContextsAssumption DEF Own, ProviderTypeOK
<1>7. JobsOf(queue') \subseteq JobsOf(queue) /\ TurnsIn(queue') \subseteq TurnsIn(queue)
      /\ (JobsOf(queue') # {} => ~fresh /\ queue # << >>)
  BY <1>3 DEF JobsOf, TurnsIn
<1>8. queue # << >> => session # None /\ TimedOut /\ faults > 0
  BY <1>3 DEF TurnInv, Placed, Counted, TimedOut
<1>9. Placed'
  BY <1>2, <1>3, <1>4, SessionsAssumption DEF TurnInv, Placed, Sessions
<1>10. JobsTrue'
  <2>1. \A task \in JobsOf(queue') : JobTrue(task)'
    BY <1>3, <1>7 DEF TurnInv, JobsTrue, JobTrue
  <2> QED
    BY <1>3, <2>1 DEF TurnInv, JobsTrue
<1>11. QueueInOrder'
  <2>1. Rising(queue')
    BY <1>3 DEF TurnInv, QueueInOrder, Rising
  <2>2. Before(captured', queue')
    BY <1>3, <1>7 DEF TurnInv, QueueInOrder, Before
  <2> QED
    BY <2>1, <2>2 DEF QueueInOrder
<1>12. Counted'
  <2>1. TimedOut' => TimedOut /\ faults > 0
    BY <1>3, <1>7, <1>8 DEF TimedOut
  <2>2. Own' = Own
    BY <1>3 DEF Own
  <2>3. identity'[session'] = trust
    BY <1>2, <1>4
  <2> QED
    BY <1>1, <1>2, <1>3, <1>5, <1>6, <2>1, <2>2, <2>3 DEF Counted
<1>13. TrustsTrue'
  <2>1. SUFFICES ASSUME NEW task \in TurnsIn(queue') PROVE TrustTrue(task)'
    BY DEF TrustsTrue
  <2>2. /\ TrustTrue(task) /\ task.sid \in Sessions /\ ~fresh
        /\ session # None /\ TimedOut /\ faults > 0
    <3>1. task \in TurnsIn(queue) /\ task \in JobsOf(queue') /\ task \in JobsOf(queue) /\ task.kind = "turn"
      BY <1>7, <2>1 DEF TurnsIn
    <3>2. task.sid = said[task.turn].sid /\ task.turn \in DOMAIN said
      BY <3>1 DEF TurnInv, JobsTrue, JobTrue
    <3> QED
      BY <1>1, <1>7, <1>8, <3>1, <3>2, Reading DEF TurnInv, TrustsTrue
  <2>3. ASSUME Steady' PROVE Steady /\ identity[session] = trust
    <3>1. Steady
      BY <1>3, <1>5, <1>1, <2>3 DEF Steady
    <3>2. trust = Own
      BY <1>1, <1>3, <1>6, <2>2, <2>3 DEF Steady
    <3>3. identity[session] = Own
      BY <1>1, <1>3, <1>5, <2>2, <2>3, <3>1 DEF TurnInv, Counted, Steady
    <3> QED
      BY <3>1, <3>2, <3>3
  <2>4. task.sid \in Guests => said'[task.turn].trust = "known_user"
    BY <1>3, <2>2 DEF TrustTrue
  <2>5. ASSUME task.sid \in Mains, Steady'
        PROVE  /\ said'[task.turn].trust = identity'[session']
               /\ IdentityFor(task.sid)' \in {said'[task.turn].trust, "known_user"}
               /\ IdentityFor(task.sid)' = said'[task.turn].trust \/ task.sid \in left'
    <3>1. said[task.turn].trust = trust /\ identity'[session'] = trust
      BY <1>2, <1>4, <2>2, <2>3, <2>5 DEF TrustTrue
    <3>2. CASE task.sid = s
      <4>1. IdentityFor(task.sid)' = trust
        BY <1>4, <3>2 DEF IdentityFor
      <4> QED
        BY <1>3, <3>1, <4>1
    <3>3. CASE task.sid # s
      <4>1. identity'[task.sid] = identity[task.sid]
        BY <1>4, <2>2, <3>3
      <4>2. IdentityFor(task.sid)' = IdentityFor(task.sid)
        BY <4>1 DEF IdentityFor
      <4> QED
        BY <1>3, <2>2, <2>3, <2>5, <3>1, <4>2 DEF TrustTrue
    <3> QED
      BY <3>2, <3>3
  <2> QED
    BY <2>4, <2>5 DEF TrustTrue
<1>14. TrustHeld'
  <2>1. TrustKept'
    BY <1>1, <1>3, <1>5 DEF TurnInv, TrustHeld, TrustKept
  <2>2. ProfileForOwner'
    BY <1>2, <1>4 DEF ProfileForOwner, IdentityFor
  <2> QED
    BY <2>1, <2>2 DEF TrustHeld
<1>15. AllFollowed'
  BY <1>3, <1>7 DEF TurnInv, AllFollowed, Followed, Renamed
<1>16. EveryTurnKept'
  <2>1. Captured' = Captured
    BY <1>3 DEF Captured
  <2>2. ~fresh => Waiting' = Waiting
    BY <1>3 DEF Waiting
  <2> QED
    BY <1>3, <2>1, <2>2 DEF TurnInv, JobsKept, EveryTurnKept
<1>17. OnlyResetDrops'
  BY <1>3 DEF TurnInv, JobsKept, OnlyResetDrops
<1> QED
  BY <1>1, <1>9, <1>10, <1>11, <1>12, <1>13, <1>14, <1>15, <1>16, <1>17 DEF TurnInv, JobsKept

\* A switch takes the identity along, and what is followed by name.
LEMMA SwitchKeeps ==
    ASSUME TurnInv, NEW new \in Mains \ {session}, ResetTo(new) \/ ContinueAs(new)
    PROVE  TurnInv'
<1> DEFINE old == session
<1>1. /\ ProviderTypeOK /\ ProviderTypeOK' /\ faults \in Nat /\ old \in Mains /\ old \in Sessions
      /\ new \in Sessions /\ new # old /\ old # None /\ new # None /\ Mains \cap Guests = {}
      /\ identity \in [Sessions -> Trusts \cup {None}] /\ alias \in [Sessions -> Mains \cup {None}]
  BY SwitchTyped, Types, SessionsAssumption DEF TurnInv, ProviderTypeOK, Sessions
<1>2. /\ UNCHANGED <<person, host, queue, worker, captured, said, lost, dropped, faults>>
      /\ session' = new /\ left' = left \cup {old} /\ host = "up"
  BY DEF ResetTo, ContinueAs, Leave, db
<1>3. identity[old] # None
  BY <1>1 DEF TurnInv, Placed
<1>4. /\ identity'[new] = identity[old] /\ identity'[old] = None
      /\ \A x \in Sessions \ {old, new} : identity'[x] = identity[x]
  <2>1. identity' = [identity EXCEPT ![new] = identity[old], ![old] = None]
    BY <1>3 DEF ResetTo, ContinueAs, Moved, IdentityFor
  <2> QED
    BY <1>1, <2>1
<1>5. Placed'
  BY <1>1, <1>2, <1>3, <1>4 DEF TurnInv, Placed, Sessions
<1>6. JobsTrue' /\ QueueInOrder'
  BY <1>2 DEF TurnInv, JobsTrue, JobTrue, QueueInOrder
<1>7. Counted'
  <2>1. TimedOut' <=> TimedOut
    BY <1>2 DEF TimedOut
  <2> QED
    BY <1>1, <1>2, <1>4, <2>1 DEF TurnInv, Counted, Own
<1>8. TrustsTrue'
  <2>1. SUFFICES ASSUME NEW task \in TurnsIn(queue) PROVE TrustTrue(task)'
    BY <1>2 DEF TrustsTrue
  <2>2. TrustTrue(task) /\ task.sid \in Sessions
    <3>1. task \in JobsOf(queue) /\ task.kind = "turn"
      BY <2>1 DEF TurnsIn
    <3>2. task.sid = said[task.turn].sid /\ task.turn \in DOMAIN said
      BY <3>1 DEF TurnInv, JobsTrue, JobTrue
    <3> QED
      BY <1>1, <3>1, <3>2, Reading DEF TurnInv, TrustsTrue
  <2>3. ASSUME task.sid \in Mains, Steady'
        PROVE  /\ said'[task.turn].trust = identity'[session']
               /\ IdentityFor(task.sid)' \in {said'[task.turn].trust, "known_user"}
               /\ IdentityFor(task.sid)' = said'[task.turn].trust \/ task.sid \in left'
    <3>1. /\ said[task.turn].trust = identity[old]
          /\ IdentityFor(task.sid) \in {said[task.turn].trust, "known_user"}
          /\ IdentityFor(task.sid) = said[task.turn].trust \/ task.sid \in left
      BY <1>2, <2>2, <2>3 DEF TrustTrue, Steady
    <3>2. CASE task.sid = old
      <4>1. IdentityFor(task.sid)' = "known_user"
        BY <1>4, <3>2 DEF IdentityFor
      <4> QED
        BY <1>2, <1>4, <3>1, <3>2, <4>1
    <3>3. CASE task.sid = new
      <4>1. IdentityFor(task.sid)' = identity[old]
        BY <1>3, <1>4, <3>3 DEF IdentityFor
      <4> QED
        BY <1>2, <1>4, <3>1, <4>1
    <3>4. CASE task.sid \notin {old, new}
      <4>1. IdentityFor(task.sid)' = IdentityFor(task.sid)
        BY <1>4, <2>2, <3>4 DEF IdentityFor
      <4> QED
        BY <1>2, <1>4, <3>1, <4>1
    <3> QED
      BY <3>2, <3>3, <3>4
  <2> QED
    BY <1>2, <2>2, <2>3 DEF TrustTrue
<1>9. TrustHeld'
  <2>1. TrustKept'
    BY <1>2 DEF TurnInv, TrustHeld, TrustKept
  <2>2. ProfileForOwner'
    <3>1. IdentityFor(session)' = IdentityFor(session)
      BY <1>2, <1>3, <1>4 DEF IdentityFor
    <3>2. ASSUME ContinueAs(new) PROVE ProfileForOwner'
      BY <3>1, <3>2 DEF ContinueAs, TurnInv, TrustHeld, ProfileForOwner
    <3>3. ASSUME ResetTo(new) PROVE ProfileForOwner'
      <4>1. CASE lane1' = "snapshot" /\ StagedFor(new)
        <5>1. identity'[session'] = "owner" /\ None # "owner"
          BY <1>2, <4>1, SessionsAssumption DEF StagedFor
        <5> QED
          BY <5>1 DEF ProfileForOwner, IdentityFor
      <4>2. CASE lane1' = lane1
        BY <3>1, <4>2 DEF TurnInv, TrustHeld, ProfileForOwner
      <4>3. CASE lane1' = "static"
        BY <4>3 DEF ProfileForOwner
      <4> QED
        BY <3>3, <4>1, <4>2, <4>3 DEF ResetTo
    <3> QED
      BY <3>2, <3>3
  <2> QED
    BY <2>1, <2>2 DEF TrustHeld
<1>10. AllFollowed'
  <2>1. SUFFICES ASSUME NEW task \in JobsOf(queue), task.kind = "retrieve", said[task.turn].kept,
                        ~said[task.turn].resumed, task.sid \notin away', task.sid \notin twice'
                 PROVE  LET s == Renamed(task.sid)'
                        IN s \in counted' \cup away' \/ alias'[s] # None
    BY <1>2 DEF AllFollowed, Followed
  <2>2. Followed(task) /\ task.sid \in Sessions
    <3>1. task.sid = said[task.turn].sid /\ task.turn \in DOMAIN said
      BY <2>1 DEF TurnInv, JobsTrue, JobTrue
    <3> QED
      BY <1>1, <2>1, <3>1, Reading DEF TurnInv, AllFollowed
  <2>3. away \subseteq away' /\ twice \subseteq twice'
    BY DEF ResetTo, ContinueAs
  <2> DEFINE s == Renamed(task.sid)
  <2>4. s \in counted \cup away \/ alias[s] # None
    BY <2>1, <2>2, <2>3 DEF Followed
  <2>5. s \in Sessions
    BY <1>1, <2>2 DEF Renamed, Sessions
  <2>6. ASSUME ResetTo(new)
        PROVE  Renamed(task.sid)' \in counted' \cup away' \/ alias'[Renamed(task.sid)'] # None
    <3>1. /\ alias' = alias /\ counted' = counted \ {old} /\ away' = away \cup {old}
      BY <2>6 DEF ResetTo
    <3>2. Renamed(task.sid)' = s
      BY <3>1 DEF Renamed
    <3> QED
      BY <2>4, <3>1, <3>2
  <2>7. ASSUME ContinueAs(new)
        PROVE  Renamed(task.sid)' \in counted' \cup away' \/ alias'[Renamed(task.sid)'] # None
    <3>1. /\ alias' = [alias EXCEPT ![old] = new] /\ away' = away
          /\ counted' = IF old \in counted THEN (counted \ {old}) \cup {new} ELSE counted
          /\ twice' = IF alias[old] = None THEN twice ELSE twice \cup {old}
      BY <2>7 DEF ContinueAs
    <3>2. /\ alias'[old] = new /\ \A x \in Sessions \ {old} : alias'[x] = alias[x]
      BY <1>1, <3>1
    <3>3. CASE task.sid = old
      <4>1. alias[old] = None /\ s = old
        BY <2>1, <3>1, <3>3 DEF Renamed
      <4>2. old \in counted
        BY <2>1, <2>4, <3>1, <3>3, <4>1
      <4>3. Renamed(task.sid)' = new
        BY <1>1, <3>2, <3>3 DEF Renamed
      <4> QED
        BY <3>1, <4>2, <4>3
    <3>4. CASE task.sid # old
      <4>1. Renamed(task.sid)' = s
        BY <2>2, <3>2, <3>4 DEF Renamed
      <4>2. CASE s = old
        BY <1>1, <3>2, <4>1, <4>2
      <4>3. CASE s # old
        <5>1. alias'[s] = alias[s]
          BY <2>5, <3>2, <4>3
        <5>2. s \in counted => s \in counted'
          BY <3>1, <4>3
        <5> QED
          BY <2>4, <3>1, <4>1, <5>1, <5>2
      <4> QED
        BY <4>2, <4>3
    <3> QED
      BY <3>3, <3>4
  <2> QED
    BY <2>6, <2>7
<1>11. EveryTurnKept'
  <2>1. Captured' = Captured /\ Waiting' = Waiting
    BY <1>2 DEF Captured, Waiting
  <2> QED
    BY <1>2, <2>1 DEF TurnInv, JobsKept, EveryTurnKept
<1>12. OnlyResetDrops'
  <2>1. away \subseteq away' /\ twice \subseteq twice'
    BY DEF ResetTo, ContinueAs
  <2> QED
    BY <1>2, <2>1 DEF TurnInv, JobsKept, OnlyResetDrops
<1> QED
  BY <1>1, <1>5, <1>6, <1>7, <1>8, <1>9, <1>10, <1>11, <1>12 DEF TurnInv, JobsKept

-----------------------------------------------------------------------------
LEMMA TurnInvStarts == ProviderInit => TurnInv
<1> SUFFICES ASSUME ProviderInit PROVE TurnInv
  OBVIOUS
<1>1. /\ said = << >> /\ queue = << >> /\ captured = << >> /\ DOMAIN captured = {} /\ DOMAIN queue = {}
      /\ DOMAIN said = {}
  BY DEF ProviderInit
<1>2. MaxTurns \in Nat
  BY ProviderBoundsAssumption
<1>3. ProviderTypeOK
  <2>1. lane2 \in [Sessions -> 0..MaxTurns] /\ pending \in [Sessions -> 0..MaxTurns]
    BY <1>2 DEF ProviderInit
  <2>2. worker \in [at : {"none", "connect", "loop", "search", "tick"},
                    sid : Sessions \cup {None}, turn : 0..MaxTurns]
    BY <1>2 DEF ProviderInit, NoThread
  <2> QED
    BY <1>1, <2>1, <2>2, ContextsAssumption DEF ProviderInit, ProviderTypeOK
<1>4. JobsOf(queue) = {} /\ TurnsIn(queue) = {}
  BY <1>1 DEF JobsOf, TurnsIn
<1>5. Placed
  BY DEF ProviderInit, Placed, Sessions, NoThread
<1>6. JobsTrue /\ QueueInOrder /\ TrustsTrue /\ AllFollowed
  BY <1>1, <1>4 DEF ProviderInit, NoThread, JobsTrue, QueueInOrder, Rising, Before, TrustsTrue, AllFollowed
<1>7. Counted
  BY <1>1 DEF ProviderInit, Counted, TimedOut, NoThread
<1>8. TrustHeld
  BY <1>1 DEF ProviderInit, TrustHeld, TrustKept, ProfileForOwner
<1>9. JobsKept
  BY <1>1 DEF ProviderInit, JobsKept, EveryTurnKept, OnlyResetDrops, Captured, Waiting
<1> QED
  BY <1>3, <1>5, <1>6, <1>7, <1>8, <1>9 DEF TurnInv

LEMMA TurnInvStep == TurnInv /\ [ProviderNext]_providerVars => TurnInv'
<1> SUFFICES ASSUME TurnInv, [ProviderNext]_providerVars PROVE TurnInv'
  OBVIOUS
<1>1. ASSUME NEW fresh \in BOOLEAN, Initialize(fresh) PROVE TurnInv'
  BY <1>1, InitializeKeeps
<1>2. ASSUME Shutdown \/ Joined \/ JoinTimeout \/ SessionEnd PROVE TurnInv'
  BY <1>2, HostKeeps
<1>3. ASSUME NEW c \in Channels, TurnEnd(c) PROVE TurnInv'
  BY <1>3, TurnEndKeeps
<1>4. ASSUME NEW new \in Mains \ {session}, ResetTo(new) \/ ContinueAs(new) PROVE TurnInv'
  BY <1>4, SwitchKeeps
<1>5. ASSUME \/ \E c \in Channels : TurnBegin(c)
             \/ Connect \/ Found \/ SearchFails \/ Tick \/ TickDone \/ UNCHANGED providerVars
      PROVE  TurnInv'
  <2>1. ProviderTypeOK'
    BY <1>5, OtherTyped, FoundTyped DEF TurnInv
  <2>2. faults \in Nat /\ (faults' = faults \/ faults' = faults + 1)
    BY <1>5, Types DEF TurnInv, TurnBegin, Connect, Found, SearchFails, Tick, TickDone, Fault, counters, providerVars
  <2>3. /\ worker'.at = "none" <=> worker.at = "none"
        /\ worker'.at = "search" => worker' = worker
    BY <1>5 DEF TurnBegin, Connect, Found, SearchFails, Tick, TickDone, Doing, providerVars
  <2>4. /\ UNCHANGED <<person, host, session, identity, counted, alias, lane1, queue, captured>>
        /\ UNCHANGED <<said, lost, left, away, twice, dropped>>
    BY <1>5 DEF TurnBegin, Connect, Found, SearchFails, Tick, TickDone, hostVars, perSession, lanes, db,
                history, providerVars
  <2>5. faults' >= faults
    BY <2>2
  <2> QED
    BY <2>1, <2>3, <2>4, <2>5, CalmKeeps
<1>6. ASSUME CaptureTurn PROVE TurnInv'
  BY <1>6, CaptureKeeps
<1>7. ASSUME Retrieve PROVE TurnInv'
  BY <1>7, RetrieveKeeps
<1>8. ASSUME EndSession \/ End \/ Discard PROVE TurnInv'
  BY <1>8, PassKeeps
<1> QED
  BY <1>1, <1>2, <1>3, <1>4, <1>5, <1>6, <1>7, <1>8 DEF ProviderNext, Thread

\* Whatever the host calls and whenever the thread runs, the invariant holds.
THEOREM TurnInvHolds == ProviderSpec => []TurnInv
  BY TurnInvStarts, TurnInvStep, PTL DEF ProviderSpec

\* Every turn the host was told is kept waits, was reported lost or is an
\* episode, one and in order; a retrieval is dropped only for a reset or a
\* name renamed twice.
THEOREM JobsHold == ProviderSpec => []JobsKept
<1>1. TurnInv => JobsKept
  BY DEF TurnInv
<1> QED
  BY <1>1, TurnInvHolds, PTL

\* No episode is kept with more trust than its turn was said with, while the
\* trust of the session could be told; lane 1 shows a profile to its owner.
THEOREM TrustHolds == ProviderSpec => []TrustHeld
<1>1. TurnInv => TrustHeld
  BY DEF TurnInv
<1> QED
  BY <1>1, TurnInvHolds, PTL

-----------------------------------------------------------------------------
\* The invariant of the credits.  The retrievals that were not answered: they
\* wait, or the thread is at it.
Retrieving == {task.turn : task \in {j \in JobsOf(queue) : j.kind = "retrieve"}}
              \cup (IF worker.at = "search" THEN {worker.turn} ELSE {})
Credited == UNION {credits[t] : t \in Turns}

\* A retrieval is queued before every later turn, and next to its own.
Ordered(q) ==
    \A i, j \in DOMAIN q :
        i < j /\ q[i].kind = "retrieve" /\ q[j].kind \in {"turn", "retrieve"} => q[i].turn < q[j].turn
Together(q, told) ==
    \A i \in DOMAIN q : i > 1 /\ q[i].kind = "retrieve" /\ told[q[i].turn].kept =>
        q[i - 1].kind = "turn" /\ q[i - 1].turn = q[i].turn
Queued == Ordered(queue) /\ Together(queue, said)

\* While the thread searches, the jobs that wait are of later turns, none of
\* them an episode; it searches for the session of the turn, or that was left.
Searched ==
    worker.at = "search" =>
        /\ \A task \in JobsOf(queue) : task.kind \in {"turn", "retrieve"} => worker.turn < task.turn
        /\ \A task \in JobsOf(queue) : task.kind = "retrieve" /\ said[task.turn].kept => task.turn \in Waiting
        /\ said[worker.turn].sid \in left \cup {worker.sid}

\* A block known is of an earlier turn than any whose retrieval was not
\* answered.
Known ==
    logged \cup {lane2[s] : s \in Sessions} \cup {said[t].served : t \in DOMAIN said}
    \cup {open[c].served : c \in {d \in Channels : open[d] # None}}
Unanswered == \A b \in Known : b <= Len(said) /\ \A v \in Retrieving : b < v

\* Once the turn is an episode, nothing is pending in its session until its
\* retrieval is answered.
Stamped == \A v \in Retrieving \cap Captured : pending[said[v].sid] = 0

\* A batch is one session's, and not yet credited to a turn.
Batches ==
    /\ 0 \notin logged /\ Credited \subseteq logged
    /\ \A s \in Sessions : pending[s] # 0 => pending[s] \in logged \ Credited
    /\ \A r, s \in Sessions : pending[r] = pending[s] /\ r # s => pending[r] = 0
    /\ \A t \in Turns : credits[t] # {} =>
          t \in DOMAIN said /\ \A task \in TurnsIn(queue) : t < task.turn

\* A turn of the session that came before is no episode and will be none.
Missed(s, n) == \E u \in DOMAIN said : u < n /\ said[u].sid = s /\ u \notin Captured \cup Waiting

\* The block in lane 2 has its batch pending, credited or stray.  One that is
\* pending is in lane 2, unless a turn of the session was missed.
Cached ==
    \A s \in Sessions :
        /\ lane2[s] \in logged => lane2[s] \in strays \cup Credited \cup {pending[s]}
        /\ s \in left \/ Missed(s, Len(said) + 1) \/ pending[s] \in strays \cup {0, lane2[s]}

\* The same of the block served to a turn that is open or waits, unless it
\* came while a retrieval was under way.
ServedTrue(given, s, n) ==
    /\ given \in logged => given \in strays \cup Credited \cup {pending[s]}
    /\ Missed(s, n) \/ pending[s] \in strays \cup {0, given}
    /\ \A v \in Retrieving : v < n => said[v].sid # s
OpenServed ==
    \A c \in Channels : open[c] # None =>
        open[c].late \/ open[c].sid \in left \/ ServedTrue(open[c].served, open[c].sid, Len(said) + 1)
AllServed ==
    \A task \in TurnsIn(queue) :
        LET turn == said[task.turn]
        IN turn.late \/ turn.sid \in left \/ ServedTrue(turn.served, turn.sid, task.turn)

\* A turn goes on in the session of its channel, or in one that was left, and
\* a session renamed was left.
Spoken ==
    /\ \A c \in Channels : open[c] # None => host = "up" /\ open[c].sid \in left \cup {SidOf(c)}
    /\ \A s \in Sessions : alias[s] # None => s \in left

CreditInv ==
    /\ Queued /\ Searched /\ Unanswered /\ Stamped /\ Batches
    /\ Cached /\ OpenServed /\ AllServed /\ Spoken /\ TurnCredited

-----------------------------------------------------------------------------
\* What is kept of the order when the first job is taken ...
LEMMA TailOrdered ==
    ASSUME NEW q \in Seq(Work), q # << >>, NEW told
    PROVE  /\ Ordered(q) => Ordered(Tail(q))
           /\ Ordered(q) /\ Head(q).kind = "retrieve" =>
                \A task \in JobsOf(Tail(q)) : task.kind \in {"turn", "retrieve"} => Head(q).turn < task.turn
           /\ Together(q, told) => Together(Tail(q), told)
           /\ Together(q, told) /\ Head(q).kind = "retrieve" =>
                \A task \in JobsOf(Tail(q)) : task.kind = "retrieve" /\ told[task.turn].kept =>
                    \E other \in TurnsIn(Tail(q)) : other.turn = task.turn
<1>1. /\ Head(q) = q[1] /\ 1 \in DOMAIN q /\ DOMAIN q = 1..Len(q)
      /\ Len(q) \in Nat \ {0} /\ DOMAIN Tail(q) = 1..(Len(q) - 1)
      /\ \A i \in DOMAIN Tail(q) : Tail(q)[i] = q[i + 1] /\ i + 1 \in DOMAIN q /\ i \in Nat /\ i >= 1
  OBVIOUS
<1>2. Ordered(q) => Ordered(Tail(q))
  <2>1. SUFFICES ASSUME Ordered(q), NEW i \in DOMAIN Tail(q), NEW j \in DOMAIN Tail(q), i < j,
                        Tail(q)[i].kind = "retrieve", Tail(q)[j].kind \in {"turn", "retrieve"}
                 PROVE  Tail(q)[i].turn < Tail(q)[j].turn
    BY DEF Ordered
  <2>2. i + 1 < j + 1
    BY <1>1, <2>1
  <2> QED
    BY <1>1, <2>1, <2>2 DEF Ordered
<1>3. ASSUME Ordered(q), Head(q).kind = "retrieve", NEW task \in JobsOf(Tail(q)),
             task.kind \in {"turn", "retrieve"}
      PROVE  Head(q).turn < task.turn
  <2>1. PICK i \in DOMAIN Tail(q) : task = Tail(q)[i]
    BY DEF JobsOf
  <2>2. 1 < i + 1
    BY <1>1
  <2> QED
    BY <1>1, <1>3, <2>1, <2>2 DEF Ordered
<1>4. Together(q, told) => Together(Tail(q), told)
  <2>1. SUFFICES ASSUME Together(q, told), NEW i \in DOMAIN Tail(q), i > 1, Tail(q)[i].kind = "retrieve",
                        told[Tail(q)[i].turn].kept
                 PROVE  Tail(q)[i - 1].kind = "turn" /\ Tail(q)[i - 1].turn = Tail(q)[i].turn
    BY DEF Together
  <2>2. i - 1 \in DOMAIN Tail(q) /\ (i - 1) + 1 = i /\ i + 1 > 1 /\ (i + 1) - 1 = i
    BY <1>1, <2>1
  <2> QED
    BY <1>1, <2>1, <2>2 DEF Together
<1>5. ASSUME Together(q, told), Head(q).kind = "retrieve", NEW task \in JobsOf(Tail(q)),
             task.kind = "retrieve", told[task.turn].kept
      PROVE  \E other \in TurnsIn(Tail(q)) : other.turn = task.turn
  <2>1. PICK i \in DOMAIN Tail(q) : task = Tail(q)[i]
    BY DEF JobsOf
  <2>2. i + 1 > 1 /\ (i + 1) - 1 = i /\ i \in DOMAIN q
    BY <1>1
  <2>3. q[i].kind = "turn" /\ q[i].turn = task.turn
    BY <1>1, <1>5, <2>1, <2>2 DEF Together
  <2>4. i # 1
    BY <1>1, <1>5, <2>3
  <2>5. i - 1 \in DOMAIN Tail(q) /\ (i - 1) + 1 = i
    BY <1>1, <2>4
  <2>6. Tail(q)[i - 1] = q[i]
    BY <1>1, <2>5
  <2> QED
    BY <2>3, <2>5, <2>6 DEF TurnsIn, JobsOf
<1> QED
  BY <1>2, <1>3, <1>4, <1>5

\* ... and when one is queued.
LEMMA AppendOrdered ==
    ASSUME NEW q \in Seq(Work), NEW task \in Work, NEW told
    PROVE  /\ Ordered(q) /\ (task.kind \in {"turn", "retrieve"} =>
                                \A j \in JobsOf(q) : j.kind = "retrieve" => j.turn < task.turn) =>
                Ordered(Append(q, task))
           /\ Together(q, told) /\ (task.kind = "retrieve" /\ told[task.turn].kept =>
                                      q # << >> /\ q[Len(q)].kind = "turn" /\ q[Len(q)].turn = task.turn) =>
                Together(Append(q, task), told)
<1> DEFINE r == Append(q, task)
<1>1. /\ Len(q) \in Nat /\ DOMAIN q = 1..Len(q) /\ DOMAIN r = 1..(Len(q) + 1)
      /\ r[Len(q) + 1] = task /\ \A i \in DOMAIN q : r[i] = q[i]
  OBVIOUS
<1> HIDE DEF r
<1>2. \A i \in DOMAIN r : i = Len(q) + 1 \/ i \in DOMAIN q
  BY <1>1
<1>3. ASSUME Ordered(q), task.kind \in {"turn", "retrieve"} =>
                            \A j \in JobsOf(q) : j.kind = "retrieve" => j.turn < task.turn
      PROVE  Ordered(r)
  <2>1. SUFFICES ASSUME NEW i \in DOMAIN r, NEW j \in DOMAIN r, i < j,
                        r[i].kind = "retrieve", r[j].kind \in {"turn", "retrieve"}
                 PROVE  r[i].turn < r[j].turn
    BY DEF Ordered
  <2>2. i \in DOMAIN q
    BY <1>1, <1>2, <2>1
  <2>3. CASE j \in DOMAIN q
    BY <1>1, <1>3, <2>1, <2>2, <2>3 DEF Ordered
  <2>4. CASE j = Len(q) + 1
    <3>1. q[i] \in JobsOf(q)
      BY <2>2 DEF JobsOf
    <3> QED
      BY <1>1, <1>3, <2>1, <2>2, <2>4, <3>1
  <2> QED
    BY <1>2, <2>3, <2>4
<1>4. ASSUME Together(q, told),
             task.kind = "retrieve" /\ told[task.turn].kept =>
                q # << >> /\ q[Len(q)].kind = "turn" /\ q[Len(q)].turn = task.turn
      PROVE  Together(r, told)
  <2>1. SUFFICES ASSUME NEW i \in DOMAIN r, i > 1, r[i].kind = "retrieve", told[r[i].turn].kept
                 PROVE  r[i - 1].kind = "turn" /\ r[i - 1].turn = r[i].turn
    BY DEF Together
  <2>2. CASE i \in DOMAIN q
    <3>1. i - 1 \in DOMAIN q
      BY <1>1, <2>1, <2>2
    <3> QED
      BY <1>1, <1>4, <2>1, <2>2, <3>1 DEF Together
  <2>3. CASE i = Len(q) + 1
    <3>1. i - 1 = Len(q) /\ Len(q) \in DOMAIN q
      BY <1>1, <2>1, <2>3
    <3> QED
      BY <1>1, <1>4, <2>1, <2>3, <3>1
  <2> QED
    BY <1>2, <2>2, <2>3
<1> QED
  BY <1>3, <1>4 DEF r

\* Steps that take a job, drop them all, or queue one that is of no turn.
Passes ==
    /\ said' = said /\ left \subseteq left' /\ (worker'.at = "search" => worker' = worker)
    /\ \/ queue' = queue
       \/ \E task \in Work : task.kind \in {"marker", "sentinel"} /\ queue' = Append(queue, task)
       \/ worker'.at # "search" /\ (queue' = << >> \/ (queue # << >> /\ queue' = Tail(queue)))
LEMMA PassesQueued ==
    ASSUME TurnInv, CreditInv, Passes
    PROVE  /\ Queued' /\ Searched' /\ Retrieving' \subseteq Retrieving
           /\ JobsOf(queue') \subseteq JobsOf(queue) \cup {task \in Work : task.kind \in {"marker", "sentinel"}}
<1>1. queue \in Seq(Work)
  BY Types DEF TurnInv
<1>2. Ordered(queue) /\ Together(queue, said) /\ said' = said
  BY DEF CreditInv, Queued, Passes
<1>3. /\ Ordered(queue') /\ Together(queue', said)
      /\ JobsOf(queue') \subseteq JobsOf(queue) \cup {task \in Work : task.kind \in {"marker", "sentinel"}}
      /\ worker'.at = "search" => JobsOf(queue) \subseteq JobsOf(queue')
  <2>1. CASE queue' = queue
    BY <1>2, <2>1
  <2>2. ASSUME NEW task \in Work, task.kind \in {"marker", "sentinel"}, queue' = Append(queue, task)
        PROVE  /\ Ordered(queue') /\ Together(queue', said)
               /\ JobsOf(queue') \subseteq JobsOf(queue) \cup {j \in Work : j.kind \in {"marker", "sentinel"}}
               /\ JobsOf(queue) \subseteq JobsOf(queue')
    BY <1>1, <1>2, <2>2, AppendOf, AppendOrdered
  <2>3. CASE worker'.at # "search" /\ queue' = << >>
    BY <2>3 DEF Ordered, Together, JobsOf
  <2>4. CASE worker'.at # "search" /\ queue # << >> /\ queue' = Tail(queue)
    BY <1>1, <1>2, <2>4, TailOf, TailOrdered
  <2> QED
    BY <2>1, <2>2, <2>3, <2>4 DEF Passes
<1>4. Retrieving' \subseteq Retrieving
  BY <1>3 DEF Retrieving, Passes
<1>5. Searched'
  <2>1. SUFFICES ASSUME worker'.at = "search"
                 PROVE  /\ \A task \in JobsOf(queue') : task.kind \in {"turn", "retrieve"} => worker'.turn < task.turn
                        /\ \A task \in JobsOf(queue') : task.kind = "retrieve" /\ said[task.turn].kept => task.turn \in Waiting'
                        /\ said[worker'.turn].sid \in left' \cup {worker'.sid}
    BY <1>2 DEF Searched
  <2>2. worker' = worker /\ Searched /\ left \subseteq left'
    BY <2>1 DEF Passes, CreditInv
  <2>3. Waiting \subseteq Waiting'
    BY <1>3, <2>1, Reading, ReadingNext DEF TurnInv, TurnsIn
  <2> QED
    BY <1>3, <2>1, <2>2, <2>3 DEF Searched
<1> QED
  BY <1>2, <1>3, <1>4, <1>5 DEF Queued

\* What the invariants say of the turns by number.
LEMMA Numbers ==
    ASSUME TurnInv, CreditInv
    PROVE  /\ Len(said) \in Nat /\ DOMAIN said = 1..Len(said) /\ MaxTurns \in Nat
           /\ Retrieving \subseteq DOMAIN said /\ Captured \subseteq DOMAIN said \cap Turns
           /\ Waiting = {task.turn : task \in TurnsIn(queue)}
           /\ \A t \in Captured, task \in TurnsIn(queue) : t < task.turn
           /\ \A t \in DOMAIN said : said[t].sid \in Sessions
           /\ \A task \in TurnsIn(queue) :
                 task.turn \in DOMAIN said \cap Turns /\ said[task.turn].sid = task.sid /\ said[task.turn].kept
<1>1. ProviderTypeOK /\ JobsTrue /\ QueueInOrder
  BY DEF TurnInv
<1>2. Len(said) \in Nat /\ DOMAIN said = 1..Len(said) /\ MaxTurns \in Nat /\ JobsOf(queue) \subseteq Work
  BY <1>1, Types
<1>3. Retrieving \subseteq DOMAIN said
  BY <1>1 DEF Retrieving, JobsTrue, JobTrue
<1>4. /\ \A i \in DOMAIN captured : captured[i].turn \in Turns /\ captured[i].turn \in DOMAIN said
      /\ \A t \in DOMAIN said : said[t].sid \in Sessions
      /\ Waiting = {task.turn : task \in TurnsIn(queue)}
  BY <1>1, Reading DEF JobsTrue
<1>5. Captured \subseteq DOMAIN said \cap Turns
  BY <1>4 DEF Captured
<1>6. \A t \in Captured, task \in TurnsIn(queue) : t < task.turn
  BY <1>1 DEF QueueInOrder, Before, Captured
<1>7. ASSUME NEW task \in TurnsIn(queue)
      PROVE  task.turn \in DOMAIN said \cap Turns /\ said[task.turn].sid = task.sid /\ said[task.turn].kept
  <2>1. task \in JobsOf(queue) /\ task.kind = "turn"
    BY DEF TurnsIn
  <2>2. task.turn \in DOMAIN said /\ said[task.turn].sid = task.sid /\ said[task.turn].kept
    BY <1>1, <2>1 DEF JobsTrue, JobTrue
  <2>3. task.turn \in 0..MaxTurns
    BY <1>2, <2>1 DEF Work
  <2> QED
    BY <1>2, <2>2, <2>3 DEF Turns
<1> QED
  BY <1>2, <1>3, <1>4, <1>5, <1>6, <1>7

\* A turn missed stays so.
LEMMA StaysMissed ==
    ASSUME NEW s, NEW n \in Int, NEW m \in Int, n <= m, Missed(s, n), DOMAIN said \subseteq Nat,
           \A u \in DOMAIN said : u \in DOMAIN said' /\ said'[u] = said[u],
           \A u \in DOMAIN said : u \in Captured' \cup Waiting' => u \in Captured \cup Waiting
    PROVE  Missed(s, m)'
<1>1. PICK u \in DOMAIN said : u < n /\ said[u].sid = s /\ u \notin Captured \cup Waiting
  BY DEF Missed
<1>2. u < m /\ u \in DOMAIN said' /\ said'[u].sid = s /\ u \notin Captured' \cup Waiting'
  BY <1>1
<1> QED
  BY <1>2 DEF Missed

\* A credit stays true when a stray, a block of a later turn or a session
\* left is added.
CreditTrue(t) ==
    LET given == said[t].served
        before == UNION {credits[u] : u \in 1..(t - 1)}
    IN \/ said[t].late \/ said[t].sid \in left
       \/ \E u \in 1..(t - 1) : said[u].sid = said[t].sid /\ u \notin Captured
       \/ credits[t] \ strays = ({given} \cap logged) \ (before \cup strays)
LEMMA CreditStays ==
    ASSUME CreditInv, NEW t \in Captured,
           \A u \in 1..(t - 1) :
              said'[u] = said[u] /\ credits'[u] = credits[u] /\ (u \in Captured' => u \in Captured),
           said'[t] = said[t], credits'[t] = credits[t], strays \subseteq strays', left \subseteq left',
           said[t].served \in logged' <=> said[t].served \in logged
    PROVE  CreditTrue(t)'
<1> DEFINE given == said[t].served
           before == UNION {credits[u] : u \in 1..(t - 1)}
<1>1. \/ said[t].late \/ said[t].sid \in left
      \/ \E u \in 1..(t - 1) : said[u].sid = said[t].sid /\ u \notin Captured
      \/ credits[t] \ strays = ({given} \cap logged) \ (before \cup strays)
  BY DEF CreditInv, TurnCredited
<1>2. before' = before /\ given' = given
  OBVIOUS
<1>3. CASE \E u \in 1..(t - 1) : said[u].sid = said[t].sid /\ u \notin Captured
  <2>1. \E u \in 1..(t - 1) : said'[u].sid = said'[t].sid /\ u \notin Captured'
    BY <1>3
  <2> QED
    BY <2>1 DEF CreditTrue
<1>4. CASE credits[t] \ strays = ({given} \cap logged) \ (before \cup strays)
  <2>1. credits'[t] \ strays' = ({given} \cap logged') \ (before \cup strays')
    BY <1>4
  <2> QED
    BY <1>2, <2>1 DEF CreditTrue
<1> QED
  BY <1>1, <1>3, <1>4 DEF CreditTrue

\* Steps that answer no retrieval and neither log, stamp nor say anything.
Silent ==
    /\ UNCHANGED <<said, captured, pending, credits, logged, open>>
    /\ strays \subseteq strays' /\ left \subseteq left'
    /\ Retrieving' \subseteq Retrieving /\ TurnsIn(queue') \subseteq TurnsIn(queue)
    /\ \A s \in Sessions : lane2'[s] \in {lane2[x] : x \in Sessions} \cup {0}
LEMMA SilentKeeps ==
    ASSUME TurnInv, CreditInv, Silent
    PROVE  /\ Unanswered' /\ Stamped' /\ Batches' /\ OpenServed' /\ AllServed' /\ TurnCredited'
           /\ \A s \in Sessions, n \in Int : Missed(s, n) => Missed(s, n)'
<1>1. /\ Len(said) \in Nat /\ DOMAIN said = 1..Len(said)
      /\ Retrieving \subseteq DOMAIN said /\ Waiting = {task.turn : task \in TurnsIn(queue)}
      /\ \A t \in DOMAIN said : said[t].sid \in Sessions
      /\ \A task \in TurnsIn(queue) : task.turn \in DOMAIN said
  BY Numbers
<1>2. /\ Captured' = Captured /\ Waiting' \subseteq Waiting /\ Credited' = Credited
  BY <1>1, ReadingNext DEF Silent, Captured, Credited
<1>3. ASSUME NEW s \in Sessions, NEW n \in Int, Missed(s, n)
      PROVE  Missed(s, n)'
  BY <1>1, <1>2, <1>3, StaysMissed DEF Silent
<1>4. Unanswered'
  <2>1. \A b \in Known' : b = 0 \/ b \in Known
    BY DEF Silent, Known
  <2>2. \A v \in Retrieving' : v \in Retrieving /\ 0 < v
    BY <1>1 DEF Silent
  <2> QED
    BY <1>1, <2>1, <2>2 DEF Silent, CreditInv, Unanswered
<1>5. Stamped'
  BY <1>2 DEF Silent, CreditInv, Stamped
<1>6. Batches'
  BY <1>2 DEF Silent, CreditInv, Batches
<1>7. ASSUME NEW b, NEW s \in Sessions, NEW n \in Int, ServedTrue(b, s, n)
      PROVE  ServedTrue(b, s, n)'
  <2>1. b \in logged' => b \in strays' \cup Credited' \cup {pending'[s]}
    BY <1>2, <1>7 DEF Silent, ServedTrue
  <2>2. Missed(s, n)' \/ pending'[s] \in strays' \cup {0, b}
    BY <1>3, <1>7 DEF Silent, ServedTrue
  <2>3. \A v \in Retrieving' : v < n => said'[v].sid # s
    BY <1>7 DEF Silent, ServedTrue
  <2> QED
    BY <2>1, <2>2, <2>3 DEF ServedTrue
<1>8. AllServed'
  <2>1. SUFFICES ASSUME NEW task \in TurnsIn(queue'), NEW turn, turn = said[task.turn],
                        ~turn.late, turn.sid \notin left'
                 PROVE  ServedTrue(turn.served, turn.sid, task.turn)'
    BY DEF AllServed, Silent, ServedTrue, Missed
  <2>2. task \in TurnsIn(queue) /\ task.turn \in DOMAIN said /\ turn.sid \in Sessions /\ turn.sid \notin left
    BY <1>1, <2>1 DEF Silent
  <2>3. ServedTrue(turn.served, turn.sid, task.turn)
    BY <2>1, <2>2 DEF CreditInv, AllServed
  <2>4. task.turn \in Int
    BY <1>1, <2>2
  <2> QED
    BY <1>7, <2>2, <2>3, <2>4
<1>9. OpenServed'
  <2>1. SUFFICES ASSUME NEW c \in Channels, open[c] # None, NEW turn, turn = open[c],
                        ~turn.late, turn.sid \notin left', NEW n \in Int, n = Len(said) + 1
                 PROVE  ServedTrue(turn.served, turn.sid, n)'
    <3>1. Len(said) + 1 \in Int
      BY <1>1
    <3> QED
      BY <3>1 DEF OpenServed, Silent, ServedTrue, Missed
  <2>2. ServedTrue(turn.served, turn.sid, n)
    BY <2>1 DEF CreditInv, OpenServed, Silent
  <2>3. turn.sid \in Sessions
    BY <2>1 DEF TurnInv, ProviderTypeOK
  <2> QED
    BY <1>7, <2>2, <2>3
<1>10. TurnCredited'
  <2>1. ASSUME NEW t \in Captured PROVE CreditTrue(t)'
    BY <1>1, <1>2, CreditStays, Numbers DEF Silent
  <2> QED
    BY <1>2, <2>1 DEF TurnCredited, CreditTrue
<1> QED
  BY <1>3, <1>4, <1>5, <1>6, <1>8, <1>9, <1>10

\* What is cached, when no turn is said and no retrieval answered.
LEMMA StillCached ==
    ASSUME TurnInv, CreditInv, Silent, UNCHANGED lane2
    PROVE  Cached'
<1>1. Len(said) + 1 \in Int
  BY Numbers
<1>2. \A s \in Sessions : Missed(s, Len(said) + 1) => Missed(s, Len(said) + 1)'
  <2>1. PICK n \in Int : n = Len(said) + 1
    BY <1>1
  <2>2. \A s \in Sessions : Missed(s, n) => Missed(s, n)'
    BY SilentKeeps
  <2> QED
    BY <2>1, <2>2 DEF Missed, Silent
<1>3. Credited' = Credited
  BY DEF Silent, Credited
<1> QED
  BY <1>2, <1>3 DEF CreditInv, Cached, Silent

\* The steps that only move the host or the thread on, or take a job that is
\* of no retrieval.
LEMMA MoveCredits ==
    ASSUME TurnInv, CreditInv,
           \/ Shutdown \/ Joined \/ JoinTimeout \/ SessionEnd
           \/ Connect \/ Discard \/ EndSession \/ SearchFails \/ Tick \/ TickDone \/ End
           \/ UNCHANGED providerVars
    PROVE  CreditInv'
<1>1. UNCHANGED <<said, captured, pending, credits, logged, open, lane2, strays, left, session, alias>>
  BY DEF Shutdown, Joined, JoinTimeout, SessionEnd, Connect, Discard, EndSession, SearchFails, Tick, TickDone,
         End, Take, hostVars, perSession, lanes, db, history, providerVars
<1>2. Passes
  <2>1. worker'.at = "search" => worker' = worker
    BY DEF Shutdown, Joined, JoinTimeout, SessionEnd, Connect, Discard, EndSession, SearchFails, Tick, TickDone,
           End, Take, Doing, NoThread, providerVars
  <2>2. CASE Shutdown \/ SessionEnd
    <3>1. EndJob \in Work /\ EndJob.kind = "sentinel"
      BY Types DEF TurnInv, EndJob, Work
    <3> DEFINE marker == [kind |-> "marker", sid |-> session, turn |-> 0]
    <3>2. SessionEnd => marker \in Work /\ marker.kind = "marker"
      BY Types DEF TurnInv, SessionEnd, Placed, ProviderTypeOK, Work, Sessions
    <3>3. SessionEnd => queue' = Append(queue, marker)
      BY DEF SessionEnd
    <3>4. Shutdown => queue' = queue \/ queue' = Append(queue, EndJob)
      BY DEF Shutdown, LastJob
    <3> HIDE DEF marker
    <3> QED
      BY <1>1, <2>1, <2>2, <3>1, <3>2, <3>3, <3>4 DEF Passes
  <2>3. CASE Discard \/ EndSession \/ End
    <3>1. worker'.at # "search" /\ queue # << >> /\ queue' = Tail(queue)
      BY <2>3 DEF Discard, EndSession, End, Take, NoThread
    <3> QED
      BY <1>1, <2>1, <3>1 DEF Passes
  <2>4. CASE Joined \/ JoinTimeout \/ Connect \/ SearchFails \/ Tick \/ TickDone \/ UNCHANGED providerVars
    <3>1. queue' = queue
      BY <2>4 DEF Joined, JoinTimeout, Connect, SearchFails, Tick, TickDone, providerVars
    <3> QED
      BY <1>1, <2>1, <3>1 DEF Passes
  <2> QED
    BY <2>2, <2>3, <2>4
<1>3. Silent
  BY <1>1, <1>2, PassesQueued DEF Silent, TurnsIn
<1>4. Spoken'
  <2>1. host = "up" => host' = "up" \/ \A c \in Channels : open[c] = None
    BY DEF Shutdown, Joined, JoinTimeout, SessionEnd, Connect, Discard, EndSession, SearchFails, Tick, TickDone,
           End, Take, hostVars, providerVars
  <2> QED
    BY <1>1, <2>1 DEF CreditInv, Spoken, SidOf
<1> QED
  BY <1>1, <1>2, <1>3, <1>4, PassesQueued, SilentKeeps, StillCached DEF CreditInv

\* A new process starts without jobs and with an empty lane 2; what was
\* pending is stray.
LEMMA InitializeCredits ==
    ASSUME TurnInv, CreditInv, NEW fresh \in BOOLEAN, Initialize(fresh)
    PROVE  CreditInv'
<1>1. /\ UNCHANGED <<said, captured, pending, credits, logged, open, left>>
      /\ host = "off" /\ host' = "up" /\ strays \subseteq strays'
      /\ (worker'.at = "search" => worker' = worker)
      /\ IF fresh
         THEN /\ lane2' = [s \in Sessions |-> 0] /\ alias' = [s \in Sessions |-> None]
              /\ queue' = << >> /\ worker'.at # "search" /\ strays' = strays \cup Unstamped
         ELSE UNCHANGED <<lane2, alias, queue>>
  BY DEF Initialize, db, Doing
<1>2. Passes
  BY <1>1 DEF Passes
<1>3. Silent
  BY <1>1, <1>2, PassesQueued DEF Silent, TurnsIn
<1>4. Cached'
  <2>1. CASE fresh
    <3>1. 0 \notin logged' /\ \A s \in Sessions : lane2'[s] = 0 /\ pending'[s] \in strays' \cup {0}
      BY <1>1, <2>1 DEF Unstamped, CreditInv, Batches
    <3> QED
      BY <3>1 DEF Cached
  <2>2. CASE ~fresh
    BY <1>1, <1>3, <2>2, StillCached
  <2> QED
    BY <2>1, <2>2
<1>5. Spoken'
  BY <1>1 DEF CreditInv, Spoken
<1> QED
  BY <1>2, <1>3, <1>4, <1>5, PassesQueued, SilentKeeps DEF CreditInv

\* At a switch what is pending in either session is stray.
LEMMA SwitchCredits ==
    ASSUME TurnInv, CreditInv, NEW new \in Mains \ {session}, ResetTo(new) \/ ContinueAs(new)
    PROVE  CreditInv'
<1> DEFINE old == session
<1>1. /\ ProviderTypeOK /\ old \in Mains /\ old \in Sessions /\ new \in Sessions /\ new # old
      /\ lane2 \in [Sessions -> 0..MaxTurns] /\ Mains \cap Guests = {} /\ Main \notin Guests
      /\ alias \in [Sessions -> Mains \cup {None}]
  BY SwitchTyped, SessionsAssumption DEF TurnInv, ProviderTypeOK, Sessions
<1>2. /\ UNCHANGED <<said, captured, pending, credits, logged, open, queue, worker, host>>
      /\ session' = new /\ left' = left \cup {old}
      /\ strays' = strays \cup ({pending[old], pending[new]} \ {0})
  BY DEF ResetTo, ContinueAs, Leave, db
<1>3. Passes
  BY <1>2 DEF Passes
<1>4. /\ lane2'[new] \in {0, lane2[new]} \/ (lane2'[new] = lane2[old] /\ lane2[old] # 0)
      /\ lane2'[old] = 0 /\ \A s \in Sessions \ {old, new} : lane2'[s] = lane2[s]
  <2>1. ASSUME ResetTo(new) PROVE lane2' = [lane2 EXCEPT ![old] = 0, ![new] = 0]
    BY <2>1 DEF ResetTo
  <2>2. ASSUME ContinueAs(new)
        PROVE  lane2' = IF lane2[old] = 0 THEN lane2 ELSE [lane2 EXCEPT ![new] = lane2[old], ![old] = 0]
    BY <2>2 DEF ContinueAs, Moved
  <2>3. CASE ResetTo(new)
    BY <1>1, <2>1, <2>3
  <2>4. CASE ContinueAs(new) /\ lane2[old] = 0
    BY <1>1, <2>2, <2>4
  <2>5. CASE ContinueAs(new) /\ lane2[old] # 0
    BY <1>1, <2>2, <2>5
  <2> QED
    BY <2>3, <2>4, <2>5
<1>5. Silent
  <2>1. \A s \in Sessions : lane2'[s] \in {lane2[x] : x \in Sessions} \cup {0}
    BY <1>1, <1>4
  <2> QED
    BY <1>2, <1>3, <2>1, PassesQueued DEF Silent, TurnsIn
<1>6. Cached'
  <2>1. 0 \notin logged /\ Credited' = Credited
    BY <1>2 DEF CreditInv, Batches, Credited
  <2>2. ASSUME NEW s \in Sessions
        PROVE  lane2'[s] \in logged => lane2'[s] \in strays' \cup Credited \cup {pending[s]}
    <3>1. \A x \in Sessions : lane2[x] \in logged => lane2[x] \in strays \cup Credited \cup {pending[x]}
      BY DEF CreditInv, Cached
    <3>2. lane2[old] \in logged => lane2[old] \in strays' \cup Credited
      BY <1>1, <1>2, <2>1, <3>1
    <3>3. strays \subseteq strays'
      BY <1>2
    <3> QED
      BY <1>1, <1>4, <2>1, <3>1, <3>2, <3>3
  <2>3. ASSUME NEW s \in Sessions
        PROVE  \/ s \in left' \/ Missed(s, Len(said) + 1)'
               \/ pending[s] \in strays' \cup {0, lane2'[s]}
    <3>1. CASE s \in {old, new}
      BY <1>2, <3>1
    <3>2. CASE s \notin {old, new}
      <4>1. Missed(s, Len(said) + 1) => Missed(s, Len(said) + 1)'
        BY <1>2 DEF Missed, Captured, Waiting
      <4> QED
        BY <1>2, <1>4, <3>2, <4>1 DEF CreditInv, Cached
    <3> QED
      BY <3>1, <3>2
  <2> QED
    BY <1>2, <2>1, <2>2, <2>3 DEF Cached
<1>7. Spoken'
  <2>1. ASSUME NEW c \in Channels, open[c] # None
        PROVE  open[c].sid \in left' \cup {SidOf(c)'}
    <3>1. open[c].sid \in left \cup {SidOf(c)}
      BY <2>1 DEF CreditInv, Spoken
    <3> QED
      BY <1>2, <3>1 DEF SidOf
  <2>2. \A s \in Sessions : alias'[s] # None => s = old \/ alias[s] # None
    <3>1. alias' = alias \/ alias' = [alias EXCEPT ![old] = new]
      BY DEF ResetTo, ContinueAs
    <3> QED
      BY <1>1, <3>1
  <2> QED
    BY <1>2, <2>1, <2>2 DEF CreditInv, Spoken
<1> QED
  BY <1>3, <1>5, <1>6, <1>7, PassesQueued, SilentKeeps DEF CreditInv

\* A retrieval that is taken is still not answered.
LEMMA RetrieveCredits == ASSUME TurnInv, CreditInv, Retrieve PROVE CreditInv'
<1> DEFINE task == Head(queue)
<1>1. /\ ProviderTypeOK /\ queue \in Seq(Work) /\ queue # << >> /\ queue' = Tail(queue)
      /\ task.kind = "retrieve" /\ task \in JobsOf(queue) /\ JobsOf(queue') \subseteq JobsOf(queue)
  <2>1. queue \in Seq(Work) /\ queue # << >> /\ queue' = Tail(queue) /\ task.kind = "retrieve"
    BY Types DEF TurnInv, Retrieve, Take
  <2> QED
    BY <2>1, TailOf DEF TurnInv
<1>2. /\ UNCHANGED <<said, captured, pending, credits, logged, open, lane2, strays, left, session, alias, host>>
      /\ worker.at = "loop"
      /\ \/ worker' = worker
         \/ worker' = [at |-> "search", sid |-> Renamed(task.sid), turn |-> task.turn]
  BY DEF Retrieve, Take, hostVars, perSession, lanes, db
<1>3. worker'.at = "search" => worker'.turn = task.turn /\ worker'.sid = Renamed(task.sid)
  BY <1>2
<1>4. Retrieving' \subseteq Retrieving
  <2>1. task.turn \in Retrieving
    BY <1>1 DEF Retrieving
  <2> QED
    BY <1>1, <1>3, <2>1 DEF Retrieving
<1>5. Silent
  BY <1>1, <1>2, <1>4 DEF Silent, TurnsIn
<1>6. Queued'
  BY <1>1, <1>2, TailOrdered DEF CreditInv, Queued
<1>7. Searched'
  <2>1. SUFFICES ASSUME worker'.at = "search"
                 PROVE  /\ \A j \in JobsOf(queue') : j.kind \in {"turn", "retrieve"} => task.turn < j.turn
                        /\ \A j \in JobsOf(queue') : j.kind = "retrieve" /\ said[j.turn].kept => j.turn \in Waiting'
                        /\ said[task.turn].sid \in left \cup {Renamed(task.sid)}
    BY <1>2, <1>3 DEF Searched
  <2>2. Ordered(queue) /\ Together(queue, said)
    BY DEF CreditInv, Queued
  <2>3. \A j \in JobsOf(queue') : j.kind \in {"turn", "retrieve"} => task.turn < j.turn
    BY <1>1, <2>2, TailOrdered
  <2>4. \A j \in JobsOf(queue') : j.kind = "retrieve" /\ said[j.turn].kept => j.turn \in Waiting'
    <3>1. \A j \in JobsOf(queue') : j.kind = "retrieve" /\ said[j.turn].kept =>
             \E other \in TurnsIn(queue') : other.turn = j.turn
      BY <1>1, <2>2, TailOrdered
    <3> QED
      BY <3>1, ReadingNext
  <2>5. said[task.turn].sid = task.sid /\ task.sid \in Sessions
    BY <1>1, Numbers, TakeTyped DEF TurnInv, JobsTrue, JobTrue, Retrieve
  <2>6. task.sid \in left \cup {Renamed(task.sid)}
    BY <2>5 DEF CreditInv, Spoken, Renamed
  <2> QED
    BY <2>3, <2>4, <2>5, <2>6
<1>8. Spoken'
  BY <1>2 DEF CreditInv, Spoken, SidOf
<1> QED
  BY <1>2, <1>5, <1>6, <1>7, <1>8, SilentKeeps, StillCached DEF CreditInv

\* A turn is served what is cached; no retrieval is under way or it is late.
LEMMA TurnBeginCredits ==
    ASSUME TurnInv, CreditInv, NEW c \in Channels, TurnBegin(c)
    PROVE  CreditInv'
<1> DEFINE s == SidOf(c)
           turn == [served |-> lane2[s], sid |-> s, late |-> Outstanding]
<1>1. /\ UNCHANGED <<said, captured, pending, credits, logged, lane2, strays, left, session, alias, host>>
      /\ UNCHANGED <<queue, worker>>
      /\ host = "up" /\ open' = [open EXCEPT ![c] = turn]
  BY DEF TurnBegin, hostVars, perSession, lanes, db, history
<1>2. s \in Sessions
  BY DEF TurnInv, Placed, ProviderTypeOK, TurnBegin, SidOf, Channels, Sessions
<1>3. /\ turn.served = lane2[s] /\ turn.sid = s /\ turn.late = Outstanding
  OBVIOUS
<1>4. open'[c] = turn /\ \A d \in Channels \ {c} : open'[d] = open[d]
  BY <1>1 DEF TurnInv, ProviderTypeOK
<1> HIDE DEF turn
<1>5. /\ Retrieving' = Retrieving /\ Captured' = Captured /\ Waiting' = Waiting /\ Credited' = Credited
      /\ TurnsIn(queue') = TurnsIn(queue)
  BY <1>1 DEF Retrieving, Captured, Waiting, Credited
<1>6. Queued' /\ Searched' /\ Stamped' /\ Batches' /\ Cached' /\ AllServed' /\ TurnCredited'
  <2>1. Queued' /\ Searched' /\ Stamped' /\ Batches'
    BY <1>1, <1>5 DEF CreditInv, Queued, Searched, Stamped, Batches
  <2>2. Cached' /\ AllServed'
    BY <1>1, <1>5 DEF CreditInv, Cached, AllServed, ServedTrue, Missed
  <2>3. TurnCredited'
    BY <1>1, <1>5 DEF CreditInv, TurnCredited
  <2> QED
    BY <2>1, <2>2, <2>3
<1>7. Unanswered'
  <2>1. Known' \subseteq Known
    <3>1. lane2[s] \in Known
      BY <1>2 DEF Known
    <3>2. \A d \in Channels : open'[d] # None => open'[d].served \in Known
      BY <1>3, <1>4, <3>1 DEF Known
    <3> QED
      BY <1>1, <3>2 DEF Known
  <2> QED
    BY <1>1, <1>5, <2>1 DEF CreditInv, Unanswered
<1>8. OpenServed'
  <2>1. SUFFICES ASSUME NEW d \in Channels, open'[d] # None, ~open'[d].late, open'[d].sid \notin left
                 PROVE  ServedTrue(open'[d].served, open'[d].sid, Len(said) + 1)
    BY <1>1, <1>5 DEF OpenServed, ServedTrue, Missed
  <2>2. CASE d = c
    <3>1. Retrieving = {}
      <4>1. ~Outstanding
        BY <1>3, <1>4, <2>1, <2>2
      <4>2. \A task \in JobsOf(queue) : task.kind # "retrieve"
        BY <4>1 DEF Outstanding, JobsOf
      <4> QED
        BY <4>1, <4>2 DEF Outstanding, Retrieving
    <3>2. ServedTrue(lane2[s], s, Len(said) + 1)
      BY <1>2, <1>3, <1>4, <2>1, <2>2, <3>1 DEF CreditInv, Cached, ServedTrue
    <3> QED
      BY <1>3, <1>4, <2>2, <3>2
  <2>3. CASE d # c
    BY <1>4, <2>1, <2>3 DEF CreditInv, OpenServed
  <2> QED
    BY <2>2, <2>3
<1>9. Spoken'
  BY <1>1, <1>3, <1>4 DEF CreditInv, Spoken, SidOf
<1> QED
  BY <1>6, <1>7, <1>8, <1>9 DEF CreditInv

\* The turn worked on is credited with what was pending in its session: the
\* block it was served, if it was not credited before and no stray.
LEMMA CaptureCredits == ASSUME TurnInv, CreditInv, CaptureTurn PROVE CreditInv'
<1> SUFFICES ASSUME NEW task, task = Head(queue)
             PROVE  CreditInv'
  OBVIOUS
<1> DEFINE t == task.turn
           s == task.sid
<1>1. /\ ProviderTypeOK /\ queue \in Seq(Work) /\ queue # << >> /\ queue' = Tail(queue)
      /\ task.kind = "turn" /\ task \in TurnsIn(queue) /\ JobsOf(queue) = JobsOf(queue') \cup {task}
      /\ \A j \in TurnsIn(queue') : t < j.turn
  <2>1. queue \in Seq(Work) /\ queue # << >> /\ queue' = Tail(queue) /\ task.kind = "turn"
    BY Types DEF TurnInv, CaptureTurn, Take
  <2> QED
    BY <2>1, TailOf DEF TurnInv, QueueInOrder, TurnsIn
<1>2. /\ UNCHANGED <<said, logged, open, lane2, strays, left, session, alias, host, worker>>
      /\ worker.at = "loop"
      /\ \/ captured' = captured
         \/ captured' = Append(captured, [turn |-> t, trust |-> TrustOf(s)])
      /\ credits' = [credits EXCEPT ![t] = {pending[s]} \ {0}]
      /\ pending' = [pending EXCEPT ![s] = 0]
  BY DEF CaptureTurn, Take, Stamp, hostVars, perSession, lanes
<1>3. /\ Len(said) \in Nat /\ DOMAIN said = 1..Len(said) /\ t \in DOMAIN said /\ t \in Turns
      /\ MaxTurns \in Nat /\ said[t].sid = s /\ s \in Sessions /\ said[t].kept
      /\ pending \in [Sessions -> 0..MaxTurns] /\ credits \in [Turns -> SUBSET Turns] /\ Turns \subseteq Nat
      /\ \A u \in Captured : u < t
      /\ \A u \in DOMAIN said : said[u].sid \in Sessions
      /\ Retrieving \subseteq DOMAIN said /\ Captured \subseteq DOMAIN said \cap Turns
  <2>1. MaxTurns \in Nat /\ Turns \subseteq Nat
    BY Numbers DEF Turns
  <2>2. pending \in [Sessions -> 0..MaxTurns] /\ credits \in [Turns -> SUBSET Turns]
    BY <1>1 DEF ProviderTypeOK
  <2>3. t \in DOMAIN said \cap Turns /\ said[t].sid = s /\ said[t].kept
    BY <1>1, Numbers
  <2> QED
    BY <1>1, <2>1, <2>2, <2>3, Numbers
<1>4. Captured \subseteq Captured' /\ Captured' \subseteq Captured \cup {t}
  <2>1. CASE captured' = captured
    BY <2>1 DEF Captured
  <2>2. CASE captured' = Append(captured, [turn |-> t, trust |-> TrustOf(s)])
    <3> DEFINE Item == [turn : Turns, trust : Trusts]
               item == [turn |-> t, trust |-> TrustOf(s)]
               n == Len(captured)
    <3>1. captured \in Seq(Item)
      BY <1>1 DEF ProviderTypeOK
    <3>2. item.turn = t
      OBVIOUS
    <3>3. captured' = Append(captured, item)
      BY <2>2
    <3> HIDE DEF item, Item
    <3>4. /\ DOMAIN captured' = 1..(n + 1) /\ captured'[n + 1] = item /\ DOMAIN captured = 1..n /\ n \in Nat
          /\ \A i \in DOMAIN captured : captured'[i] = captured[i] /\ i \in DOMAIN captured'
      BY <3>1, <3>3
    <3>5. \A i \in DOMAIN captured' : i \in DOMAIN captured \/ i = n + 1
      BY <3>4
    <3> QED
      BY <3>2, <3>4, <3>5 DEF Captured
  <2> QED
    BY <1>2, <2>1, <2>2
<1>5. Passes
  BY <1>1, <1>2 DEF Passes
<1>6. Queued' /\ Searched' /\ Retrieving' \subseteq Retrieving
  BY <1>5, PassesQueued
<1>7. /\ TurnsIn(queue') \subseteq TurnsIn(queue)
      /\ Waiting = {j.turn : j \in TurnsIn(queue)} /\ Waiting' = {j.turn : j \in TurnsIn(queue')}
      /\ Waiting' \subseteq Waiting /\ t \in Waiting /\ t \notin Waiting'
  <2>1. TurnsIn(queue') \subseteq TurnsIn(queue)
    BY <1>1 DEF TurnsIn
  <2>2. Waiting = {j.turn : j \in TurnsIn(queue)} /\ Waiting' = {j.turn : j \in TurnsIn(queue')}
    BY Numbers, ReadingNext
  <2>3. t \notin Waiting'
    BY <1>1, <1>3, <2>2
  <2> QED
    BY <1>1, <2>1, <2>2, <2>3
<1>8. /\ credits'[t] = {pending[s]} \ {0} /\ \A u \in Turns \ {t} : credits'[u] = credits[u]
      /\ pending'[s] = 0 /\ \A r \in Sessions \ {s} : pending'[r] = pending[r]
  BY <1>2, <1>3
<1>9. /\ 0 \notin logged /\ Credited \subseteq logged /\ credits[t] = {}
      /\ \A r \in Sessions : pending[r] # 0 => pending[r] \in logged \ Credited
      /\ \A r \in Sessions \ {s} : pending[r] = pending[s] => pending[r] = 0
      /\ \A u \in Turns : credits[u] # {} => u \in DOMAIN said /\ u < t
  <2>1. \A u \in Turns : credits[u] # {} => u \in DOMAIN said /\ u < t
    BY <1>1 DEF CreditInv, Batches
  <2>2. credits[t] = {}
    BY <1>3, <2>1
  <2> QED
    BY <1>3, <2>1, <2>2 DEF CreditInv, Batches
<1>10. Credited' = Credited \cup ({pending[s]} \ {0})
  <2>1. Credited' \subseteq Credited \cup ({pending[s]} \ {0})
    BY <1>8 DEF Credited
  <2>2. \A u \in Turns : credits[u] # {} => credits'[u] = credits[u]
    BY <1>8, <1>9
  <2>3. Credited \subseteq Credited'
    BY <2>2 DEF Credited
  <2>4. {pending[s]} \ {0} \subseteq Credited'
    BY <1>3, <1>8 DEF Credited
  <2> QED
    BY <2>1, <2>3, <2>4
<1>11. ASSUME NEW r \in Sessions, NEW n \in Int, NEW m \in Int, n <= m, Missed(r, n)
       PROVE  Missed(r, m)'
  BY <1>2, <1>3, <1>4, <1>7, <1>11, StaysMissed
<1>12. Unanswered'
  <2>1. Known' = Known
    BY <1>2 DEF Known
  <2> QED
    BY <1>2, <1>6, <2>1 DEF CreditInv, Unanswered
<1>13. Stamped'
  <2>1. SUFFICES ASSUME NEW v \in Retrieving', v \in Captured'
                 PROVE  pending'[said[v].sid] = 0
    BY <1>2 DEF Stamped
  <2>2. v \in Retrieving /\ v \in DOMAIN said /\ said[v].sid \in Sessions
    BY <1>3, <1>6
  <2>3. CASE v = t
    BY <1>3, <1>8, <2>3
  <2>4. CASE v # t
    <3>1. pending[said[v].sid] = 0
      BY <1>4, <2>1, <2>2, <2>4 DEF CreditInv, Stamped
    <3> QED
      BY <1>8, <2>2, <3>1
  <2> QED
    BY <2>3, <2>4
<1>14. Batches'
  <2>1. 0 \notin logged' /\ Credited' \subseteq logged'
    BY <1>2, <1>3, <1>9, <1>10
  <2>2. \A r \in Sessions : pending'[r] # 0 => pending'[r] \in logged' \ Credited'
    BY <1>2, <1>8, <1>9, <1>10
  <2>3. \A q, r \in Sessions : pending'[q] = pending'[r] /\ q # r => pending'[q] = 0
    BY <1>8 DEF CreditInv, Batches
  <2>4. \A u \in Turns : credits'[u] # {} =>
           u \in DOMAIN said' /\ \A j \in TurnsIn(queue') : u < j.turn
    BY <1>1, <1>2, <1>3, <1>7, <1>8 DEF CreditInv, Batches
  <2> QED
    BY <2>1, <2>2, <2>3, <2>4 DEF Batches
<1>15. ASSUME NEW b, NEW r \in Sessions, b \in logged => b \in strays \cup Credited \cup {pending[r]}
       PROVE  b \in logged' => b \in strays' \cup Credited' \cup {pending'[r]}
  BY <1>2, <1>8, <1>9, <1>10, <1>15
<1>16. Cached'
  <2>1. PICK n \in Int : n = Len(said) + 1
    BY <1>3
  <2>2. \A r \in Sessions : Missed(r, n) => Missed(r, n)'
    BY <1>11
  <2>3. SUFFICES ASSUME NEW r \in Sessions
                 PROVE  /\ lane2[r] \in logged' => lane2[r] \in strays' \cup Credited' \cup {pending'[r]}
                        /\ r \in left' \/ Missed(r, n)' \/ pending'[r] \in strays' \cup {0, lane2[r]}
    BY <1>2, <2>1 DEF Cached, Missed
  <2>4. /\ lane2[r] \in logged => lane2[r] \in strays \cup Credited \cup {pending[r]}
        /\ r \in left \/ Missed(r, n) \/ pending[r] \in strays \cup {0, lane2[r]}
    BY <2>1 DEF CreditInv, Cached
  <2> QED
    BY <1>2, <1>8, <1>15, <2>2, <2>4
<1>17. ASSUME NEW b, NEW r \in Sessions, NEW n \in Int, ServedTrue(b, r, n)
       PROVE  ServedTrue(b, r, n)'
  <2>1. b \in logged' => b \in strays' \cup Credited' \cup {pending'[r]}
    BY <1>15, <1>17 DEF ServedTrue
  <2>2. Missed(r, n)' \/ pending'[r] \in strays' \cup {0, b}
    BY <1>2, <1>8, <1>11, <1>17 DEF ServedTrue
  <2>3. \A v \in Retrieving' : v < n => said'[v].sid # r
    BY <1>2, <1>6, <1>17 DEF ServedTrue
  <2> QED
    BY <2>1, <2>2, <2>3 DEF ServedTrue
<1>18. OpenServed'
  <2>1. SUFFICES ASSUME NEW c \in Channels, open[c] # None, NEW turn, turn = open[c],
                        ~turn.late, turn.sid \notin left, NEW n \in Int, n = Len(said) + 1
                 PROVE  ServedTrue(turn.served, turn.sid, n)'
    <3>1. Len(said) + 1 \in Int
      BY <1>3
    <3> QED
      BY <1>2, <3>1 DEF OpenServed, ServedTrue, Missed
  <2>2. ServedTrue(turn.served, turn.sid, n)
    BY <2>1 DEF CreditInv, OpenServed
  <2>3. turn.sid \in Sessions
    BY <1>1, <2>1 DEF ProviderTypeOK
  <2> QED
    BY <1>17, <2>2, <2>3
<1>19. AllServed'
  <2>1. SUFFICES ASSUME NEW j \in TurnsIn(queue'), NEW turn, turn = said[j.turn],
                        ~turn.late, turn.sid \notin left
                 PROVE  ServedTrue(turn.served, turn.sid, j.turn)'
    BY <1>2 DEF AllServed, ServedTrue, Missed
  <2>2. j \in TurnsIn(queue) /\ j.turn \in DOMAIN said /\ turn.sid \in Sessions /\ j.turn \in Int
    BY <1>3, <1>7, <2>1, Numbers
  <2>3. ServedTrue(turn.served, turn.sid, j.turn)
    BY <2>1, <2>2 DEF CreditInv, AllServed
  <2> QED
    BY <1>17, <2>2, <2>3
<1>20. Spoken'
  BY <1>2 DEF CreditInv, Spoken, SidOf
<1>21. TurnCredited'
  <2>1. ASSUME NEW u \in Captured PROVE CreditTrue(u)'
    <3>1. u \in Turns /\ u < t /\ \A w \in 1..(u - 1) : w \in Turns /\ w < t
      BY <1>3 DEF Turns
    <3>2. \A w \in 1..(u - 1) :
             said'[w] = said[w] /\ credits'[w] = credits[w] /\ (w \in Captured' => w \in Captured)
      <4>1. ASSUME NEW w \in 1..(u - 1)
            PROVE  said'[w] = said[w] /\ credits'[w] = credits[w] /\ (w \in Captured' => w \in Captured)
        BY <1>2, <1>3, <1>4, <1>8, <3>1
      <4> QED
        BY <4>1
    <3>3. credits'[u] = credits[u]
      BY <1>3, <1>8, <3>1
    <3> QED
      BY <1>2, <3>2, <3>3, CreditStays
  <2>2. ASSUME t \in Captured' PROVE CreditTrue(t)'
    <3> DEFINE given == said[t].served
               before == UNION {credits'[u] : u \in 1..(t - 1)}
    <3>1. SUFFICES ASSUME ~said[t].late, s \notin left,
                          \A u \in 1..(t - 1) : said[u].sid = s => u \in Captured'
                   PROVE  credits'[t] \ strays = ({given} \cap logged) \ (before \cup strays)
      BY <1>2, <1>3 DEF CreditTrue
    <3>2. ServedTrue(given, s, t)
      BY <1>1, <1>3, <3>1 DEF CreditInv, AllServed
    <3>3. ~Missed(s, t)
      <4>1. ASSUME NEW u \in DOMAIN said, u < t, said[u].sid = s
            PROVE  u \in Captured
        BY <1>3, <1>4, <3>1, <4>1
      <4> QED
        BY <4>1 DEF Missed
    <3>4. before = Credited
      <4>1. \A u \in 1..(t - 1) : u \in Turns \ {t}
        BY <1>3 DEF Turns
      <4>2. \A u \in Turns : credits[u] # {} => u \in 1..(t - 1)
        BY <1>3, <1>9
      <4>3. before \subseteq Credited
        BY <1>8, <4>1 DEF Credited
      <4>4. Credited \subseteq before
        BY <1>8, <4>1, <4>2 DEF Credited
      <4> QED
        BY <4>3, <4>4
    <3>5. pending[s] \in strays \cup {0, given}
      BY <3>2, <3>3 DEF ServedTrue
    <3>6. given \in logged => given \in strays \cup Credited \cup {pending[s]}
      BY <3>2 DEF ServedTrue
    <3> HIDE DEF before, given
    <3> QED
      BY <1>3, <1>8, <1>9, <3>4, <3>5, <3>6
  <2> QED
    BY <1>4, <2>1, <2>2 DEF TurnCredited, CreditTrue
<1> QED
  BY <1>6, <1>12, <1>13, <1>14, <1>16, <1>18, <1>19, <1>20, <1>21 DEF CreditInv

\* A batch is logged for a block that is in lane 2 and nowhere else; the one
\* it replaces was of a turn missed, or is stray.
LEMMA FoundCredits == ASSUME TurnInv, CreditInv, Found PROVE CreditInv'
<1> SUFFICES ASSUME NEW w, NEW s, w = worker.turn, s = worker.sid
             PROVE  CreditInv'
  OBVIOUS
<1>1. PICK given \in {0, w} :
         /\ lane2' = [lane2 EXCEPT ![s] = given]
         /\ \/ /\ given = w /\ pending' = [pending EXCEPT ![s] = w] /\ logged' = logged \cup {w}
            \/ UNCHANGED <<pending, logged>>
         /\ strays' = IF {s, said[w].sid} \cap left = {} THEN strays
                      ELSE strays \cup ({given, pending[s]} \ {0})
  BY DEF Found
<1>2. /\ UNCHANGED <<said, captured, credits, open, queue, left, session, alias, host>>
      /\ worker.at = "search" /\ worker'.at = "loop"
  BY DEF Found, hostVars, perSession, Doing
<1>3. /\ Len(said) \in Nat /\ DOMAIN said = 1..Len(said) /\ w \in DOMAIN said /\ s \in Sessions
      /\ pending \in [Sessions -> 0..MaxTurns] /\ lane2 \in [Sessions -> 0..MaxTurns]
      /\ \A t \in Captured : said[t].kept
      /\ \A t \in Captured, task \in TurnsIn(queue) : t < task.turn
      /\ Waiting = {task.turn : task \in TurnsIn(queue)} /\ Captured \subseteq DOMAIN said \cap Turns
      /\ \A t \in DOMAIN said : said[t].sid \in Sessions
      /\ \A task \in TurnsIn(queue) : task.turn \in DOMAIN said
  BY <1>2, Numbers DEF TurnInv, ProviderTypeOK, JobsTrue, JobsKept, EveryTurnKept
<1>4. /\ w \in Retrieving /\ Retrieving' \subseteq Retrieving
      /\ \A v \in Retrieving' : w < v /\ (said[v].kept => v \in Waiting)
      /\ \A task \in TurnsIn(queue) : w < task.turn
      /\ said[w].sid \in left \cup {s}
  <2>1. Searched
    BY DEF CreditInv
  <2>2. \A task \in TurnsIn(queue) : task \in JobsOf(queue) /\ task.kind = "turn"
    BY DEF TurnsIn
  <2> QED
    BY <1>2, <2>1, <2>2 DEF Searched, Retrieving
<1>5. /\ w # 0 /\ \A b \in Known : b < w
      /\ w \notin logged /\ w \notin Credited /\ 0 \notin logged
      /\ \A r \in Sessions : pending[r] # w /\ lane2[r] # w
  <2>1. w # 0 /\ \A b \in Known : b < w
    BY <1>3, <1>4 DEF CreditInv, Unanswered
  <2>2. w \notin Known
    BY <1>3, <2>1
  <2>3. w \notin logged /\ \A r \in Sessions : lane2[r] # w
    BY <2>2 DEF Known
  <2> QED
    BY <2>1, <2>3 DEF CreditInv, Batches
<1>6. /\ lane2'[s] = given /\ \A r \in Sessions \ {s} : lane2'[r] = lane2[r] /\ pending'[r] = pending[r]
      /\ \/ given = w /\ pending'[s] = w /\ logged' = logged \cup {w}
         \/ pending' = pending /\ logged' = logged
  BY <1>1, <1>3
<1>7. /\ strays \subseteq strays'
      /\ {s, said[w].sid} \cap left # {} => {given, pending[s]} \subseteq strays' \cup {0}
  BY <1>1
<1>8. Credited' = Credited /\ Captured' = Captured /\ Waiting' = Waiting
  BY <1>2 DEF Credited, Captured, Waiting
<1>9. Queued' /\ Searched'
  <2>1. Passes
    BY <1>2 DEF Passes
  <2> QED
    BY <2>1, PassesQueued
<1>10. Unanswered'
  <2>1. \A b \in Known' : b \in Known \cup {0, w}
    <3>1. \A r \in Sessions : lane2'[r] \in Known \cup {0, w}
      BY <1>6 DEF Known
    <3>2. logged' \subseteq Known \cup {w}
      BY <1>6 DEF Known
    <3> QED
      BY <1>2, <3>1, <3>2 DEF Known
  <2>2. \A v \in Retrieving' : v \in Retrieving /\ w < v /\ 0 < v
    BY <1>3, <1>4, Numbers
  <2> QED
    BY <1>2, <1>3, <1>4, <2>1, <2>2 DEF CreditInv, Unanswered
<1>11. Stamped'
  BY <1>3, <1>4, <1>8 DEF Stamped
<1>12. Batches'
  <2>1. 0 \notin logged' /\ Credited' \subseteq logged'
    BY <1>5, <1>6, <1>8 DEF CreditInv, Batches
  <2>2. \A r \in Sessions : pending'[r] # 0 => pending'[r] \in logged' \ Credited'
    BY <1>5, <1>6, <1>8 DEF CreditInv, Batches
  <2>3. \A q, r \in Sessions : pending'[q] = pending'[r] /\ q # r => pending'[q] = 0
    <3>1. \A q, r \in Sessions : pending[q] = pending[r] /\ q # r => pending[q] = 0
      BY DEF CreditInv, Batches
    <3> QED
      BY <1>5, <1>6, <3>1
  <2>4. \A t \in Turns : credits'[t] # {} =>
           t \in DOMAIN said' /\ \A task \in TurnsIn(queue') : t < task.turn
    BY <1>2 DEF CreditInv, Batches
  <2> QED
    BY <2>1, <2>2, <2>3, <2>4 DEF Batches
<1>13. Cached'
  <2>1. SUFFICES ASSUME NEW r \in Sessions
                 PROVE  /\ lane2'[r] \in logged' => lane2'[r] \in strays' \cup Credited \cup {pending'[r]}
                        /\ r \in left \/ Missed(r, Len(said) + 1) \/ pending'[r] \in strays' \cup {0, lane2'[r]}
    BY <1>2, <1>8 DEF Cached, Missed
  <2>2. /\ lane2[r] \in logged => lane2[r] \in strays \cup Credited \cup {pending[r]}
        /\ r \in left \/ Missed(r, Len(said) + 1) \/ pending[r] \in strays \cup {0, lane2[r]}
    BY DEF CreditInv, Cached
  <2>3. CASE r # s
    BY <1>5, <1>6, <1>7, <2>2, <2>3
  <2>4. CASE r = s
    <3>1. lane2'[s] \in logged' => lane2'[s] \in strays' \cup Credited \cup {pending'[s]}
      BY <1>5, <1>6
    <3>2. s \in left \/ Missed(s, Len(said) + 1) \/ pending'[s] \in strays' \cup {0, lane2'[s]}
      <4>1. CASE pending'[s] = w /\ lane2'[s] = w
        BY <4>1
      <4>2. CASE said[w].sid \in left /\ pending' = pending
        BY <1>7, <4>2
      <4>3. CASE said[w].sid = s /\ w \in Captured /\ pending' = pending
        BY <1>4, <4>3 DEF CreditInv, Stamped
      <4>4. CASE said[w].sid = s /\ w \notin Captured
        <5>1. w \notin Waiting
          BY <1>3, <1>4
        <5>2. w < Len(said) + 1
          BY <1>3
        <5> QED
          BY <1>3, <4>4, <5>1, <5>2 DEF Missed
      <4> QED
        BY <1>4, <1>6, <4>1, <4>2, <4>3, <4>4
    <3> QED
      BY <2>4, <3>1, <3>2
  <2> QED
    BY <2>3, <2>4
<1>14. ASSUME NEW b \in Known, NEW r \in Sessions, NEW n \in Int, w < n, r \notin left, ServedTrue(b, r, n)
       PROVE  ServedTrue(b, r, n)'
  <2>1. said[w].sid # r
    BY <1>4, <1>14 DEF ServedTrue
  <2>2. s = r => {given, pending[s]} \subseteq strays' \cup {0}
    BY <1>4, <1>7, <2>1
  <2>3. b # w
    BY <1>3, <1>5
  <2>4. b \in logged' => b \in strays' \cup Credited' \cup {pending'[r]}
    BY <1>5, <1>6, <1>7, <1>8, <1>14, <2>2, <2>3 DEF ServedTrue
  <2>5. Missed(r, n)' \/ pending'[r] \in strays' \cup {0, b}
    <3>1. Missed(r, n)' <=> Missed(r, n)
      BY <1>2, <1>8 DEF Missed
    <3> QED
      BY <1>6, <1>7, <1>14, <2>2, <3>1 DEF ServedTrue
  <2>6. \A v \in Retrieving' : v < n => said'[v].sid # r
    BY <1>2, <1>4, <1>14 DEF ServedTrue
  <2> QED
    BY <2>4, <2>5, <2>6 DEF ServedTrue
<1>15. OpenServed'
  <2>1. SUFFICES ASSUME NEW c \in Channels, open[c] # None, NEW turn, turn = open[c],
                        ~turn.late, turn.sid \notin left, NEW n \in Int, n = Len(said) + 1
                 PROVE  ServedTrue(turn.served, turn.sid, n)'
    <3>1. Len(said) + 1 \in Int
      BY <1>3
    <3> QED
      BY <1>2, <3>1 DEF OpenServed, ServedTrue, Missed
  <2>2. ServedTrue(turn.served, turn.sid, n)
    BY <2>1 DEF CreditInv, OpenServed
  <2>3. turn.sid \in Sessions /\ turn.served \in Known
    BY <2>1 DEF TurnInv, ProviderTypeOK, Known
  <2>4. w < n
    BY <1>3, <2>1
  <2> QED
    BY <1>14, <2>1, <2>2, <2>3, <2>4
<1>16. AllServed'
  <2>1. SUFFICES ASSUME NEW task \in TurnsIn(queue), NEW turn, turn = said[task.turn],
                        ~turn.late, turn.sid \notin left
                 PROVE  ServedTrue(turn.served, turn.sid, task.turn)'
    BY <1>2 DEF AllServed, ServedTrue, Missed
  <2>2. task.turn \in DOMAIN said /\ turn.sid \in Sessions /\ task.turn \in Int /\ w < task.turn
    BY <1>3, <1>4, <2>1
  <2>3. turn.served \in Known
    BY <2>1, <2>2 DEF Known
  <2>4. ServedTrue(turn.served, turn.sid, task.turn)
    BY <2>1 DEF CreditInv, AllServed
  <2> QED
    BY <1>14, <2>1, <2>2, <2>3, <2>4
<1>17. Spoken'
  BY <1>2 DEF CreditInv, Spoken, SidOf
<1>18. TurnCredited'
  <2>1. ASSUME NEW t \in Captured PROVE CreditTrue(t)'
    <3>1. said[t].served # w
      <4>1. said[t].served \in Known
        BY <1>3 DEF Known
      <4> QED
        BY <1>3, <1>5, <4>1
    <3>2. said[t].served \in logged' <=> said[t].served \in logged
      BY <1>6, <3>1
    <3> QED
      BY <1>2, <1>7, <1>8, <3>2, CreditStays
  <2> QED
    BY <1>8, <2>1 DEF TurnCredited, CreditTrue
<1> QED
  BY <1>9, <1>10, <1>11, <1>12, <1>13, <1>15, <1>16, <1>17, <1>18 DEF CreditInv

\* A turn said is of the block its session was served, unless it is late.
LEMMA TurnEndCredits ==
    ASSUME TurnInv, CreditInv, NEW c \in Channels, TurnEnd(c)
    PROVE  CreditInv'
<1> SUFFICES ASSUME NEW s, NEW t, s = SidOf(c), t = Len(said) + 1
             PROVE  CreditInv'
  OBVIOUS
<1> DEFINE first == [kind |-> "turn", sid |-> s, turn |-> t]
           second == [kind |-> "retrieve", sid |-> s, turn |-> t]
<1>1. PICK turn, mid :
        /\ turn.sid = s /\ turn.kept = CaptureAllowed
        /\ turn.served = open[c].served /\ turn.late = (open[c].late \/ open[c].sid # s)
        /\ DOMAIN said' = 1..t /\ said'[t] = turn /\ (\A u \in DOMAIN said : said'[u] = said[u])
        /\ Len(said') = t /\ t \in Turns
        /\ mid \in Seq(Work)
        /\ mid = IF CaptureAllowed THEN Append(queue, first) ELSE queue
        /\ queue' = IF mode # "tools" THEN Append(mid, second) ELSE mid
  BY TurnEndTyped DEF TurnInv
<1>2. /\ UNCHANGED <<captured, pending, credits, logged, lane2, strays, left, session, alias, host, worker>>
      /\ host = "up" /\ open[c] # None /\ open' = [open EXCEPT ![c] = None]
  BY DEF TurnEnd, hostVars, lanes, db
<1>3. /\ Len(said) \in Nat /\ DOMAIN said = 1..Len(said) /\ s \in Sessions /\ queue \in Seq(Work)
      /\ Retrieving \subseteq DOMAIN said /\ Captured \subseteq DOMAIN said \cap Turns
      /\ Waiting = {task.turn : task \in TurnsIn(queue)} /\ Waiting' = {task.turn : task \in TurnsIn(queue')}
      /\ \A u \in DOMAIN said : said[u].sid \in Sessions
      /\ \A task \in TurnsIn(queue) : task.turn \in DOMAIN said
  BY TurnEndTyped, Numbers, ReadingNext, Types DEF TurnInv
<1>4. first \in Work /\ second \in Work /\ first.kind = "turn" /\ second.kind = "retrieve"
      /\ first.turn = t /\ second.turn = t
  BY <1>1, <1>3, Numbers DEF Work, Turns
<1> HIDE DEF first, second
<1>5. /\ t \notin DOMAIN said /\ \A u \in DOMAIN said : u \in DOMAIN said' /\ u < t /\ u \in Int
      /\ t \in Int
  BY <1>1, <1>3
<1>6. /\ JobsOf(mid) = IF CaptureAllowed THEN JobsOf(queue) \cup {first} ELSE JobsOf(queue)
      /\ JobsOf(queue') = IF mode # "tools" THEN JobsOf(mid) \cup {second} ELSE JobsOf(mid)
  BY <1>1, <1>3, <1>4, AppendOf
<1>7. TurnsIn(queue') = IF CaptureAllowed THEN TurnsIn(queue) \cup {first} ELSE TurnsIn(queue)
  BY <1>4, <1>6 DEF TurnsIn
<1>8. /\ Captured' = Captured /\ Credited' = Credited
      /\ Waiting \subseteq Waiting' /\ Waiting' \subseteq Waiting \cup {t}
      /\ Retrieving' \subseteq Retrieving \cup {t}
  <2>1. Captured' = Captured /\ Credited' = Credited
    BY <1>2 DEF Captured, Credited
  <2>2. Waiting \subseteq Waiting' /\ Waiting' \subseteq Waiting \cup {t}
    BY <1>3, <1>4, <1>7
  <2>3. Retrieving' \subseteq Retrieving \cup {t}
    BY <1>2, <1>4, <1>6 DEF Retrieving
  <2> QED
    BY <2>1, <2>2, <2>3
<1>9. \A j \in JobsOf(queue) : j.kind = "retrieve" => j.turn \in DOMAIN said
  BY <1>3 DEF Retrieving
<1>10. Queued'
  <2>1. Ordered(queue) /\ Together(queue, said)
    BY DEF CreditInv, Queued
  <2>2. Together(queue, said')
    <3>1. \A i \in DOMAIN queue : queue[i].kind = "retrieve" => said'[queue[i].turn] = said[queue[i].turn]
      BY <1>1, <1>9 DEF JobsOf
    <3> QED
      BY <2>1, <3>1 DEF Together
  <2>3. Ordered(mid) /\ Together(mid, said')
    BY <1>1, <1>3, <1>4, <1>5, <1>9, <2>1, <2>2, AppendOrdered
  <2>4. \A j \in JobsOf(mid) : j.kind = "retrieve" => j.turn < t
    BY <1>4, <1>5, <1>6, <1>9
  <2>5. CaptureAllowed => mid # << >> /\ mid[Len(mid)] = first
    <3>1. Append(queue, first) # << >> /\ Append(queue, first)[Len(Append(queue, first))] = first
      BY <1>3, <1>4
    <3> QED
      BY <1>1, <3>1
  <2>6. Ordered(queue') /\ Together(queue', said')
    <3>1. second.kind = "retrieve" /\ said'[second.turn].kept =>
             mid # << >> /\ mid[Len(mid)].kind = "turn" /\ mid[Len(mid)].turn = second.turn
      BY <1>1, <1>4, <2>5
    <3>2. \A j \in JobsOf(mid) : j.kind = "retrieve" => j.turn < second.turn
      BY <1>4, <2>4
    <3>3. Ordered(Append(mid, second)) /\ Together(Append(mid, second), said')
      BY <1>1, <1>4, <2>3, <3>1, <3>2, AppendOrdered
    <3> QED
      BY <1>1, <2>3, <3>3
  <2> QED
    BY <2>6 DEF Queued
<1>11. Searched'
  <2>1. SUFFICES ASSUME worker.at = "search"
                 PROVE  /\ \A j \in JobsOf(queue') : j.kind \in {"turn", "retrieve"} => worker.turn < j.turn
                        /\ \A j \in JobsOf(queue') : j.kind = "retrieve" /\ said'[j.turn].kept => j.turn \in Waiting'
                        /\ said'[worker.turn].sid \in left \cup {worker.sid}
    BY <1>2 DEF Searched
  <2>2. worker.turn \in DOMAIN said
    BY <1>3, <2>1 DEF Retrieving
  <2>3. Searched
    BY DEF CreditInv
  <2>4. \A j \in JobsOf(queue') : j.kind \in {"turn", "retrieve"} => worker.turn < j.turn
    BY <1>4, <1>5, <1>6, <2>1, <2>2, <2>3 DEF Searched
  <2>5. \A j \in JobsOf(queue') : j.kind = "retrieve" /\ said'[j.turn].kept => j.turn \in Waiting'
    <3>1. CaptureAllowed => t \in Waiting'
      BY <1>3, <1>4, <1>7
    <3> QED
      BY <1>1, <1>4, <1>6, <1>8, <1>9, <2>1, <2>3, <3>1 DEF Searched
  <2>6. said'[worker.turn].sid \in left \cup {worker.sid}
    BY <1>1, <2>1, <2>2, <2>3 DEF Searched
  <2> QED
    BY <2>4, <2>5, <2>6
<1>12. open'[c] = None /\ \A d \in Channels \ {c} : open'[d] = open[d]
  BY <1>2 DEF TurnInv, ProviderTypeOK
<1>13. Unanswered'
  <2>1. Known' \subseteq Known
    <3>1. open[c].served \in Known
      BY <1>2 DEF Known
    <3>2. \A u \in DOMAIN said' : said'[u].served \in Known
      <4>1. \A u \in DOMAIN said' : u = t \/ u \in DOMAIN said
        BY <1>1, <1>3
      <4> QED
        BY <1>1, <3>1, <4>1 DEF Known
    <3>3. \A d \in Channels : open'[d] # None => open'[d].served \in Known
      BY <1>12 DEF Known
    <3> QED
      BY <1>2, <3>2, <3>3 DEF Known
  <2>2. \A b \in Known : b <= Len(said) /\ b < t /\ b <= t /\ \A v \in Retrieving : b < v
    <3>1. \A b \in Known : b \in Int
      <4>1. ProviderTypeOK /\ MaxTurns \in Nat
        BY Numbers DEF TurnInv
      <4>2. \A u \in DOMAIN said : said[u].served \in 0..MaxTurns
        <5> DEFINE Said == [sid : Sessions, trust : Trusts, kept : BOOLEAN, resumed : BOOLEAN,
                            served : 0..MaxTurns, late : BOOLEAN]
        <5>1. said \in Seq(Said) /\ \A item \in Said : item.served \in 0..MaxTurns
          BY <4>1 DEF ProviderTypeOK
        <5> HIDE DEF Said
        <5> QED
          BY <5>1
      <4>3. \A d \in Channels : open[d] # None => open[d].served \in 0..MaxTurns
        BY <4>1 DEF ProviderTypeOK
      <4>4. logged \subseteq 0..MaxTurns /\ \A r \in Sessions : lane2[r] \in 0..MaxTurns
        BY <4>1 DEF ProviderTypeOK
      <4>5. Known \subseteq 0..MaxTurns
        BY <4>2, <4>3, <4>4 DEF Known
      <4> QED
        BY <4>1, <4>5
    <3> QED
      BY <1>3, <3>1 DEF CreditInv, Unanswered
  <2> QED
    BY <1>1, <1>8, <2>1, <2>2 DEF Unanswered
<1>14. Stamped'
  BY <1>1, <1>2, <1>3, <1>5, <1>8 DEF CreditInv, Stamped
<1>15. Batches'
  <2>1. \A u \in Turns : credits[u] # {} => u \in DOMAIN said' /\ \A j \in TurnsIn(queue') : u < j.turn
    BY <1>4, <1>5, <1>7 DEF CreditInv, Batches
  <2> QED
    BY <1>2, <1>8, <2>1 DEF CreditInv, Batches
<1>16. ASSUME NEW r, NEW n \in Int, NEW m \in Int, n <= m, Missed(r, n)
       PROVE  Missed(r, m)'
  <2>1. DOMAIN said \subseteq Nat
    BY <1>3
  <2>2. \A u \in DOMAIN said : u \in DOMAIN said' /\ said'[u] = said[u]
    BY <1>1, <1>5
  <2>3. \A u \in DOMAIN said : u \in Captured' \cup Waiting' => u \in Captured \cup Waiting
    BY <1>5, <1>8
  <2> QED
    BY <1>16, <2>1, <2>2, <2>3, StaysMissed
<1>17. Cached'
  <2>1. \A r \in Sessions : Missed(r, t) => Missed(r, t + 1)'
    BY <1>5, <1>16
  <2>2. SUFFICES ASSUME NEW r \in Sessions
                 PROVE  /\ lane2[r] \in logged => lane2[r] \in strays \cup Credited \cup {pending[r]}
                        /\ r \in left \/ Missed(r, t + 1)' \/ pending[r] \in strays \cup {0, lane2[r]}
    BY <1>1, <1>2, <1>8 DEF Cached, Missed
  <2> QED
    BY <2>1 DEF CreditInv, Cached
<1>18. ASSUME NEW b, NEW r, NEW n \in Int, NEW m \in Int, n <= t, n <= m, m > t => r # s, ServedTrue(b, r, n),
              m = n \/ n = t
       PROVE  ServedTrue(b, r, m)'
  <2>1. b \in logged' => b \in strays' \cup Credited' \cup {pending'[r]}
    BY <1>2, <1>8, <1>18 DEF ServedTrue
  <2>2. Missed(r, m)' \/ pending'[r] \in strays' \cup {0, b}
    BY <1>2, <1>16, <1>18 DEF ServedTrue
  <2>3. ASSUME NEW v \in Retrieving', v < m PROVE said'[v].sid # r
    <3>1. CASE v = t
      BY <1>1, <1>5, <1>18, <2>3, <3>1
    <3>2. CASE v # t
      <4>1. v \in Retrieving /\ v \in DOMAIN said /\ v < t
        BY <1>3, <1>5, <1>8, <2>3, <3>2
      <4>2. v < n
        BY <1>18, <2>3, <4>1
      <4> QED
        BY <1>1, <1>18, <4>1, <4>2 DEF ServedTrue
    <3> QED
      BY <3>1, <3>2
  <2> QED
    BY <2>1, <2>2, <2>3 DEF ServedTrue
<1>19. OpenServed'
  <2>1. SUFFICES ASSUME NEW d \in Channels, open'[d] # None, NEW other, other = open'[d],
                        ~other.late, other.sid \notin left, NEW m \in Int, m = t + 1
                 PROVE  ServedTrue(other.served, other.sid, m)'
    <3>1. t + 1 \in Int
      BY <1>5
    <3> QED
      BY <1>1, <1>2, <3>1 DEF OpenServed, ServedTrue, Missed
  <2>2. d # c /\ other = open[d]
    BY <1>12, <2>1
  <2>3. ServedTrue(other.served, other.sid, t)
    BY <2>1, <2>2 DEF CreditInv, OpenServed
  <2>4. other.sid # s
    <3>1. other.sid = SidOf(d)
      BY <1>2, <2>1, <2>2 DEF CreditInv, Spoken
    <3>2. session \in Mains
      BY <1>2 DEF TurnInv, Placed, ProviderTypeOK
    <3> QED
      BY <2>2, <3>1, <3>2, SessionsAssumption DEF SidOf, Channels
  <2> QED
    BY <1>5, <1>18, <2>1, <2>3, <2>4
<1>20. AllServed'
  <2>1. SUFFICES ASSUME NEW task \in TurnsIn(queue'), NEW other, other = said'[task.turn],
                        ~other.late, other.sid \notin left
                 PROVE  ServedTrue(other.served, other.sid, task.turn)'
    BY <1>2 DEF AllServed, ServedTrue, Missed
  <2>2. CASE task \in TurnsIn(queue)
    <3>1. task.turn \in DOMAIN said /\ task.turn <= t /\ ~(task.turn > t) /\ task.turn \in Int /\ other = said[task.turn]
      BY <1>1, <1>3, <1>5, <2>1, <2>2
    <3>2. ServedTrue(other.served, other.sid, task.turn)
      BY <2>1, <2>2, <3>1 DEF CreditInv, AllServed
    <3>3. task.turn <= task.turn
      BY <3>1
    <3> QED
      BY <1>18, <3>1, <3>2, <3>3
  <2>3. CASE task = first
    <3>1. other = turn /\ task.turn = t
      BY <1>1, <1>4, <2>1, <2>3
    <3>2. ~open[c].late /\ open[c].sid = s /\ open[c].served = other.served /\ other.sid = s
      BY <1>1, <2>1, <3>1
    <3>3. ServedTrue(other.served, other.sid, t)
      BY <1>2, <2>1, <3>2 DEF CreditInv, OpenServed
    <3>4. t <= t /\ ~(t > t)
      BY <1>5
    <3> QED
      BY <1>5, <1>18, <3>1, <3>3, <3>4
  <2> QED
    BY <1>7, <2>1, <2>2, <2>3
<1>21. Spoken'
  BY <1>2, <1>12 DEF CreditInv, Spoken, SidOf
<1>22. TurnCredited'
  <2>1. ASSUME NEW u \in Captured PROVE CreditTrue(u)'
    <3>1. u \in DOMAIN said /\ \A w \in 1..(u - 1) : w \in DOMAIN said
      BY <1>3
    <3> QED
      BY <1>1, <1>2, <1>8, <3>1, CreditStays
  <2> QED
    BY <1>8, <2>1 DEF TurnCredited, CreditTrue
<1> QED
  BY <1>10, <1>11, <1>13, <1>14, <1>15, <1>17, <1>19, <1>20, <1>21, <1>22 DEF CreditInv

-----------------------------------------------------------------------------
LEMMA CreditInvStarts == ProviderInit => CreditInv
<1> SUFFICES ASSUME ProviderInit PROVE CreditInv
  OBVIOUS
<1>1. /\ said = << >> /\ queue = << >> /\ captured = << >> /\ logged = {} /\ worker.at = "none"
      /\ DOMAIN said = {} /\ DOMAIN queue = {} /\ DOMAIN captured = {} /\ Len(said) = 0
      /\ \A s \in Sessions : lane2[s] = 0 /\ pending[s] = 0 /\ alias[s] = None
      /\ \A c \in Channels : open[c] = None
      /\ \A t \in Turns : credits[t] = {}
  BY DEF ProviderInit, NoThread
<1>2. JobsOf(queue) = {} /\ TurnsIn(queue) = {} /\ Retrieving = {} /\ Captured = {} /\ Credited = {}
  BY <1>1 DEF JobsOf, TurnsIn, Retrieving, Captured, Credited
<1>3. Queued /\ Searched
  BY <1>1 DEF Queued, Ordered, Together, Searched
<1>4. Unanswered
  BY <1>1, <1>2 DEF Unanswered, Known
<1>5. Stamped /\ Batches /\ Cached /\ OpenServed /\ AllServed /\ Spoken /\ TurnCredited
  BY <1>1, <1>2 DEF Stamped, Batches, Cached, OpenServed, AllServed, Spoken, TurnCredited
<1> QED
  BY <1>3, <1>4, <1>5 DEF CreditInv

LEMMA CreditInvStep == TurnInv /\ CreditInv /\ [ProviderNext]_providerVars => CreditInv'
<1> SUFFICES ASSUME TurnInv, CreditInv, [ProviderNext]_providerVars PROVE CreditInv'
  OBVIOUS
<1>1. ASSUME NEW fresh \in BOOLEAN, Initialize(fresh) PROVE CreditInv'
  BY <1>1, InitializeCredits
<1>2. ASSUME NEW c \in Channels, TurnBegin(c) PROVE CreditInv'
  BY <1>2, TurnBeginCredits
<1>3. ASSUME NEW c \in Channels, TurnEnd(c) PROVE CreditInv'
  BY <1>3, TurnEndCredits
<1>4. ASSUME NEW new \in Mains \ {session}, ResetTo(new) \/ ContinueAs(new) PROVE CreditInv'
  BY <1>4, SwitchCredits
<1>5. ASSUME CaptureTurn PROVE CreditInv'
  BY <1>5, CaptureCredits
<1>6. ASSUME Retrieve PROVE CreditInv'
  BY <1>6, RetrieveCredits
<1>7. ASSUME Found PROVE CreditInv'
  BY <1>7, FoundCredits
<1>8. ASSUME \/ Shutdown \/ Joined \/ JoinTimeout \/ SessionEnd
             \/ Connect \/ Discard \/ EndSession \/ SearchFails \/ Tick \/ TickDone \/ End
             \/ UNCHANGED providerVars
      PROVE  CreditInv'
  BY <1>8, MoveCredits
<1> QED
  BY <1>1, <1>2, <1>3, <1>4, <1>5, <1>6, <1>7, <1>8 DEF ProviderNext, Thread

\* A turn is credited with the block it was served and no other, the first
\* time it was served, but for the exceptions TurnCredited names.
THEOREM CreditsHold == ProviderSpec => []TurnCredited
<1>1. CreditInv => TurnCredited
  BY DEF CreditInv
<1> QED
  BY <1>1, TurnInvHolds, CreditInvStarts, CreditInvStep, PTL DEF ProviderSpec

-----------------------------------------------------------------------------
\* Functions defined by recursion on the numbers up to a bound.

\* A set of numbers that has 0 and with a number below the bound the next
\* one has all numbers up to the bound.
LEMMA Climb ==
    ASSUME NEW m \in Nat, NEW T, 0 \in T, \A n \in 1..m : n - 1 \in T => n \in T
    PROVE  0..m \subseteq T
<1> DEFINE Left == (0..m) \ T
<1>1. SUFFICES ASSUME Left # {} PROVE FALSE
    OBVIOUS
<1>2. IsWellFoundedOn(OpToRel(<, Nat), Nat)
    BY NatLessThanWellFounded
<1>3. Left \subseteq Nat
    OBVIOUS
<1> HIDE DEF Left
<1>4. PICK n \in Left : \A k \in Left : ~ (<<k, n>> \in OpToRel(<, Nat))
    BY <1>1, <1>2, <1>3, WFMin
<1>5. \A k \in Left : ~ (k < n)
    BY <1>3, <1>4 DEF OpToRel
<1> USE DEF Left
<1>6. n \in 1..m /\ n \notin T
    <2>1. n \in 0..m /\ n \notin T /\ n # 0
        BY <1>4
    <2> QED BY <2>1
<1>7. n - 1 \in 0..m /\ n - 1 < n
    BY <1>6
<1>8. n - 1 \in T
    BY <1>5, <1>7
<1> QED BY <1>6, <1>8

Follows(f, start, step, m) ==
    f[0] = start /\ \A n \in 1..m : f[n] = step[<<n, f[n - 1]>>]

\* A start and a step for each number have a function that follows them.
LEMMA Chain ==
    ASSUME NEW S, NEW start \in S, NEW m \in Nat, NEW step \in [(1..m) \X S -> S]
    PROVE  \E f \in [0..m -> S] : Follows(f, start, step, m)
<1> DEFINE T == {k \in 0..m : \E f \in [0..k -> S] : Follows(f, start, step, k)}
<1>1. 0 \in T
    <2>1. [n \in 0..0 |-> start] \in [0..0 -> S]
        OBVIOUS
    <2>2. Follows([n \in 0..0 |-> start], start, step, 0)
        BY DEF Follows
    <2> QED BY <2>1, <2>2
<1>2. ASSUME NEW n \in 1..m, n - 1 \in T PROVE n \in T
    <2>1. PICK f \in [0..(n - 1) -> S] : Follows(f, start, step, n - 1)
        BY <1>2
    <2> DEFINE g == [k \in 0..n |-> IF k = n THEN step[<<n, f[n - 1]>>] ELSE f[k]]
    <2>2. f[n - 1] \in S
        OBVIOUS
    <2>3. step[<<n, f[n - 1]>>] \in S
        BY <2>2
    <2>4. g \in [0..n -> S]
        BY <2>3
    <2>5. g[0] = start /\ g[n] = step[<<n, g[n - 1]>>]
        <3>1. n # 0 /\ n - 1 # n /\ n \in 0..n /\ n - 1 \in 0..n /\ 0 \in 0..n
            OBVIOUS
        <3>2. g[0] = f[0] /\ g[n - 1] = f[n - 1] /\ g[n] = step[<<n, f[n - 1]>>]
            BY <3>1
        <3> QED BY <2>1, <3>2 DEF Follows
    <2>6. \A k \in 1..(n - 1) : g[k] = step[<<k, g[k - 1]>>]
        BY <2>1 DEF Follows
    <2>7. Follows(g, start, step, n)
        <3> HIDE DEF g
        <3>1. \A k \in 1..n : k = n \/ k \in 1..(n - 1)
            OBVIOUS
        <3> QED BY <2>5, <2>6, <3>1 DEF Follows
    <2> HIDE DEF g
    <2> QED BY <2>4, <2>7
<1> HIDE DEF T
<1>3. m \in T
    BY <1>1, <1>2, Climb
<1> QED BY <1>3 DEF T

-----------------------------------------------------------------------------
\* Lists.

LEMMA MembersIn ==
    ASSUME NEW R, NEW list \in Seq(R)
    PROVE  /\ Members(list) \subseteq R
           /\ \A n \in DOMAIN list : list[n] \in Members(list)
           /\ Members(list) = {} <=> list = << >>
           /\ list \in Seq(Members(list))
<1>1. DOMAIN list = 1..Len(list) /\ Len(list) \in Nat /\ \A n \in DOMAIN list : list[n] \in R
    OBVIOUS
<1>2. \A n \in DOMAIN list : list[n] \in Members(list)
    BY DEF Members
<1>3. Members(list) \subseteq R
    BY <1>1 DEF Members
<1>4. list \in [1..Len(list) -> Members(list)]
    <2>1. list \in [1..Len(list) -> R]
        BY LenProperties
    <2> QED BY <1>1, <1>2, <2>1
<1>5. list \in Seq(Members(list))
    BY <1>1, <1>4
<1>6. ASSUME Members(list) = {} PROVE list = << >>
    <2>1. 1 \notin DOMAIN list
        BY <1>2, <1>6
    <2>2. Len(list) = 0
        BY <1>1, <2>1
    <2> QED BY <2>2
<1>7. ASSUME list = << >> PROVE Members(list) = {}
    BY <1>7 DEF Members
<1> QED BY <1>2, <1>3, <1>5, <1>6, <1>7

LEMMA AppendMembers ==
    ASSUME NEW R, NEW list \in Seq(R), NEW x \in R
    PROVE  Members(Append(list, x)) = Members(list) \cup {x}
<1> DEFINE a == Append(list, x)
<1>1. /\ a \in Seq(R) /\ Len(a) = Len(list) + 1 /\ Len(list) \in Nat
      /\ \A i \in 1..Len(list) : a[i] = list[i]
      /\ a[Len(list) + 1] = x
    BY AppendProperties
<1>2. DOMAIN a = 1..(Len(list) + 1) /\ DOMAIN list = 1..Len(list)
    BY <1>1
<1> HIDE DEF a
<1>3. ASSUME NEW y \in Members(a) PROVE y \in Members(list) \cup {x}
    <2>1. PICK i \in 1..(Len(list) + 1) : y = a[i]
        BY <1>2 DEF Members
    <2>2. CASE i = Len(list) + 1
        BY <1>1, <2>1, <2>2
    <2>3. CASE i \in 1..Len(list)
        BY <1>1, <1>2, <2>1, <2>3 DEF Members
    <2> QED BY <1>1, <2>2, <2>3
<1>4. x \in Members(a)
    <2>1. Len(list) + 1 \in DOMAIN a
        BY <1>1, <1>2
    <2> QED BY <1>1, <2>1 DEF Members
<1>5. ASSUME NEW y \in Members(list) PROVE y \in Members(a)
    <2>1. PICK i \in 1..Len(list) : y = list[i]
        BY <1>2 DEF Members
    <2>2. i \in DOMAIN a /\ a[i] = y
        BY <1>1, <1>2, <2>1
    <2> QED BY <2>2 DEF Members
<1>6. Members(a) = Members(list) \cup {x}
    BY <1>3, <1>4, <1>5
<1> QED BY <1>6 DEF a

LEMMA KeptMembers ==
    ASSUME NEW R, NEW list \in Seq(R), NEW S
    PROVE  /\ Kept(list, S) \in Seq(R)
           /\ Members(Kept(list, S)) = Members(list) \cap S
<1> DEFINE kept[n \in 0..Len(list)] ==
             IF n = 0 THEN << >>
             ELSE IF list[n] \in S THEN Append(kept[n - 1], list[n]) ELSE kept[n - 1]
           Body(f) == [n \in 0..Len(list) |->
             IF n = 0 THEN << >>
             ELSE IF list[n] \in S THEN Append(f[n - 1], list[n]) ELSE f[n - 1]]
           m == Len(list)
           Here(n) == {list[i] : i \in 1..n} \cap S
           step == [p \in (1..m) \X Seq(R) |->
             IF list[p[1]] \in S THEN Append(p[2], list[p[1]]) ELSE p[2]]
           T == {n \in 0..m : kept[n] \in Seq(R) /\ Members(kept[n]) = Here(n)}
<1>1. Kept(list, S) = kept[Len(list)]
    BY DEF Kept
<1>2. kept = CHOOSE f : f = Body(f)
    OBVIOUS
<1>3. m \in Nat /\ DOMAIN list = 1..m /\ \A n \in 1..m : list[n] \in R
    OBVIOUS
<1>4. kept = Body(kept)
    <2>1. step \in [(1..m) \X Seq(R) -> Seq(R)]
        BY <1>3, AppendProperties
    <2>2. << >> \in Seq(R)
        OBVIOUS
    <2> HIDE DEF step, m
    <2> DEFINE Lists == Seq(R)
               none == << >>
    <2>3. m \in Nat /\ none \in Lists /\ step \in [(1..m) \X Lists -> Lists]
        BY <1>3, <2>1, <2>2
    <2> HIDE DEF Lists, none
    <2>6. \E f \in [0..m -> Lists] : Follows(f, none, step, m)
        BY <2>3, Chain
    <2>7. PICK f \in [0..m -> Seq(R)] :
            f[0] = << >> /\ \A n \in 1..m : f[n] = step[<<n, f[n - 1]>>]
        BY <2>6 DEF Lists, none, Follows
    <2>4. \A n \in 1..m :
            f[n] = IF list[n] \in S THEN Append(f[n - 1], list[n]) ELSE f[n - 1]
        <3> TAKE n \in 1..m
        <3>1. f[n - 1] \in Seq(R)
            BY <1>3
        <3> QED BY <2>7, <3>1 DEF step
    <2>5. f = Body(f)
        <3> DEFINE g == Body(f)
        <3>1. g = [n \in 0..m |-> g[n]] /\ f = [n \in 0..m |-> f[n]]
            BY DEF m
        <3>2. \A n \in 0..m : g[n] = IF n = 0 THEN << >>
                     ELSE IF list[n] \in S THEN Append(f[n - 1], list[n]) ELSE f[n - 1]
            BY DEF m
        <3>3. \A n \in 0..m : n = 0 \/ n \in 1..m
            BY <1>3
        <3> HIDE DEF g
        <3>4. \A n \in 0..m : g[n] = f[n]
            BY <2>7, <2>4, <3>2, <3>3
        <3>5. g = f
            BY <3>1, <3>4
        <3> QED BY <3>5 DEF g
    <2> HIDE DEF kept, Body
    <2> QED BY <1>2, <2>5
<1> HIDE DEF kept
<1>5. kept[0] = << >>
    BY <1>3, <1>4
<1>6. ASSUME NEW n \in 1..m
      PROVE  kept[n] = IF list[n] \in S THEN Append(kept[n - 1], list[n]) ELSE kept[n - 1]
    <2>1. kept[n] = Body(kept)[n]
        BY <1>4
    <2>2. n \in 0..Len(list) /\ n # 0
        BY <1>3
    <2> QED BY <2>1, <2>2
<1> HIDE DEF Body, step
<1>7. 0 \in T
    <2>1. Members(<< >>) = {} /\ Here(0) = {}
        BY DEF Members
    <2>2. << >> \in Seq(R)
        OBVIOUS
    <2>3. kept[0] \in Seq(R) /\ Members(kept[0]) = Here(0)
        BY <1>5, <2>1, <2>2
    <2>4. 0 \in 0..m
        BY <1>3
    <2> HIDE DEF Here
    <2> QED BY <2>3, <2>4
<1>8. ASSUME NEW n \in 1..m, n - 1 \in T PROVE n \in T
    <2>1. kept[n - 1] \in Seq(R) /\ Members(kept[n - 1]) = Here(n - 1)
        BY <1>8
    <2>2. {list[i] : i \in 1..n} = {list[i] : i \in 1..(n - 1)} \cup {list[n]}
        <3>1. 1..n = 1..(n - 1) \cup {n}
            BY <1>3
        <3> QED BY <3>1
    <2>3. list[n] \in R
        BY <1>3
    <2>4. CASE list[n] \in S
        <3>1. kept[n] = Append(kept[n - 1], list[n])
            BY <1>6, <2>4
        <3>2. kept[n] \in Seq(R) /\ Members(kept[n]) = Members(kept[n - 1]) \cup {list[n]}
            BY <2>1, <2>3, <3>1, AppendMembers, AppendProperties
        <3>3. Members(kept[n]) = Here(n)
            BY <2>1, <2>2, <2>4, <3>2
        <3> QED BY <1>3, <3>2, <3>3
    <2>5. CASE list[n] \notin S
        <3>1. kept[n] = kept[n - 1]
            BY <1>6, <2>5
        <3>2. Members(kept[n]) = Here(n)
            BY <2>1, <2>2, <2>5, <3>1
        <3> QED BY <1>3, <2>1, <3>1, <3>2
    <2> QED BY <2>4, <2>5
<1>9. m \in T
    <2> HIDE DEF T
    <2>1. 0..m \subseteq T
        BY <1>3, <1>7, <1>8, Climb
    <2> QED BY <1>3, <2>1
<1>10. Here(m) = Members(list) \cap S
    BY <1>3 DEF Members
<1> QED BY <1>1, <1>9, <1>10

LEMMA FrontMembers ==
    ASSUME NEW R, NEW list \in Seq(R), NEW n \in Nat
    PROVE  /\ Front(list, n) \in Seq(R)
           /\ Members(Front(list, n)) \subseteq Members(list)
           /\ Len(Front(list, n)) <= n
           /\ Len(list) <= n => Front(list, n) = list
           /\ \A i \in DOMAIN list : i <= n => list[i] \in Members(Front(list, n))
<1> DEFINE k == IF n < Len(list) THEN n ELSE Len(list)
           front == SubSeq(list, 1, k)
<1>1. k \in Nat /\ k <= n /\ k <= Len(list) /\ Len(list) \in Nat /\ DOMAIN list = 1..Len(list)
    OBVIOUS
<1>2. \A i \in 1..k : list[i] \in R
    BY <1>1
<1> HIDE DEF k
<1>3. front \in Seq(R) /\ Len(front) = k /\ \A i \in 1..k : front[i] = list[i]
    BY <1>1, <1>2, SubSeqProperties
<1> HIDE DEF front
<1>4. DOMAIN front = 1..k
    BY <1>3
<1>5. ASSUME NEW x \in Members(front) PROVE x \in Members(list)
    <2>1. PICK i \in 1..k : x = front[i]
        BY <1>4 DEF Members
    <2>2. i \in DOMAIN list /\ x = list[i]
        BY <1>1, <1>3, <2>1
    <2> QED BY <2>2 DEF Members
<1>6. ASSUME Len(list) <= n PROVE front = list
    <2>1. k = Len(list)
        <3>1. ~(n < Len(list))
            BY <1>1, <1>6
        <3> QED BY <3>1 DEF k
    <2>2. Len(front) = Len(list) /\ \A i \in 1..Len(front) : front[i] = list[i]
        BY <1>3, <2>1
    <2> QED BY <1>3, <2>2, SeqEqual
<1>7. ASSUME NEW i \in DOMAIN list, i <= n PROVE list[i] \in Members(front)
    <2>1. i \in 1..k
        BY <1>1, <1>7 DEF k
    <2> QED BY <1>3, <1>4, <2>1 DEF Members
<1>8. Front(list, n) = front
    BY DEF Front, front, k
<1> QED BY <1>1, <1>3, <1>5, <1>6, <1>7, <1>8

LEMMA ConcatMembers ==
    ASSUME NEW R, NEW s \in Seq(R), NEW t \in Seq(R)
    PROVE  /\ s \o t \in Seq(R)
           /\ Members(s \o t) = Members(s) \cup Members(t)
<1> DEFINE u == s \o t
<1>1. /\ u \in Seq(R) /\ Len(u) = Len(s) + Len(t)
      /\ \A i \in 1..(Len(s) + Len(t)) : u[i] = IF i <= Len(s) THEN s[i] ELSE t[i - Len(s)]
    BY ConcatProperties
<1> HIDE DEF u
<1>2. /\ Len(s) \in Nat /\ Len(t) \in Nat
      /\ DOMAIN s = 1..Len(s) /\ DOMAIN t = 1..Len(t) /\ DOMAIN u = 1..(Len(s) + Len(t))
    BY <1>1
<1>3. ASSUME NEW x \in Members(u) PROVE x \in Members(s) \cup Members(t)
    <2>1. PICK i \in 1..(Len(s) + Len(t)) : x = u[i]
        BY <1>2 DEF Members
    <2>2. CASE i <= Len(s)
        <3>1. i \in DOMAIN s /\ x = s[i]
            BY <1>1, <1>2, <2>1, <2>2
        <3> QED BY <3>1 DEF Members
    <2>3. CASE ~(i <= Len(s))
        <3>1. i - Len(s) \in DOMAIN t /\ x = t[i - Len(s)]
            BY <1>1, <1>2, <2>1, <2>3
        <3> QED BY <3>1 DEF Members
    <2> QED BY <2>2, <2>3
<1>4. ASSUME NEW x \in Members(s) PROVE x \in Members(u)
    <2>1. PICK i \in 1..Len(s) : x = s[i]
        BY <1>2 DEF Members
    <2>2. i \in DOMAIN u /\ x = u[i]
        BY <1>1, <1>2, <2>1
    <2> QED BY <2>2 DEF Members
<1>5. ASSUME NEW x \in Members(t) PROVE x \in Members(u)
    <2>1. PICK i \in 1..Len(t) : x = t[i]
        BY <1>2 DEF Members
    <2>2. i + Len(s) \in 1..(Len(s) + Len(t)) /\ ~(i + Len(s) <= Len(s)) /\ (i + Len(s)) - Len(s) = i
        BY <1>2, <2>1
    <2>3. i + Len(s) \in DOMAIN u /\ x = u[i + Len(s)]
        BY <1>1, <1>2, <2>1, <2>2
    <2> QED BY <2>3 DEF Members
<1>6. Members(u) = Members(s) \cup Members(t)
    BY <1>3, <1>4, <1>5
<1> QED BY <1>1, <1>6 DEF u

\* What is not at the front of a list is in the rest.
LEMMA RestMembers ==
    ASSUME NEW R, NEW list \in Seq(R), NEW n \in Nat
    PROVE  /\ SubSeq(list, n + 1, Len(list)) \in Seq(R)
           /\ Members(SubSeq(list, n + 1, Len(list))) \subseteq Members(list)
           /\ Members(list) = Members(Front(list, n)) \cup Members(SubSeq(list, n + 1, Len(list)))
<1> DEFINE rest == SubSeq(list, n + 1, Len(list))
           m == Len(list)
<1>1. m \in Nat /\ DOMAIN list = 1..m /\ \A i \in 1..m : list[i] \in R
    OBVIOUS
<1> HIDE DEF m
<1>2. /\ rest \in Seq(R)
      /\ Len(rest) = IF n + 1 <= m THEN m - (n + 1) + 1 ELSE 0
      /\ \A i \in 1..(m - (n + 1) + 1) : rest[i] = list[(n + 1) + i - 1]
    <2>1. \A i \in (n + 1)..m : list[i] \in R
        BY <1>1
    <2> QED BY <1>1, <2>1, SubSeqProperties DEF m
<1> HIDE DEF rest
<1>3. DOMAIN rest = 1..(m - n)
    BY <1>1, <1>2
<1>4. \A i \in 1..(m - n) : rest[i] = list[n + i]
    BY <1>1, <1>2
<1>5. ASSUME NEW x \in Members(rest) PROVE x \in Members(list)
    <2>1. PICK i \in 1..(m - n) : x = rest[i]
        BY <1>3 DEF Members
    <2>2. n + i \in DOMAIN list /\ x = list[n + i]
        BY <1>1, <1>4, <2>1
    <2> QED BY <2>2 DEF Members
<1>6. ASSUME NEW x \in Members(list) PROVE x \in Members(Front(list, n)) \cup Members(rest)
    <2>1. PICK i \in 1..m : x = list[i]
        BY <1>1 DEF Members
    <2>2. CASE i <= n
        BY <1>1, <2>1, <2>2, FrontMembers
    <2>3. CASE i > n
        <3>1. i - n \in 1..(m - n) /\ n + (i - n) = i
            BY <1>1, <2>1, <2>3
        <3>2. i - n \in DOMAIN rest /\ x = rest[i - n]
            BY <1>3, <1>4, <2>1, <3>1
        <3> QED BY <3>2 DEF Members
    <2> QED BY <1>1, <2>1, <2>2, <2>3
<1>7. Members(Front(list, n)) \subseteq Members(list)
    BY FrontMembers
<1> QED BY <1>2, <1>5, <1>6, <1>7 DEF rest, m

-----------------------------------------------------------------------------
\* Sorting.

LEMMA InsertedMembers ==
    ASSUME NEW K, NEW sorted \in Seq(K), NEW x \in K
    PROVE  /\ Inserted(sorted, x) \in Seq(K)
           /\ Members(Inserted(sorted, x)) = Members(sorted) \cup {x}
<1> DEFINE S == {i \in DOMAIN sorted : sorted[i].score >= x.score}
           n == Cardinality(S)
           head == SubSeq(sorted, 1, n)
           rest == SubSeq(sorted, n + 1, Len(sorted))
           one == <<x>>
<1>1. n \in Nat /\ n <= Len(sorted)
    <2>1. DOMAIN sorted = 1..Len(sorted) /\ Len(sorted) \in Nat
        OBVIOUS
    <2>2. IsFiniteSet(1..Len(sorted)) /\ Cardinality(1..Len(sorted)) = Len(sorted)
        BY <2>1, FS_Interval
    <2>3. S \in SUBSET (1..Len(sorted))
        BY <2>1
    <2> HIDE DEF S
    <2>4. IsFiniteSet(S) /\ Cardinality(S) <= Len(sorted)
        BY <2>2, <2>3, FS_Subset
    <2> QED BY <2>4, FS_CardinalityType
<1> HIDE DEF n
<1>2. head = Front(sorted, n)
    <2>1. n = IF n < Len(sorted) THEN n ELSE Len(sorted)
        <3>1. Len(sorted) \in Nat
            OBVIOUS
        <3> QED BY <1>1, <3>1
    <2> QED BY <2>1 DEF Front
<1>3. one \in Seq(K) /\ Members(one) = {x}
    BY DEF Members
<1>4. Inserted(sorted, x) = head \o one \o rest
    BY DEF Inserted, n
<1>5. /\ rest \in Seq(K)
      /\ Members(sorted) = Members(Front(sorted, n)) \cup Members(rest)
    BY <1>1, RestMembers
<1> HIDE DEF head, rest, one
<1>6. head \in Seq(K)
    BY <1>1, <1>2, FrontMembers
<1>7. Members(sorted) = Members(head) \cup Members(rest)
    BY <1>2, <1>5
<1> DEFINE all == head \o one
<1>8. all \in Seq(K) /\ Members(all) = Members(head) \cup {x}
    BY <1>3, <1>6, ConcatMembers
<1> HIDE DEF all
<1>9. all \o rest \in Seq(K) /\ Members(all \o rest) = Members(all) \cup Members(rest)
    BY <1>5, <1>8, ConcatMembers
<1>10. Inserted(sorted, x) = all \o rest
    BY <1>4 DEF all
<1> QED BY <1>7, <1>8, <1>9, <1>10

LEMMA SortedMembers ==
    ASSUME NEW R, NEW list \in Seq(R), NEW score
    PROVE  /\ Sorted(list, score) \in Seq(R)
           /\ Members(Sorted(list, score)) = Members(list)
<1> DEFINE sorted[n \in 0..Len(list)] ==
             IF n = 0 THEN << >>
             ELSE Inserted(sorted[n - 1], [item |-> list[n], score |-> score[n]])
           Body(f) == [n \in 0..Len(list) |->
             IF n = 0 THEN << >>
             ELSE Inserted(f[n - 1], [item |-> list[n], score |-> score[n]])]
           m == Len(list)
           K == [item : R, score : {score[n] : n \in 1..m}]
           Key(n) == [item |-> list[n], score |-> score[n]]
           step == [p \in (1..m) \X Seq(K) |-> Inserted(p[2], Key(p[1]))]
           Items(s) == {s[i].item : i \in DOMAIN s}
           T == {n \in 0..m : sorted[n] \in Seq(K) /\ Items(sorted[n]) = {list[i] : i \in 1..n}}
           all == sorted[Len(list)]
<1>1. Sorted(list, score) = [n \in DOMAIN all |-> all[n].item]
    BY DEF Sorted
<1>2. sorted = CHOOSE f : f = Body(f)
    OBVIOUS
<1>3. m \in Nat /\ DOMAIN list = 1..m /\ \A n \in 1..m : list[n] \in R /\ Key(n) \in K
    OBVIOUS
<1> HIDE DEF K, Key
<1>4. sorted = Body(sorted)
    <2>1. step \in [(1..m) \X Seq(K) -> Seq(K)]
        BY <1>3, InsertedMembers
    <2>2. << >> \in Seq(K)
        OBVIOUS
    <2> HIDE DEF step, m
    <2> DEFINE Lists == Seq(K)
               none == << >>
    <2>3. m \in Nat /\ none \in Lists /\ step \in [(1..m) \X Lists -> Lists]
        BY <1>3, <2>1, <2>2
    <2> HIDE DEF Lists, none
    <2>4. \E f \in [0..m -> Lists] : Follows(f, none, step, m)
        BY <2>3, Chain
    <2>5. PICK f \in [0..m -> Seq(K)] :
            f[0] = << >> /\ \A n \in 1..m : f[n] = step[<<n, f[n - 1]>>]
        BY <2>4 DEF Lists, none, Follows
    <2>6. \A n \in 1..m : f[n] = Inserted(f[n - 1], Key(n))
        <3> TAKE n \in 1..m
        <3>1. f[n - 1] \in Seq(K)
            BY <1>3
        <3> QED BY <2>5, <3>1 DEF step
    <2>7. f = Body(f)
        <3> DEFINE g == Body(f)
        <3>1. g = [n \in 0..m |-> g[n]] /\ f = [n \in 0..m |-> f[n]]
            BY DEF m
        <3>2. \A n \in 0..m : g[n] = IF n = 0 THEN << >> ELSE Inserted(f[n - 1], Key(n))
            BY DEF m, Key
        <3>3. \A n \in 0..m : n = 0 \/ n \in 1..m
            BY <1>3
        <3> HIDE DEF g
        <3>4. \A n \in 0..m : g[n] = f[n]
            BY <2>5, <2>6, <3>2, <3>3
        <3>5. g = f
            BY <3>1, <3>4
        <3> QED BY <3>5 DEF g
    <2> HIDE DEF sorted, Body
    <2> QED BY <1>2, <2>7
<1> HIDE DEF sorted
<1>5. sorted[0] = << >>
    BY <1>3, <1>4
<1>6. ASSUME NEW n \in 1..m PROVE sorted[n] = Inserted(sorted[n - 1], Key(n))
    <2>1. sorted[n] = Body(sorted)[n]
        BY <1>4
    <2>2. n \in 0..Len(list) /\ n # 0
        BY <1>3
    <2> QED BY <2>1, <2>2 DEF Key
<1> HIDE DEF Body, step
<1>7. 0 \in T
    <2>1. Items(<< >>) = {} /\ {list[i] : i \in 1..0} = {}
        OBVIOUS
    <2>2. << >> \in Seq(K)
        OBVIOUS
    <2>3. sorted[0] \in Seq(K) /\ Items(sorted[0]) = {list[i] : i \in 1..0}
        BY <1>5, <2>1, <2>2
    <2>4. 0 \in 0..m
        BY <1>3
    <2> HIDE DEF Items
    <2> QED BY <2>3, <2>4
<1>8. ASSUME NEW n \in 1..m, n - 1 \in T PROVE n \in T
    <2>1. sorted[n - 1] \in Seq(K) /\ Items(sorted[n - 1]) = {list[i] : i \in 1..(n - 1)}
        BY <1>8
    <2>2. {list[i] : i \in 1..n} = {list[i] : i \in 1..(n - 1)} \cup {list[n]}
        <3>1. 1..n = 1..(n - 1) \cup {n}
            BY <1>3
        <3> QED BY <3>1
    <2>3. \A s : Items(s) = {k.item : k \in Members(s)}
        BY DEF Members
    <2>4. sorted[n] \in Seq(K) /\ Members(sorted[n]) = Members(sorted[n - 1]) \cup {Key(n)}
        <3>1. Key(n) \in K /\ sorted[n] = Inserted(sorted[n - 1], Key(n))
            BY <1>3, <1>6
        <3> DEFINE before == sorted[n - 1]
                   x == Key(n)
        <3>2. before \in Seq(K) /\ x \in K /\ sorted[n] = Inserted(before, x)
            BY <2>1, <3>1
        <3> HIDE DEF before, x
        <3>3. Inserted(before, x) \in Seq(K) /\ Members(Inserted(before, x)) = Members(before) \cup {x}
            BY <3>2, InsertedMembers
        <3> QED BY <3>2, <3>3 DEF before, x
    <2>5. Key(n).item = list[n]
        BY DEF Key
    <2> HIDE DEF Items
    <2>6. Items(sorted[n]) = Items(sorted[n - 1]) \cup {list[n]}
        BY <2>3, <2>4, <2>5
    <2>7. n \in 0..m
        BY <1>3
    <2>8. Items(sorted[n]) = {list[i] : i \in 1..n}
        BY <2>1, <2>2, <2>6
    <2> QED BY <2>4, <2>7, <2>8
<1>9. m \in T
    <2> HIDE DEF T
    <2>1. 0..m \subseteq T
        BY <1>3, <1>7, <1>8, Climb
    <2> QED BY <1>3, <2>1
<1>10. all \in Seq(K) /\ Items(all) = Members(list)
    <2>1. {list[i] : i \in 1..m} = Members(list)
        BY <1>3 DEF Members
    <2>2. sorted[m] \in Seq(K) /\ Items(sorted[m]) = {list[i] : i \in 1..m}
        BY <1>9
    <2> QED BY <2>1, <2>2
<1> DEFINE result == [n \in DOMAIN all |-> all[n].item]
<1> HIDE DEF all
<1>11. DOMAIN all = 1..Len(all) /\ Len(all) \in Nat /\ \A n \in DOMAIN all : all[n].item \in R
    <2>1. DOMAIN all = 1..Len(all) /\ Len(all) \in Nat /\ \A n \in DOMAIN all : all[n] \in K
        BY <1>10
    <2>2. \A k \in K : k.item \in R
        BY DEF K
    <2> QED BY <2>1, <2>2
<1>12. result \in Seq(R)
    BY <1>11
<1>13. Members(result) = Items(all)
    BY DEF Members
<1> QED BY <1>1, <1>10, <1>12, <1>13

-----------------------------------------------------------------------------
\* Fusion.

LEMMA TotalTyped == ASSUME NEW values \in Seq(Int) PROVE Total(values) \in Int
<1> DEFINE sum[n \in 0..Len(values)] == IF n = 0 THEN 0 ELSE sum[n - 1] + values[n]
           Body(f) == [n \in 0..Len(values) |-> IF n = 0 THEN 0 ELSE f[n - 1] + values[n]]
           m == Len(values)
           step == [p \in (1..m) \X Int |-> p[2] + values[p[1]]]
           T == {n \in 0..m : sum[n] \in Int}
<1>1. Total(values) = sum[Len(values)]
    BY DEF Total
<1>2. sum = CHOOSE f : f = Body(f)
    OBVIOUS
<1>3. m \in Nat /\ DOMAIN values = 1..m /\ \A n \in 1..m : values[n] \in Int
    OBVIOUS
<1>4. sum = Body(sum)
    <2>1. step \in [(1..m) \X Int -> Int]
        BY <1>3
    <2> HIDE DEF step, m
    <2> DEFINE Values == Int
               none == 0
    <2>2. m \in Nat /\ none \in Values /\ step \in [(1..m) \X Values -> Values]
        BY <1>3, <2>1
    <2> HIDE DEF Values, none
    <2>3. \E f \in [0..m -> Values] : Follows(f, none, step, m)
        BY <2>2, Chain
    <2>4. PICK f \in [0..m -> Int] : f[0] = 0 /\ \A n \in 1..m : f[n] = step[<<n, f[n - 1]>>]
        BY <2>3 DEF Follows, Values, none
    <2>5. \A n \in 1..m : f[n] = f[n - 1] + values[n]
        <3> TAKE n \in 1..m
        <3>1. f[n - 1] \in Int
            BY <1>3
        <3> QED BY <2>4, <3>1 DEF step
    <2>6. f = Body(f)
        <3> DEFINE g == Body(f)
        <3>1. g = [n \in 0..m |-> g[n]] /\ f = [n \in 0..m |-> f[n]]
            BY DEF m
        <3>2. \A n \in 0..m : g[n] = IF n = 0 THEN 0 ELSE f[n - 1] + values[n]
            BY DEF m
        <3>3. \A n \in 0..m : n = 0 \/ n \in 1..m
            BY <1>3
        <3> HIDE DEF g
        <3>4. \A n \in 0..m : g[n] = f[n]
            BY <2>4, <2>5, <3>2, <3>3
        <3>5. g = f
            BY <3>1, <3>4
        <3> QED BY <3>5 DEF g
    <2> HIDE DEF sum, Body
    <2> QED BY <1>2, <2>6
<1> HIDE DEF sum
<1>5. sum[0] = 0
    BY <1>3, <1>4
<1>6. ASSUME NEW n \in 1..m PROVE sum[n] = sum[n - 1] + values[n]
    <2>1. sum[n] = Body(sum)[n]
        BY <1>4
    <2>2. n \in 0..Len(values) /\ n # 0
        BY <1>3
    <2> QED BY <2>1, <2>2
<1> HIDE DEF Body, step
<1>7. 0 \in T
    BY <1>3, <1>5
<1>8. ASSUME NEW n \in 1..m, n - 1 \in T PROVE n \in T
    <2>1. sum[n - 1] \in Int /\ values[n] \in Int
        BY <1>3, <1>8
    <2>2. sum[n] \in Int
        BY <1>6, <2>1
    <2> QED BY <1>3, <2>2
<1>9. m \in T
    <2> HIDE DEF T
    <2>1. 0..m \subseteq T
        BY <1>3, <1>7, <1>8, Climb
    <2> QED BY <1>3, <2>1
<1> QED BY <1>1, <1>9

Voices == [list : Seq(Ids), weight : Nat]

LEMMA VoteTyped ==
    ASSUME NEW leg \in Voices, NEW x \in Members(leg.list)
    PROVE  VoteOf(leg, x) \in Int
<1>1. leg.list \in Seq(Ids) /\ leg.weight \in Nat
    BY DEF Voices
<1>2. \E i \in DOMAIN leg.list : leg.list[i] = x
    BY DEF Members
<1>3. Place(leg.list, x) \in DOMAIN leg.list
    BY <1>2 DEF Place
<1>4. Place(leg.list, x) \in Nat
    BY <1>1, <1>3
<1>5. \A k \in Nat : Vote(k) \in Nat
    BY DEF Vote, Million, RrfK
<1>6. Vote(Place(leg.list, x)) \in Nat
    BY <1>4, <1>5
<1>7. \A k, w \in Nat : (w * k) \div 100 \in Int
    OBVIOUS
<1> QED BY <1>1, <1>6, <1>7 DEF VoteOf

LEMMA NamedIds ==
    ASSUME NEW legs \in Seq(Voices)
    PROVE  /\ Named(legs) \subseteq Ids
           /\ \A x : x \in Named(legs) <=> \E n \in DOMAIN legs : Names(legs, n, x)
<1>1. \A n \in DOMAIN legs : legs[n] \in Voices
    OBVIOUS
<1>2. \A n \in DOMAIN legs : legs[n].list \in Seq(Ids)
    BY <1>1 DEF Voices
<1>3. \A n \in DOMAIN legs : Members(legs[n].list) \subseteq Ids
    BY <1>2, MembersIn
<1> QED BY <1>3 DEF Named, Names

LEMMA RrfTyped == ASSUME NEW legs \in Seq(Voices) PROVE Rrf(legs) \in [Named(legs) -> Int]
<1> SUFFICES ASSUME NEW x \in Named(legs)
             PROVE  Total([n \in DOMAIN legs |-> IF Names(legs, n, x) THEN VoteOf(legs[n], x) ELSE 0]) \in Int
    BY DEF Rrf
<1> DEFINE Voted(n) == IF Names(legs, n, x) THEN VoteOf(legs[n], x) ELSE 0
<1>1. DOMAIN legs = 1..Len(legs) /\ Len(legs) \in Nat /\ \A n \in DOMAIN legs : legs[n] \in Voices
    OBVIOUS
<1>2. \A n \in DOMAIN legs : Voted(n) \in Int
    BY <1>1, VoteTyped DEF Names
<1> HIDE DEF Voted
<1>3. [n \in DOMAIN legs |-> Voted(n)] \in Seq(Int)
    BY <1>1, <1>2
<1>4. Total([n \in DOMAIN legs |-> Voted(n)]) \in Int
    BY <1>3, TotalTyped
<1> QED BY <1>4 DEF Voted

LEMMA FirstNamedMembers ==
    ASSUME NEW legs \in Seq(Voices)
    PROVE  /\ FirstNamed(legs) \in Seq(Ids)
           /\ Members(FirstNamed(legs)) = Named(legs)
<1> DEFINE all[n \in 0..Len(legs)] ==
             IF n = 0 THEN << >>
             ELSE LET before == all[n - 1]
                  IN before \o Kept(legs[n].list, {x \in Ids : Names(legs, n, x)} \ Members(before))
           Next(n, before) ==
             before \o Kept(legs[n].list, {x \in Ids : Names(legs, n, x)} \ Members(before))
           Body(f) == [n \in 0..Len(legs) |-> IF n = 0 THEN << >> ELSE Next(n, f[n - 1])]
           m == Len(legs)
           Here(n) == {x \in Ids : Names(legs, n, x)}
           Heard(n) == {x \in Ids : \E k \in 1..n : Names(legs, k, x)}
           step == [p \in (1..m) \X Seq(Ids) |-> Next(p[1], p[2])]
           T == {n \in 0..m : all[n] \in Seq(Ids) /\ Members(all[n]) = Heard(n)}
<1>1. FirstNamed(legs) = all[Len(legs)]
    BY DEF FirstNamed
<1>2. all = CHOOSE f : f = Body(f)
    OBVIOUS
<1>3. m \in Nat /\ DOMAIN legs = 1..m /\ \A n \in 1..m : legs[n].list \in Seq(Ids)
    <2>1. \A n \in 1..m : legs[n] \in Voices
        OBVIOUS
    <2> QED BY <2>1 DEF Voices
<1>4. ASSUME NEW n \in 1..m, NEW before \in Seq(Ids)
      PROVE  /\ Next(n, before) \in Seq(Ids)
             /\ Members(Next(n, before)) = Members(before) \cup Here(n)
    <2> DEFINE list == legs[n].list
               more == Kept(list, Here(n) \ Members(before))
    <2>1. list \in Seq(Ids)
        BY <1>3
    <2>2. Here(n) \subseteq Members(list)
        BY DEF Names
    <2> HIDE DEF list
    <2>3. more \in Seq(Ids) /\ Members(more) = Members(list) \cap (Here(n) \ Members(before))
        BY <2>1, KeptMembers
    <2> HIDE DEF more
    <2>4. before \o more \in Seq(Ids) /\ Members(before \o more) = Members(before) \cup Members(more)
        BY <2>3, ConcatMembers
    <2>5. Next(n, before) = before \o more
        BY DEF more, list
    <2> HIDE DEF Next, Here
    <2> QED BY <2>2, <2>3, <2>4, <2>5
<1> HIDE DEF Next
<1>5. all = Body(all)
    <2>1. step \in [(1..m) \X Seq(Ids) -> Seq(Ids)]
        BY <1>4
    <2>2. << >> \in Seq(Ids)
        OBVIOUS
    <2> HIDE DEF step, m
    <2> DEFINE Lists == Seq(Ids)
               none == << >>
    <2>3. m \in Nat /\ none \in Lists /\ step \in [(1..m) \X Lists -> Lists]
        BY <1>3, <2>1, <2>2
    <2> HIDE DEF Lists, none
    <2>4. \E f \in [0..m -> Lists] : Follows(f, none, step, m)
        BY <2>3, Chain
    <2>5. PICK f \in [0..m -> Seq(Ids)] :
            f[0] = << >> /\ \A n \in 1..m : f[n] = step[<<n, f[n - 1]>>]
        BY <2>4 DEF Lists, none, Follows
    <2>6. \A n \in 1..m : f[n] = Next(n, f[n - 1])
        <3> TAKE n \in 1..m
        <3>1. f[n - 1] \in Seq(Ids)
            BY <1>3
        <3> QED BY <2>5, <3>1 DEF step
    <2>7. f = Body(f)
        <3> DEFINE g == Body(f)
        <3>1. g = [n \in 0..m |-> g[n]] /\ f = [n \in 0..m |-> f[n]]
            BY DEF m
        <3>2. \A n \in 0..m : g[n] = IF n = 0 THEN << >> ELSE Next(n, f[n - 1])
            BY DEF m
        <3>3. \A n \in 0..m : n = 0 \/ n \in 1..m
            BY <1>3
        <3> HIDE DEF g
        <3>4. \A n \in 0..m : g[n] = f[n]
            BY <2>5, <2>6, <3>2, <3>3
        <3>5. g = f
            BY <3>1, <3>4
        <3> QED BY <3>5 DEF g
    <2> HIDE DEF all, Body
    <2> QED BY <1>2, <2>7
<1> HIDE DEF all
<1>6. all[0] = << >>
    BY <1>3, <1>5
<1>7. ASSUME NEW n \in 1..m PROVE all[n] = Next(n, all[n - 1])
    <2>1. all[n] = Body(all)[n]
        BY <1>5
    <2>2. n \in 0..Len(legs) /\ n # 0
        BY <1>3
    <2> QED BY <2>1, <2>2
<1> HIDE DEF Body, step
<1>8. 0 \in T
    <2>1. Members(<< >>) = {} /\ Heard(0) = {}
        BY DEF Members
    <2>2. all[0] \in Seq(Ids) /\ Members(all[0]) = Heard(0)
        BY <1>6, <2>1
    <2>3. 0 \in 0..m
        BY <1>3
    <2> HIDE DEF Heard
    <2> QED BY <2>2, <2>3
<1>9. ASSUME NEW n \in 1..m, n - 1 \in T PROVE n \in T
    <2>1. all[n - 1] \in Seq(Ids) /\ Members(all[n - 1]) = Heard(n - 1)
        BY <1>9
    <2>2. Heard(n) = Heard(n - 1) \cup Here(n)
        <3>1. 1..n = 1..(n - 1) \cup {n}
            BY <1>3
        <3> QED BY <3>1
    <2> HIDE DEF Heard, Here
    <2>3. all[n] \in Seq(Ids) /\ Members(all[n]) = Members(all[n - 1]) \cup Here(n)
        BY <1>4, <1>7, <2>1
    <2>4. n \in 0..m
        BY <1>3
    <2> QED BY <2>1, <2>2, <2>3, <2>4
<1>10. m \in T
    <2> HIDE DEF T
    <2>1. 0..m \subseteq T
        BY <1>3, <1>8, <1>9, Climb
    <2> QED BY <1>3, <2>1
<1>11. Heard(m) = Named(legs)
    BY <1>3, NamedIds
<1> QED BY <1>1, <1>10, <1>11

LEMMA InOrderMembers ==
    ASSUME NEW legs \in Seq(Voices), NEW scores
    PROVE  /\ InOrder(scores, legs) \in Seq(Ids)
           /\ Members(InOrder(scores, legs)) = Named(legs)
<1> DEFINE named == FirstNamed(legs)
           score == [n \in DOMAIN named |-> scores[named[n]]]
<1>1. named \in Seq(Ids) /\ Members(named) = Named(legs)
    BY FirstNamedMembers
<1>2. InOrder(scores, legs) = Sorted(named, score)
    BY DEF InOrder
<1> HIDE DEF named, score
<1> QED BY <1>1, <1>2, SortedMembers

-----------------------------------------------------------------------------
\* Scores.

\* A finite set of numbers that is not empty has a greatest and a least member.
LEMMA Extremes ==
    ASSUME NEW S, S \subseteq Int, IsFiniteSet(S), S # {}
    PROVE  /\ Max(S) \in S /\ \A x \in S : x <= Max(S)
           /\ Min(S) \in S /\ \A x \in S : Min(S) <= x
<1> DEFINE Bounded(T) == /\ \E m \in T : \A x \in T : x <= m
                         /\ \E m \in T : \A x \in T : m <= x
           Unbounded == {T \in FiniteSubsetsOf(S) : T # {} /\ ~ Bounded(T)}
<1>1. Unbounded = {}
    <2> SUFFICES ASSUME Unbounded # {} PROVE FALSE
        OBVIOUS
    <2>1. IsWellFoundedOn(StrictSubsetOrdering(S), FiniteSubsetsOf(S))
        BY FS_StrictSubsetOrderingWellFounded
    <2>2. Unbounded \subseteq FiniteSubsetsOf(S)
        OBVIOUS
    <2> HIDE DEF Unbounded
    <2>3. PICK T \in Unbounded : \A U \in Unbounded : <<U, T>> \notin StrictSubsetOrdering(S)
        BY <2>1, <2>2, WFMin
    <2> USE DEF Unbounded
    <2>4. T \in FiniteSubsetsOf(S) /\ T # {} /\ ~ Bounded(T)
        OBVIOUS
    <2>5. T \subseteq S /\ IsFiniteSet(T)
        BY <2>4 DEF FiniteSubsetsOf
    <2>6. PICK e \in T : TRUE
        BY <2>4
    <2>7. T \ {e} \subseteq S /\ IsFiniteSet(T \ {e})
        BY <2>5, FS_RemoveElement
    <2>8. T \ {e} \in FiniteSubsetsOf(S) /\ <<T \ {e}, T>> \in StrictSubsetOrdering(S)
        BY <2>5, <2>6, <2>7 DEF FiniteSubsetsOf, StrictSubsetOrdering
    <2>9. T \ {e} \notin Unbounded
        BY <2>3, <2>8
    <2>10. \A x \in T : x \in Int
        BY <2>5
    <2>11. CASE T \ {e} = {}
        <3>1. T = {e} /\ e \in Int
            BY <2>6, <2>10, <2>11
        <3> QED BY <2>4, <3>1
    <2>12. CASE T \ {e} # {}
        <3>1. Bounded(T \ {e})
            BY <2>8, <2>9, <2>12
        <3>2. PICK high \in T \ {e} : \A x \in T \ {e} : x <= high
            BY <3>1
        <3>3. PICK low \in T \ {e} : \A x \in T \ {e} : low <= x
            BY <3>1
        <3>4. high \in T /\ low \in T /\ {e, high, low} \subseteq Int
            BY <2>6, <2>10
        <3>5. \E m \in T : \A x \in T : x <= m
            <4>1. CASE e <= high
                BY <3>2, <3>4, <4>1
            <4>2. CASE high <= e
                <5>1. \A x \in T : x <= e
                    BY <2>10, <3>2, <3>4, <4>2
                <5> QED BY <2>6, <5>1
            <4> QED BY <3>4, <4>1, <4>2
        <3>6. \E m \in T : \A x \in T : m <= x
            <4>1. CASE low <= e
                BY <3>3, <3>4, <4>1
            <4>2. CASE e <= low
                <5>1. \A x \in T : e <= x
                    BY <2>10, <3>3, <3>4, <4>2
                <5> QED BY <2>6, <5>1
            <4> QED BY <3>4, <4>1, <4>2
        <3> QED BY <2>4, <3>5, <3>6
    <2> QED BY <2>11, <2>12
<1>2. S \in FiniteSubsetsOf(S)
    BY DEF FiniteSubsetsOf
<1>3. Bounded(S)
    BY <1>1, <1>2
<1>4. Max(S) \in S /\ \A x \in S : x <= Max(S)
    BY <1>3 DEF Max
<1>5. Min(S) \in S /\ \A x \in S : Min(S) <= x
    BY <1>3 DEF Min
<1> QED BY <1>4, <1>5

LEMMA RangeFinite ==
    ASSUME NEW D, IsFiniteSet(D), NEW f \in [D -> Int]
    PROVE  /\ IsFiniteSet({f[x] : x \in D})
           /\ {f[x] : x \in D} \subseteq Int
<1> DEFINE T == {f[x] : x \in D}
<1>1. f \in Surjection(D, T)
    BY DEF Surjection
<1> HIDE DEF T
<1>2. IsFiniteSet(T)
    BY <1>1, FS_Surjection
<1> QED BY <1>2 DEF T

LEMMA NormalizedTyped ==
    ASSUME NEW D, IsFiniteSet(D), NEW scores \in [D -> Int]
    PROVE  Normalized(scores) \in [D -> Int]
<1> DEFINE S == {scores[x] : x \in DOMAIN scores}
           low == Min(S)
           high == Max(S)
<1>1. DOMAIN scores = D /\ IsFiniteSet(S) /\ S \subseteq Int
    BY RangeFinite
<1> SUFFICES ASSUME NEW x \in D
             PROVE  (IF high = low THEN Thousand
                     ELSE Floor + ((Thousand - Floor) * (scores[x] - low)) \div (high - low)) \in Int
    BY <1>1 DEF Normalized
<1>2. S # {} /\ scores[x] \in Int
    BY <1>1
<1> HIDE DEF S
<1>3. low \in Int /\ high \in Int /\ low <= high
    <2>1. Max(S) \in S /\ Min(S) \in S /\ \A y \in S : y <= Max(S)
        BY <1>1, <1>2, Extremes
    <2> QED BY <1>1, <2>1
<1> HIDE DEF low, high
<1>4. ASSUME high # low PROVE ((Thousand - Floor) * (scores[x] - low)) \div (high - low) \in Int
    <2>1. high - low \in Int /\ high - low > 0
        BY <1>3, <1>4
    <2>2. (Thousand - Floor) * (scores[x] - low) \in Int
        BY <1>2, <1>3 DEF Thousand, Floor
    <2>3. \A a, b \in Int : b > 0 => a \div b \in Int
        OBVIOUS
    <2> QED BY <2>1, <2>2, <2>3
<1> QED BY <1>4 DEF Thousand, Floor

LEMMA RerankedTyped ==
    ASSUME NEW D, NEW bases \in [D -> Int],
           NEW E, E \subseteq D, IsFiniteSet(E), NEW judged \in [E -> Int]
    PROVE  Reranked(bases, judged) \in [D -> Int]
<1> DEFINE S == {judged[x] : x \in DOMAIN judged}
           low == Min(S)
           high == Max(S)
<1>1. DOMAIN judged = E /\ IsFiniteSet(S) /\ S \subseteq Int /\ DOMAIN bases = D
    BY RangeFinite
<1>2. CASE DOMAIN judged = {} \/ high = low
    BY <1>2 DEF Reranked
<1>3. CASE DOMAIN judged # {} /\ high # low
    <2>1. S # {}
        BY <1>3
    <2> HIDE DEF S
    <2>2. low \in Int /\ high \in Int /\ high - low > 0
        <3>1. Max(S) \in S /\ Min(S) \in S /\ \A y \in S : y <= Max(S)
            BY <1>1, <2>1, Extremes
        <3>2. low \in Int /\ high \in Int /\ low <= high /\ high # low
            BY <1>1, <1>3, <3>1
        <3> HIDE DEF low, high
        <3> QED BY <3>2
    <2> USE DEF S
    <2>3. Reranked(bases, judged) =
            [x \in D |-> IF x \in E
                         THEN Floor + ((Thousand - Floor) * (judged[x] - low)) \div (high - low)
                         ELSE (Floor * bases[x]) \div (2 * Thousand)]
        BY <1>1, <1>3 DEF Reranked
    <2> HIDE DEF S, low, high
    <2>4. \A a, b \in Int : b > 0 => a \div b \in Int
        OBVIOUS
    <2>5. ASSUME NEW x \in E
          PROVE  Floor + ((Thousand - Floor) * (judged[x] - low)) \div (high - low) \in Int
        <3>1. (Thousand - Floor) * (judged[x] - low) \in Int /\ high - low \in Int
            BY <2>2 DEF Thousand, Floor
        <3>2. ((Thousand - Floor) * (judged[x] - low)) \div (high - low) \in Int
            BY <2>2, <2>4, <3>1
        <3> QED BY <3>2 DEF Floor
    <2>6. ASSUME NEW x \in D PROVE (Floor * bases[x]) \div (2 * Thousand) \in Int
        <3>1. bases[x] \in Int
            OBVIOUS
        <3> QED BY <3>1 DEF Floor, Thousand
    <2> QED BY <2>3, <2>5, <2>6
<1> QED BY <1>2, <1>3

LEMMA ScoreTyped ==
    ASSUME NEW r \in Ids, NEW base \in Int
    PROVE  ScoreOf(r, base) \in Int
<1>1. Row[r].decay \in Nat /\ Row[r].helpful \in Nat /\ Row[r].harmful \in Nat
    BY RankingAssumption DEF Ids
<1>2. \A condition, k, x : k \in Nat /\ x \in Int => Times(condition, k, x) \in Int
    BY DEF Times
<1>3. Feedback(r) \in Int
    BY <1>1 DEF Feedback, Smaller, Larger
<1>4. Larger(300, Row[r].decay) \in Int
    BY <1>1 DEF Larger
<1> DEFINE worth == (base * Larger(300, Row[r].decay) * Feedback(r)) \div 100
<1>5. worth \in Int
    <2>1. \A a, b, c \in Int : a * b * c \in Int
        OBVIOUS
    <2>2. \A a \in Int : a \div 100 \in Int
        OBVIOUS
    <2> QED BY <1>3, <1>4, <2>1, <2>2
<1> HIDE DEF worth
<1>6. Times(Row[r].failed, 15, worth) \in Int
    BY <1>2, <1>5
<1>7. Times(Row[r].kind = "warning", 12, Times(Row[r].failed, 15, worth)) \in Int
    BY <1>2, <1>6
<1>8. Times(Row[r].pinned, 13, Times(Row[r].kind = "warning", 12, Times(Row[r].failed, 15, worth))) \in Int
    BY <1>2, <1>7
<1>9. base * 600 \in Int
    OBVIOUS
<1> QED BY <1>8, <1>9 DEF ScoreOf, worth

LEMMA OneEpisodeMembers ==
    ASSUME NEW rows \in Seq(Ids)
    PROVE  /\ OneEpisode(rows) \in Seq(Ids)
           /\ Members(OneEpisode(rows)) \subseteq Members(rows)
    BY KeptMembers DEF OneEpisode

LEMMA HitsTyped ==
    ASSUME NEW legs \in Seq(Voices), NEW scores \in [Named(legs) -> Int], NEW limit \in Nat
    PROVE  /\ HitsOf(scores, legs, limit) \in Seq(Hits)
           /\ \A h \in Members(HitsOf(scores, legs, limit)) : h.row \in Named(legs)
<1> DEFINE order == InOrder(scores, legs)
           kept == OneEpisode(order)
           scored == [n \in DOMAIN kept |-> [row |-> kept[n], score |-> ScoreOf(kept[n], scores[kept[n]])]]
           points == [n \in DOMAIN scored |-> scored[n].score]
           R == {h \in Hits : h.row \in Named(legs)}
<1>1. order \in Seq(Ids) /\ Members(order) = Named(legs)
    BY InOrderMembers
<1> HIDE DEF order
<1>2. kept \in Seq(Ids) /\ Members(kept) \subseteq Named(legs)
    BY <1>1, OneEpisodeMembers
<1> HIDE DEF kept
<1>3. DOMAIN kept = 1..Len(kept) /\ Len(kept) \in Nat /\ \A n \in DOMAIN kept : kept[n] \in Ids /\ kept[n] \in Named(legs)
    BY <1>2, MembersIn
<1>4. \A n \in DOMAIN kept : ScoreOf(kept[n], scores[kept[n]]) \in Int
    BY <1>3, ScoreTyped
<1>5. \A n \in DOMAIN kept : [row |-> kept[n], score |-> ScoreOf(kept[n], scores[kept[n]])] \in R
    BY <1>3, <1>4 DEF Hits
<1> HIDE DEF R
<1>6. scored \in Seq(R)
    BY <1>3, <1>5
<1>7. HitsOf(scores, legs, limit) = Front(Sorted(scored, points), limit)
    BY DEF HitsOf, kept, order
<1> HIDE DEF scored, points
<1>8. Sorted(scored, points) \in Seq(R)
    BY <1>6, SortedMembers
<1>9. Front(Sorted(scored, points), limit) \in Seq(R)
    BY <1>8, FrontMembers
<1>10. Members(Front(Sorted(scored, points), limit)) \subseteq R
    BY <1>9, MembersIn
<1>11. R \subseteq Hits
    BY DEF R
<1>12. Front(Sorted(scored, points), limit) \in Seq(Hits)
    BY <1>9, <1>11, SeqMonotonic
<1> QED BY <1>7, <1>10, <1>12 DEF R

-----------------------------------------------------------------------------
\* The reordering for diversity.

LEMMA ByScoreMembers ==
    ASSUME NEW hs \in Seq(Hits)
    PROVE  ByScore(hs) \in Seq(DOMAIN hs) /\ Members(ByScore(hs)) = DOMAIN hs
<1> DEFINE places == [i \in DOMAIN hs |-> i]
           score == [i \in DOMAIN hs |-> hs[i].score]
<1>1. DOMAIN hs = 1..Len(hs) /\ Len(hs) \in Nat
    OBVIOUS
<1>2. places \in Seq(DOMAIN hs) /\ Members(places) = DOMAIN hs
    BY <1>1 DEF Members
<1>3. ByScore(hs) = Sorted(places, score)
    BY DEF ByScore
<1> HIDE DEF places, score
<1> QED BY <1>2, <1>3, SortedMembers

LEMMA OneMoreTyped ==
    ASSUME NEW hs \in Seq(Hits), NEW chosen \in Seq(DOMAIN hs)
    PROVE  OneMore(hs, chosen) \in Seq(DOMAIN hs)
<1> DEFINE rest == Kept(ByScore(hs), DOMAIN hs \ Members(chosen))
           gains == [n \in DOMAIN rest |-> Gain(hs, rest[n], chosen)]
           next == Sorted(rest, gains)
<1>1. rest \in Seq(DOMAIN hs)
    BY ByScoreMembers, KeptMembers
<1>2. OneMore(hs, chosen) = IF rest = << >> THEN chosen ELSE Append(chosen, next[1])
    BY DEF OneMore
<1> HIDE DEF rest, gains
<1>3. next \in Seq(DOMAIN hs) /\ Members(next) = Members(rest)
    BY <1>1, SortedMembers
<1> HIDE DEF next
<1>4. ASSUME rest # << >> PROVE Append(chosen, next[1]) \in Seq(DOMAIN hs)
    <2>1. Members(rest) # {}
        BY <1>1, <1>4, MembersIn
    <2>2. next # << >>
        BY <1>3, <2>1, MembersIn
    <2>3. next[1] \in DOMAIN hs
        <3>1. 1 \in 1..Len(next)
            BY <1>3, <2>2
        <3> QED BY <1>3, <3>1, ElementOfSeq
    <2> QED BY <2>3, AppendProperties
<1> QED BY <1>2, <1>4

LEMMA MmrTyped ==
    ASSUME NEW hs \in Seq(Hits), hs # << >>
    PROVE  MmrPlaces(hs) \in Seq(DOMAIN hs)
<1> DEFINE selected[n \in 1..Limit] ==
             IF n = 1 THEN <<ByScore(hs)[1]>> ELSE OneMore(hs, selected[n - 1])
           Body(f) == [n \in 1..Limit |->
             IF n = 1 THEN <<ByScore(hs)[1]>> ELSE OneMore(hs, f[n - 1])]
           S == Seq(DOMAIN hs)
           start == <<ByScore(hs)[1]>>
           m == Limit - 1
           step == [p \in (1..m) \X S |-> OneMore(hs, p[2])]
           T == {n \in 0..m : selected[n + 1] \in S}
<1>1. MmrPlaces(hs) = selected[Limit]
    BY DEF MmrPlaces
<1>2. selected = CHOOSE f : f = Body(f)
    OBVIOUS
<1>3. m \in Nat /\ Limit \in Nat /\ Limit = m + 1 /\ 1 \in 1..Limit
    BY RankingAssumption
<1>4. start \in S
    <2> DEFINE b == ByScore(hs)
    <2>1. b \in Seq(DOMAIN hs) /\ Members(b) = DOMAIN hs
        BY ByScoreMembers
    <2>2. DOMAIN hs # {}
        <3>1. Len(hs) # 0 /\ Len(hs) \in Nat /\ DOMAIN hs = 1..Len(hs)
            BY EmptySeq
        <3> QED BY <3>1
    <2> HIDE DEF b
    <2>3. b # << >>
        BY <2>1, <2>2, MembersIn
    <2>4. 1 \in 1..Len(b)
        BY <2>1, <2>3
    <2>5. b[1] \in DOMAIN hs
        BY <2>1, <2>4, ElementOfSeq
    <2> QED BY <2>5 DEF b
<1>5. \A chosen \in S : OneMore(hs, chosen) \in S
    BY OneMoreTyped
<1> HIDE DEF S, start
<1>6. selected = Body(selected)
    <2>1. step \in [(1..m) \X S -> S]
        BY <1>5
    <2> HIDE DEF step, m
    <2>2. \E f \in [0..m -> S] : Follows(f, start, step, m)
        BY <1>3, <1>4, <2>1, Chain
    <2>3. PICK f \in [0..m -> S] : f[0] = start /\ \A n \in 1..m : f[n] = step[<<n, f[n - 1]>>]
        BY <2>2 DEF Follows
    <2>4. \A n \in 1..m : f[n] = OneMore(hs, f[n - 1])
        <3> TAKE n \in 1..m
        <3>1. f[n - 1] \in S
            BY <1>3
        <3> QED BY <2>3, <3>1 DEF step
    <2>5. \E g : g = Body(g)
        <3> DEFINE g == [n \in 1..Limit |-> f[n - 1]]
                   b == Body(g)
        <3>1. g = [n \in 1..Limit |-> g[n]] /\ b = [n \in 1..Limit |-> b[n]]
            OBVIOUS
        <3>2. \A n \in 1..Limit : n = 1 \/ (n - 1 \in 1..m /\ n - 1 \in 1..Limit)
            BY <1>3
        <3>3. \A n \in 1..Limit : b[n] = IF n = 1 THEN start ELSE OneMore(hs, g[n - 1])
            BY DEF start
        <3>4. \A n \in 1..Limit : g[n] = f[n - 1]
            OBVIOUS
        <3> HIDE DEF b
        <3>5. ASSUME NEW n \in 1..Limit PROVE b[n] = g[n]
            <4>1. CASE n = 1
                <5>1. b[n] = start
                    BY <3>3, <4>1
                <5>2. n - 1 = 0 /\ g[n] = f[n - 1]
                    BY <3>4, <4>1
                <5> QED BY <2>3, <5>1, <5>2
            <4>2. CASE n # 1
                <5>1. n - 1 \in 1..m /\ n - 1 \in 1..Limit
                    BY <3>2, <4>2
                <5>2. b[n] = OneMore(hs, g[n - 1]) /\ g[n - 1] = f[(n - 1) - 1] /\ g[n] = f[n - 1]
                    BY <3>3, <3>4, <4>2, <5>1
                <5>3. f[n - 1] = OneMore(hs, f[(n - 1) - 1])
                    BY <2>4, <5>1
                <5> QED BY <5>2, <5>3
            <4> QED BY <4>1, <4>2
        <3> HIDE DEF g
        <3>6. b = g
            BY <3>1, <3>5
        <3>7. g = Body(g)
            BY <3>6 DEF b
        <3> HIDE DEF Body
        <3> QED BY <3>7
    <2> HIDE DEF selected, Body
    <2> QED BY <1>2, <2>5
<1> HIDE DEF selected
<1>7. selected[1] = start
    <2>1. selected[1] = Body(selected)[1]
        BY <1>6
    <2> QED BY <1>3, <2>1 DEF start
<1>8. ASSUME NEW n \in 1..m PROVE selected[n + 1] = OneMore(hs, selected[n])
    <2>1. selected[n + 1] = Body(selected)[n + 1]
        BY <1>6
    <2>2. n + 1 \in 1..Limit /\ n + 1 # 1 /\ (n + 1) - 1 = n
        BY <1>3
    <2> QED BY <2>1, <2>2
<1> HIDE DEF Body, step
<1>9. 0 \in T
    BY <1>3, <1>4, <1>7
<1>10. ASSUME NEW n \in 1..m, n - 1 \in T PROVE n \in T
    <2>1. selected[(n - 1) + 1] \in S /\ (n - 1) + 1 = n
        BY <1>3, <1>10
    <2>2. selected[n + 1] \in S
        BY <1>5, <1>8, <2>1
    <2>3. n \in 0..m
        BY <1>3
    <2> QED BY <2>2, <2>3
<1>11. m \in T
    <2> HIDE DEF T
    <2>1. 0..m \subseteq T
        BY <1>3, <1>9, <1>10, Climb
    <2> QED BY <1>3, <2>1
<1> QED BY <1>1, <1>3, <1>11 DEF S

\* The reordering keeps to the hits there are and loses no uid.
LEMMA DiversifiedMembers ==
    ASSUME NEW hs \in Seq(Hits)
    PROVE  /\ Diversified(hs) \in Seq(Hits)
           /\ Members(Diversified(hs)) \subseteq Members(hs)
           /\ \A h \in Members(hs) : \E g \in Members(Diversified(hs)) : Row[g.row].uid = Row[h.row].uid
<1>1. CASE Len(hs) < 3
    BY <1>1, MembersIn DEF Diversified
<1>2. CASE ~(Len(hs) < 3)
    <2> DEFINE Uid(i) == Row[hs[i].row].uid
               Bearers(i) == {j \in DOMAIN hs : Uid(j) = Uid(i)}
               places == MmrPlaces(hs)
               picked == [n \in DOMAIN places |-> hs[Max(Bearers(places[n]))]]
               seen == {Uid(places[n]) : n \in DOMAIN places}
               tail == Kept(hs, {h \in Members(hs) : Row[h.row].uid \notin seen})
    <2>1. DOMAIN hs = 1..Len(hs) /\ Len(hs) \in Nat /\ \A i \in DOMAIN hs : hs[i] \in Members(hs)
        BY MembersIn
    <2>2. places \in Seq(DOMAIN hs)
        <3>1. hs # << >>
            BY <1>2, <2>1
        <3> QED BY <3>1, MmrTyped
    <2>3. Diversified(hs) = picked \o tail
        BY <1>2 DEF Diversified
    <2> HIDE DEF places
    <2>4. DOMAIN places = 1..Len(places) /\ Len(places) \in Nat /\ \A n \in DOMAIN places : places[n] \in DOMAIN hs
        BY <2>2
    <2>5. ASSUME NEW i \in DOMAIN hs PROVE Max(Bearers(i)) \in DOMAIN hs /\ Uid(Max(Bearers(i))) = Uid(i)
        <3>1. Bearers(i) \subseteq 1..Len(hs) /\ i \in Bearers(i)
            BY <2>1
        <3>2. IsFiniteSet(1..Len(hs)) /\ 1..Len(hs) \subseteq Int
            BY <2>1, FS_Interval
        <3> DEFINE B == Bearers(i)
        <3> HIDE DEF B
        <3>3. B \subseteq 1..Len(hs) /\ B # {}
            BY <3>1 DEF B
        <3>4. IsFiniteSet(B) /\ B \subseteq Int
            BY <3>2, <3>3, FS_Subset
        <3>5. Max(B) \in B
            BY <3>3, <3>4, Extremes
        <3> QED BY <3>5 DEF B
    <2>6. \A n \in DOMAIN places : picked[n] \in Members(hs) /\ Row[picked[n].row].uid = Uid(places[n])
        BY <2>1, <2>4, <2>5
    <2> HIDE DEF Bearers
    <2>7. picked \in Seq(Members(hs))
        BY <2>4, <2>6
    <2>8. DOMAIN picked = DOMAIN places
        OBVIOUS
    <2> HIDE DEF picked
    <2>9. hs \in Seq(Members(hs)) /\ Members(hs) \subseteq Hits
        BY MembersIn
    <2>10. tail \in Seq(Members(hs)) /\ Members(tail) = {h \in Members(hs) : Row[h.row].uid \notin seen}
        BY <2>9, KeptMembers
    <2> HIDE DEF tail
    <2> DEFINE all == picked \o tail
    <2>11. all \in Seq(Members(hs)) /\ Members(all) = Members(picked) \cup Members(tail)
        BY <2>7, <2>10, ConcatMembers
    <2> HIDE DEF all
    <2>12. all \in Seq(Hits)
        BY <2>9, <2>11, SeqMonotonic
    <2>13. Members(all) \subseteq Members(hs)
        BY <2>11, MembersIn
    <2>14. ASSUME NEW h \in Members(hs) PROVE \E g \in Members(all) : Row[g.row].uid = Row[h.row].uid
        <3>1. CASE Row[h.row].uid \notin seen
            <4>1. h \in Members(tail)
                BY <2>10, <3>1
            <4> QED BY <2>11, <4>1
        <3>2. CASE Row[h.row].uid \in seen
            <4>1. PICK n \in DOMAIN places : Row[h.row].uid = Uid(places[n])
                BY <3>2
            <4>2. picked[n] \in Members(picked)
                BY <2>8 DEF Members
            <4> QED BY <2>6, <2>11, <4>1, <4>2
        <3> QED BY <3>1, <3>2
    <2>15. Diversified(hs) = all
        BY <2>3 DEF all
    <2> QED BY <2>12, <2>13, <2>14, <2>15
<1> QED BY <1>1, <1>2

-----------------------------------------------------------------------------
\* Linked profiles.

\* The slots hold ranked hits, and if any ranked hit is a linked one then a
\* linked one has a slot.
LEMMA ReservedMembers ==
    ASSUME NEW ranked \in Seq(Hits)
    PROVE  /\ Reserved(ranked) \in Seq(Hits)
           /\ Members(Reserved(ranked)) \subseteq Members(ranked)
           /\ (\E h \in Members(ranked) : IsLinked(h)) => \E h \in Members(Reserved(ranked)) : IsLinked(h)
<1> DEFINE head == Front(ranked, Limit)
           rest == SubSeq(ranked, Limit + 1, Len(ranked))
           linkedHits == Kept(rest, {h \in Members(ranked) : IsLinked(h)})
           promoted == Front(linkedHits, Larger(1, Limit \div 4))
           first == Front(head, Limit - Len(promoted))
           Stays == Len(ranked) <= Limit \/ (\E n \in DOMAIN head : IsLinked(head[n])) \/ linkedHits = << >>
<1>1. Limit \in Nat /\ Limit >= 1
    BY RankingAssumption
<1>2. Larger(1, Limit \div 4) \in Nat /\ 1 <= Larger(1, Limit \div 4) /\ Larger(1, Limit \div 4) <= Limit
    BY <1>1 DEF Larger
<1>3. /\ head \in Seq(Hits) /\ Members(head) \subseteq Members(ranked)
      /\ rest \in Seq(Hits) /\ Members(rest) \subseteq Members(ranked)
      /\ Members(ranked) = Members(head) \cup Members(rest)
    BY <1>1, FrontMembers, RestMembers
<1>4. Len(ranked) <= Limit => head = ranked
    BY <1>1, FrontMembers
<1>5. Reserved(ranked) = IF Stays THEN head ELSE first \o promoted
    BY DEF Reserved
<1> HIDE DEF head, rest
<1>6. linkedHits \in Seq(Hits) /\ Members(linkedHits) = Members(rest) \cap {h \in Members(ranked) : IsLinked(h)}
    BY <1>3, KeptMembers
<1> HIDE DEF linkedHits
<1> DEFINE most == Larger(1, Limit \div 4)
<1> HIDE DEF most
<1>7. most \in Nat /\ 1 <= most /\ most <= Limit
    BY <1>2 DEF most
<1>8. promoted = Front(linkedHits, most)
    BY DEF most
<1> HIDE DEF promoted
<1>9. promoted \in Seq(Hits) /\ Members(promoted) \subseteq Members(linkedHits) /\ Len(promoted) <= most /\ Len(promoted) \in Nat
    BY <1>6, <1>7, <1>8, FrontMembers
<1>10. first \in Seq(Hits) /\ Members(first) \subseteq Members(head)
    <2>1. Limit - Len(promoted) \in Nat
        BY <1>1, <1>7, <1>9
    <2> QED BY <1>3, <2>1, FrontMembers
<1>11. CASE Stays
    <2>1. Reserved(ranked) = head
        BY <1>5, <1>11
    <2>2. ASSUME NEW h \in Members(ranked), IsLinked(h) PROVE \E g \in Members(head) : IsLinked(g)
        <3>1. CASE Len(ranked) <= Limit
            BY <1>4, <2>2, <3>1
        <3>2. CASE \E n \in DOMAIN head : IsLinked(head[n])
            BY <3>2 DEF Members
        <3>3. CASE linkedHits = << >>
            <4>1. Members(linkedHits) = {}
                BY <3>3 DEF Members
            <4>2. h \in Members(head)
                BY <1>3, <1>6, <2>2, <4>1
            <4> QED BY <2>2, <4>2
        <3> QED BY <1>11, <3>1, <3>2, <3>3
    <2> QED BY <1>3, <2>1, <2>2
<1>12. CASE ~Stays
    <2>1. Reserved(ranked) = first \o promoted
        BY <1>5, <1>12
    <2> HIDE DEF first
    <2>2. first \o promoted \in Seq(Hits) /\ Members(first \o promoted) = Members(first) \cup Members(promoted)
        BY <1>9, <1>10, ConcatMembers
    <2>3. linkedHits # << >>
        BY <1>12
    <2>4. 1 \in DOMAIN linkedHits /\ 1 <= most
        BY <1>6, <1>7, <2>3
    <2>5. linkedHits[1] \in Members(promoted)
        BY <1>6, <1>7, <1>8, <2>4, FrontMembers
    <2>6. linkedHits[1] \in Members(linkedHits)
        BY <2>4 DEF Members
    <2>7. IsLinked(linkedHits[1])
        BY <1>6, <2>6
    <2>8. Members(first) \subseteq Members(ranked) /\ Members(promoted) \subseteq Members(ranked)
        BY <1>3, <1>6, <1>9, <1>10
    <2> QED BY <2>1, <2>2, <2>5, <2>7, <2>8
<1> QED BY <1>11, <1>12

RowsOf(hs) == {h.row : h \in Members(hs)}

LEMMA RowsTyped ==
    ASSUME NEW hs \in Seq(Hits)
    PROVE  /\ [n \in DOMAIN hs |-> hs[n].row] \in Seq(Ids)
           /\ Members([n \in DOMAIN hs |-> hs[n].row]) = RowsOf(hs)
           /\ RowsOf(hs) \subseteq Ids
<1>1. DOMAIN hs = 1..Len(hs) /\ Len(hs) \in Nat /\ \A n \in DOMAIN hs : hs[n] \in Hits
    OBVIOUS
<1>2. \A n \in DOMAIN hs : hs[n].row \in Ids
    BY <1>1 DEF Hits
<1>3. [n \in DOMAIN hs |-> hs[n].row] \in Seq(Ids)
    BY <1>1, <1>2
<1>4. Members([n \in DOMAIN hs |-> hs[n].row]) = RowsOf(hs)
    BY DEF Members, RowsOf
<1>5. RowsOf(hs) \subseteq Ids
    BY <1>2 DEF RowsOf, Members
<1> QED BY <1>3, <1>4, <1>5

\* A list of rows with a score each is a list of hits of these rows.
LEMMA ScoredTyped ==
    ASSUME NEW rows \in Seq(Ids), NEW D, Members(rows) \subseteq D, NEW scores \in [D -> Int]
    PROVE  /\ [n \in DOMAIN rows |-> [row |-> rows[n], score |-> scores[rows[n]]]] \in Seq(Hits)
           /\ RowsOf([n \in DOMAIN rows |-> [row |-> rows[n], score |-> scores[rows[n]]]]) = Members(rows)
<1> DEFINE all == [n \in DOMAIN rows |-> [row |-> rows[n], score |-> scores[rows[n]]]]
<1>1. DOMAIN rows = 1..Len(rows) /\ Len(rows) \in Nat /\ \A n \in DOMAIN rows : rows[n] \in Ids /\ rows[n] \in D
    BY MembersIn
<1>2. \A n \in DOMAIN rows : scores[rows[n]] \in Int
    BY <1>1
<1>3. \A n \in DOMAIN rows : [row |-> rows[n], score |-> scores[rows[n]]] \in Hits
    BY <1>1, <1>2 DEF Hits
<1>4. all \in Seq(Hits)
    BY <1>1, <1>3
<1>5. DOMAIN all = DOMAIN rows /\ \A n \in DOMAIN rows : all[n].row = rows[n]
    OBVIOUS
<1> HIDE DEF all
<1>6. RowsOf(all) = Members(rows)
    BY <1>5 DEF RowsOf, Members
<1> QED BY <1>4, <1>6 DEF all

\* The rows of a merge are those of the two lists, and a linked one is kept.
LEMMA MergedMembers ==
    ASSUME NEW hs \in Seq(Hits), NEW theirs \in Seq(Hits)
    PROVE  /\ Merged(hs, theirs) \in Seq(Hits)
           /\ RowsOf(Merged(hs, theirs)) \subseteq RowsOf(hs) \cup RowsOf(theirs)
           /\ (\E r \in RowsOf(hs) \cup RowsOf(theirs) : Row[r].home # "local")
              => \E r \in RowsOf(Merged(hs, theirs)) : Row[r].home # "local"
<1> DEFINE here == [n \in DOMAIN hs |-> hs[n].row]
           there == [n \in DOMAIN theirs |-> theirs[n].row]
           one == [list |-> here, weight |-> 100]
           two == [list |-> there, weight |-> 85]
           legs == <<one, two>>
           scores == Rrf(legs)
           order == InOrder(scores, legs)
           ranked == [n \in DOMAIN order |-> [row |-> order[n], score |-> scores[order[n]]]]
<1>1. Merged(hs, theirs) = Reserved(ranked)
    BY DEF Merged
<1>2. /\ here \in Seq(Ids) /\ there \in Seq(Ids)
      /\ Members(here) = RowsOf(hs) /\ Members(there) = RowsOf(theirs)
    BY RowsTyped
<1> HIDE DEF here, there
<1>3. /\ one \in Voices /\ two \in Voices
      /\ one.list = here /\ two.list = there /\ one.weight # 0 /\ two.weight # 0
    BY <1>2 DEF Voices
<1> HIDE DEF one, two
<1>4. legs \in Seq(Voices) /\ DOMAIN legs = 1..2 /\ legs[1] = one /\ legs[2] = two
    BY <1>3
<1> HIDE DEF legs
<1>5. Named(legs) = RowsOf(hs) \cup RowsOf(theirs)
    <2>1. {m \in DOMAIN legs : legs[m].weight # 0} = {1, 2}
        BY <1>3, <1>4
    <2>2. Named(legs) = Members(legs[1].list) \cup Members(legs[2].list)
        BY <2>1 DEF Named
    <2> QED BY <1>2, <1>3, <1>4, <2>2
<1>6. scores \in [Named(legs) -> Int]
    BY <1>4, RrfTyped
<1> HIDE DEF scores
<1>7. order \in Seq(Ids) /\ Members(order) = Named(legs)
    BY <1>4, InOrderMembers
<1> HIDE DEF order
<1>8. ranked \in Seq(Hits) /\ RowsOf(ranked) = Named(legs)
    BY <1>6, <1>7, ScoredTyped
<1> HIDE DEF ranked
<1>9. /\ Reserved(ranked) \in Seq(Hits)
      /\ Members(Reserved(ranked)) \subseteq Members(ranked)
      /\ (\E h \in Members(ranked) : IsLinked(h)) => \E h \in Members(Reserved(ranked)) : IsLinked(h)
    BY <1>8, ReservedMembers
<1>10. RowsOf(Reserved(ranked)) \subseteq RowsOf(ranked)
    BY <1>9 DEF RowsOf
<1>11. ASSUME NEW r \in RowsOf(ranked), Row[r].home # "local"
       PROVE  \E q \in RowsOf(Reserved(ranked)) : Row[q].home # "local"
    <2>1. PICK h \in Members(ranked) : h.row = r
        BY DEF RowsOf
    <2>2. IsLinked(h)
        BY <1>11, <2>1 DEF IsLinked
    <2>3. PICK g \in Members(Reserved(ranked)) : IsLinked(g)
        BY <1>9, <2>2
    <2> QED BY <2>3 DEF IsLinked, RowsOf
<1> QED BY <1>1, <1>5, <1>8, <1>9, <1>10, <1>11

-----------------------------------------------------------------------------
\* Packing.

LEMMA PackedMembers ==
    ASSUME NEW rows \in Seq(Ids), NEW budget
    PROVE  Packed(rows, budget) \in Seq(Ids) /\ Members(Packed(rows, budget)) \subseteq Members(rows)
<1> DEFINE S == {n \in 0..Len(rows) : n = 0 \/ Cost(Front(rows, n)) <= budget}
<1>1. Len(rows) \in Nat
    OBVIOUS
<1>2. IsFiniteSet(0..Len(rows)) /\ 0..Len(rows) \subseteq Int
    BY <1>1, FS_Interval
<1>3. S \subseteq 0..Len(rows) /\ 0 \in S
    BY <1>1
<1>4. Packed(rows, budget) = Front(rows, Max(S))
    BY DEF Packed
<1> HIDE DEF S
<1>5. IsFiniteSet(S) /\ S \subseteq Int /\ S # {}
    BY <1>2, <1>3, FS_Subset
<1>6. Max(S) \in S
    BY <1>5, Extremes
<1>7. Max(S) \in Nat
    <2>1. Max(S) \in 0..Len(rows)
        BY <1>3, <1>6
    <2> QED BY <1>1, <2>1
<1> QED BY <1>4, <1>7, FrontMembers

LEMMA ServedRows ==
    ASSUME NEW ranked \in Seq(Hits), NEW blind
    PROVE  /\ Served(ranked, blind).rows \in Seq(Ids)
           /\ Members(Served(ranked, blind).rows) \subseteq RowsOf(ranked)
           /\ Served(ranked, blind).guidance = guidance
           /\ Served(ranked, blind).session = job.session
           /\ Served(ranked, blind).blind = blind
           /\ Served(ranked, blind).owed = owed
<1> DEFINE rows == [n \in DOMAIN ranked |-> ranked[n].row]
           tokens == Remaining(guidance)
<1>1. rows \in Seq(Ids) /\ Members(rows) = RowsOf(ranked)
    BY RowsTyped
<1>2. /\ Served(ranked, blind).rows = Packed(OneEpisode(rows), tokens)
      /\ Served(ranked, blind).guidance = guidance
      /\ Served(ranked, blind).session = job.session
      /\ Served(ranked, blind).blind = blind
      /\ Served(ranked, blind).owed = owed
    BY DEF Served
<1> HIDE DEF rows, tokens
<1>3. OneEpisode(rows) \in Seq(Ids) /\ Members(OneEpisode(rows)) \subseteq Members(rows)
    BY <1>1, OneEpisodeMembers
<1>4. Packed(OneEpisode(rows), tokens) \in Seq(Ids) /\ Members(Packed(OneEpisode(rows), tokens)) \subseteq Members(OneEpisode(rows))
    BY <1>3, PackedMembers
<1> QED BY <1>1, <1>2, <1>3, <1>4

-----------------------------------------------------------------------------
\* The invariant.

Local(r) == Row[r].home = "local"
Gathered == UNION {Members(found[leg]) : leg \in DOMAIN found}
Blending == {"reinforced", "recent", "refetch", "linked"}

\* The retrieval under way: whose it is, and what it has looked up.
Asked ==
    /\ at # "idle" => job.session \in Askers /\ job.query \in Queries
    /\ at \in {"idle", "lookup", "fts"} => found = NothingFound
    /\ at \in {"recent", "refetch"} => "reinforced" \in DOMAIN found
    /\ at = "refetch" => "recent" \in DOMAIN found

\* Whatever it has looked up or merged may be shown to the one who asked, and
\* what is kept for a session may be shown to that session.
Shown ==
    /\ \A r \in Gathered : Local(r) /\ MayBeShown(job.session, r)
    /\ at \in Blending => \A r \in RowsOf(hits) : Local(r) /\ MayBeShown(job.session, r)
    /\ at = "finish" => \A r \in RowsOf(hits) : MayBeShown(job.session, r)
    /\ at # "idle" => \A r \in Members(guidance) : MayBeShown(job.session, r)
    /\ \A e \in Members(cache) : \A r \in RowsOf(e.hits) : Local(r) /\ MayBeShown(e.scope, r)

\* Whatever it has looked up or merged could be found since it began.
Noted ==
    at # "idle" =>
      /\ Readable \subseteq lately
      /\ Gathered \cup Members(guidance) \subseteq lately
      /\ at \in Blending \cup {"finish"} => RowsOf(hits) \subseteq lately

\* While the cache holds the generation of now, nothing of this brain has been
\* written since it was read but what a pull still owes; while it holds none,
\* every entry was put blind.
Dated ==
    /\ cachegen \in Nat => cachegen <= gen
    /\ cachegen = Nothing => \A e \in Members(cache) : e.blind
    /\ cachegen = gen =>
         /\ \A e \in Members(cache) : ~e.blind => RowsOf(e.hits) \subseteq current \cup owed
         /\ Gathered \subseteq current \cup owed
         /\ at \in Blending \cup {"finish"} => \A r \in RowsOf(hits) : Local(r) => r \in current \cup owed

RecallInv ==
    /\ RecallTypeOK /\ Asked /\ Shown /\ Noted /\ Dated
    /\ NothingForeign /\ Fresh /\ LinkedHeard

-----------------------------------------------------------------------------
\* What the queries return.

Leaves == {"fts", "efts", "vec", "evec", "graph", "facts", "reinforced", "recent"}

LEMMA WorldTyped ==
    ASSUME world \in Worlds
    PROVE  /\ \A leg \in Leaves : world[leg] \in Seq(Ids)
           /\ world.guidance \in Seq(Ids) /\ world.remote \in Seq(Ids)
    BY WorldsAssumption DEF Leaves

\* A row that a search may find is of this brain and may be shown.
LEMMA FoundShown ==
    ASSUME NEW s \in Askers, NEW r \in Ids, FoundBy(s, r)
    PROVE  Local(r) /\ MayBeShown(s, r) /\ r \in current
<1>1. CASE IsEpisode(r)
    <2>1. Row[r].kind # "peer_card"
        BY <1>1, WorldsAssumption DEF IsEpisode
    <2> QED BY <1>1, <2>1 DEF FoundBy, EpisodeScope, MayBeShown, Local
<1>2. CASE ~ IsEpisode(r)
    BY <1>2 DEF FoundBy, MemoryScope, MayBeShown, Local
<1> QED BY <1>1, <1>2

LEMMA GuideShown ==
    ASSUME NEW s \in Askers, NEW r \in Ids, GuidanceScope(s, r)
    PROVE  Local(r) /\ MayBeShown(s, r) /\ r \in current
<1>1. ~ IsEpisode(r)
    BY WorldsAssumption DEF GuidanceScope, Internal, IsEpisode
<1> QED BY <1>1 DEF GuidanceScope, MayBeShown, Local

\* A row of this brain that a query can find is readable.
LEMMA LocalReadable == ASSUME NEW r \in current, Local(r) PROVE r \in Readable
    BY DEF Readable, Local

LEMMA LegShown ==
    ASSUME world \in Worlds, job.session \in Askers, NEW leg \in Leaves
    PROVE  /\ Leg(leg) \in Seq(Ids)
           /\ \A r \in Members(Leg(leg)) : Local(r) /\ MayBeShown(job.session, r) /\ r \in current
<1>1. world[leg] \in Seq(Ids)
    BY WorldTyped
<1>2. Leg(leg) \in Seq(Ids) /\ Members(Leg(leg)) = Members(world[leg]) \cap {r \in Ids : FoundBy(job.session, r)}
    BY <1>1, KeptMembers DEF Leg
<1> QED BY <1>2, FoundShown

LEMMA RelatedShown ==
    ASSUME world \in Worlds, job.session \in Askers
    PROVE  /\ Related \in Seq(Ids)
           /\ \A r \in Members(Related) : Local(r) /\ MayBeShown(job.session, r) /\ r \in current
<1>1. /\ Leg("graph") \in Seq(Ids)
      /\ \A r \in Members(Leg("graph")) : Local(r) /\ MayBeShown(job.session, r) /\ r \in current
    BY LegShown DEF Leaves
<1>2. CASE Seeds = {}
    <2>1. Related = << >>
        BY <1>2 DEF Related
    <2> QED BY <2>1 DEF Members
<1>3. CASE Seeds # {}
    <2> DEFINE leg == Leg("graph")
    <2>1. leg \in Seq(Ids)
        BY <1>1
    <2>2. Related = Kept(leg, Ids \ Seeds)
        BY <1>3 DEF Related
    <2> HIDE DEF leg
    <2>3. Kept(leg, Ids \ Seeds) \in Seq(Ids) /\ Members(Kept(leg, Ids \ Seeds)) \subseteq Members(leg)
        BY <2>1, KeptMembers
    <2> QED BY <1>1, <2>2, <2>3 DEF leg
<1> QED BY <1>2, <1>3

LEMMA GuidanceShown ==
    ASSUME world \in Worlds, NEW s \in Askers, NEW budget
    PROVE  /\ Packed(Guidance(s), budget) \in Seq(Ids)
           /\ \A r \in Members(Packed(Guidance(s), budget)) : Local(r) /\ MayBeShown(s, r) /\ r \in current
<1> DEFINE rows == Kept(world.guidance, {r \in Ids : GuidanceScope(s, r) /\ ~Deprecated(r)})
           Of(kinds, most) == Front(Kept(rows, {r \in Ids : Row[r].kind \in kinds}), most)
           cases == IF world.task THEN Of({"case"}, 2) ELSE << >>
           R == {r \in Ids : GuidanceScope(s, r)}
<1>1. rows \in Seq(Ids) /\ Members(rows) \subseteq R
    BY WorldTyped, KeptMembers
<1>2. rows \in Seq(R)
    <2>1. rows \in Seq(Members(rows))
        BY <1>1, MembersIn
    <2> QED BY <1>1, <2>1, SeqMonotonic
<1>3. Guidance(s) = Of(Strategies, 3) \o Of({"peer_card"}, 2) \o cases
    BY DEF Guidance
<1> HIDE DEF rows, R
<1>4. \A kinds : \A most \in Nat : Of(kinds, most) \in Seq(R)
    BY <1>2, KeptMembers, FrontMembers
<1>5. Of(Strategies, 3) \in Seq(R) /\ Of({"peer_card"}, 2) \in Seq(R) /\ Of({"case"}, 2) \in Seq(R)
    BY <1>4
<1> DEFINE one == Of(Strategies, 3)
           two == Of({"peer_card"}, 2)
<1>6. one \in Seq(R) /\ two \in Seq(R) /\ cases \in Seq(R)
    BY <1>5
<1> HIDE DEF one, two, cases
<1>7. one \o two \o cases \in Seq(R)
    BY <1>6, ConcatProperties
<1>8. Guidance(s) \in Seq(R)
    BY <1>3, <1>7 DEF one, two
<1>9. R \subseteq Ids
    BY DEF R
<1>10. Guidance(s) \in Seq(Ids) /\ Members(Guidance(s)) \subseteq R
    BY <1>8, <1>9, SeqMonotonic, MembersIn
<1>11. Packed(Guidance(s), budget) \in Seq(Ids) /\ Members(Packed(Guidance(s), budget)) \subseteq R
    BY <1>10, PackedMembers
<1> QED BY <1>11, GuideShown DEF R

\* The fused hits are rows the legs named.
LEMMA RankedGathered ==
    ASSUME world \in Worlds, \A leg \in DOMAIN found : found[leg] \in Seq(Ids), NEW limit \in Nat
    PROVE  /\ Ranked(limit) \in Seq(Hits)
           /\ RowsOf(Ranked(limit)) \subseteq Gathered
<1> DEFINE there == Kept(Legs, DOMAIN found)
           legs == [n \in DOMAIN there |-> [list |-> found[there[n]], weight |-> Weight(there[n])]]
           scores == Rrf(legs)
           judged == [x \in DOMAIN world.judged \cap DOMAIN scores |-> world.judged[x]]
           bases == IF DOMAIN scores = {} THEN scores ELSE Reranked(Normalized(scores), judged)
           Six == {"fts", "efts", "vec", "evec", "graph", "facts"}
<1>1. Ranked(limit) = HitsOf(bases, legs, limit)
    BY DEF Ranked
<1>2. Legs \in Seq(Six)
    BY DEF Legs
<1>3. there \in Seq(Six) /\ Members(there) \subseteq DOMAIN found
    BY <1>2, KeptMembers
<1> HIDE DEF there
<1>4. DOMAIN there = 1..Len(there) /\ Len(there) \in Nat /\ \A n \in DOMAIN there : there[n] \in Six /\ there[n] \in DOMAIN found
    BY <1>3, MembersIn
<1>5. \A leg \in Six : Weight(leg) \in Nat
    BY WorldsAssumption DEF Weight
<1>6. \A n \in DOMAIN there : [list |-> found[there[n]], weight |-> Weight(there[n])] \in Voices
    BY <1>4, <1>5 DEF Voices
<1>7. legs \in Seq(Voices)
    BY <1>4, <1>6
<1>8. \A n \in DOMAIN legs : n \in DOMAIN there /\ legs[n].list = found[there[n]]
    OBVIOUS
<1> HIDE DEF legs
<1>9. Named(legs) \subseteq Gathered
    BY <1>4, <1>8 DEF Named, Gathered
<1>10. scores \in [Named(legs) -> Int] /\ Named(legs) \subseteq Ids
    BY <1>7, RrfTyped, NamedIds
<1> HIDE DEF scores
<1>11. IsFiniteSet(Ids)
    BY RankingAssumption DEF Ids
<1>12. bases \in [Named(legs) -> Int]
    <2>1. CASE DOMAIN scores = {}
        BY <1>10, <2>1
    <2>2. CASE DOMAIN scores # {}
        <3> DEFINE D == Named(legs)
                   E == DOMAIN world.judged \cap DOMAIN scores
                   normal == Normalized(scores)
        <3>1. D \subseteq Ids /\ scores \in [D -> Int] /\ IsFiniteSet(D)
            BY <1>10, <1>11, FS_Subset
        <3>2. E \subseteq D /\ IsFiniteSet(E)
            <4>1. E \subseteq D
                BY <3>1
            <4> QED BY <3>1, <4>1, FS_Subset
        <3>3. \A x \in DOMAIN world.judged : world.judged[x] \in Int
            BY WorldsAssumption
        <3>4. judged \in [E -> Int]
            BY <3>3
        <3> HIDE DEF D, E, judged
        <3>5. normal \in [D -> Int]
            BY <3>1, NormalizedTyped
        <3> HIDE DEF normal
        <3>6. Reranked(normal, judged) \in [D -> Int]
            BY <3>2, <3>4, <3>5, RerankedTyped
        <3>7. bases = Reranked(normal, judged)
            BY <2>2 DEF normal, judged
        <3> QED BY <3>6, <3>7 DEF D
    <2> QED BY <2>1, <2>2
<1> HIDE DEF bases
<1>13. /\ HitsOf(bases, legs, limit) \in Seq(Hits)
       /\ \A h \in Members(HitsOf(bases, legs, limit)) : h.row \in Named(legs)
    BY <1>7, <1>12, HitsTyped
<1> QED BY <1>1, <1>9, <1>13 DEF RowsOf

\* What the second fetch makes of the three lists: rows found now, and the
\* turns it had.
LEMMA RefetchGathered ==
    ASSUME world \in Worlds, job.session \in Askers, hits \in Seq(Hits),
           found["reinforced"] \in Seq(Ids), found["recent"] \in Seq(Ids), Refetch
    PROVE  /\ hits' \in Seq(Hits)
           /\ \A r \in RowsOf(hits)' : \/ r \in RowsOf(hits)
                                       \/ Local(r) /\ MayBeShown(job.session, r) /\ r \in current
<1> DEFINE plain == [n \in DOMAIN hits |-> hits[n].row]
           semantic == Kept(plain, {r \in Ids : ~IsEpisode(r)})
           one == [list |-> semantic, weight |-> 100]
           two == [list |-> found["reinforced"], weight |-> 100]
           three == [list |-> found["recent"], weight |-> 100]
           legs == <<one, two, three>>
           scores == Rrf(legs)
           order == InOrder(scores, legs)
           rows == Kept(order, {r \in Ids : FoundBy(job.session, r)})
           memories == Front(rows, Limit)
           scored == [n \in DOMAIN memories |-> [row |-> memories[n], score |-> scores[memories[n]]]]
           turns == Kept(hits, {h \in Members(hits) : IsEpisode(h.row)})
<1>1. hits' = scored \o turns
    BY DEF Refetch
<1>2. plain \in Seq(Ids)
    BY RowsTyped
<1> HIDE DEF plain
<1>3. semantic \in Seq(Ids)
    BY <1>2, KeptMembers
<1> HIDE DEF semantic
<1>4. one \in Voices /\ two \in Voices /\ three \in Voices
    BY <1>3 DEF Voices
<1> HIDE DEF one, two, three
<1>5. legs \in Seq(Voices)
    BY <1>4
<1> HIDE DEF legs
<1>6. scores \in [Named(legs) -> Int]
    BY <1>5, RrfTyped
<1> HIDE DEF scores
<1>7. order \in Seq(Ids) /\ Members(order) = Named(legs)
    BY <1>5, InOrderMembers
<1> HIDE DEF order
<1>8. rows \in Seq(Ids) /\ Members(rows) = Members(order) \cap {r \in Ids : FoundBy(job.session, r)}
    BY <1>7, KeptMembers
<1> HIDE DEF rows
<1>9. memories \in Seq(Ids) /\ Members(memories) \subseteq Members(rows)
    BY <1>8, RankingAssumption, FrontMembers
<1> HIDE DEF memories
<1>10. scored \in Seq(Hits) /\ RowsOf(scored) = Members(memories)
    <2>1. Members(memories) \subseteq Named(legs)
        BY <1>7, <1>8, <1>9
    <2> QED BY <1>6, <1>9, <2>1, ScoredTyped
<1> HIDE DEF scored
<1>11. turns \in Seq(Hits) /\ Members(turns) \subseteq Members(hits)
    BY KeptMembers
<1> HIDE DEF turns
<1>12. hits' \in Seq(Hits) /\ Members(hits') = Members(scored) \cup Members(turns)
    BY <1>1, <1>10, <1>11, ConcatMembers
<1>13. RowsOf(hits)' = {h.row : h \in Members(hits')}
    BY DEF RowsOf, Members
<1>14. RowsOf(hits)' \subseteq RowsOf(scored) \cup RowsOf(hits)
    BY <1>11, <1>12, <1>13 DEF RowsOf
<1>15. \A r \in Members(memories) : Local(r) /\ MayBeShown(job.session, r) /\ r \in current
    BY <1>8, <1>9, FoundShown
<1> QED BY <1>10, <1>12, <1>14, <1>15

LEMMA RemoteShown ==
    ASSUME world \in Worlds, job.session \in Askers
    PROVE  /\ Remote \in Seq(Ids)
           /\ \A r \in Members(Remote) : ~ Local(r) /\ r \in current /\ r \in Members(world.remote)
           /\ Asks(job.session) => \A r \in Members(Remote) : MayBeShown(job.session, r) /\ r \in Readable
<1>1. Remote \in Seq(Ids) /\ Members(Remote) = Members(world.remote) \cap current
    BY WorldTyped, KeptMembers DEF Remote
<1>2. \A r \in Members(world.remote) :
        ~ Local(r) /\ (IsEpisode(r) => Row[r].kind # "untrusted" /\ Row[r].session \notin Askers)
    BY WorldsAssumption DEF Local, IsEpisode
<1>3. ASSUME Asks(job.session), NEW r \in Members(Remote)
      PROVE  MayBeShown(job.session, r) /\ r \in Readable
    <2>1. IsOwner(job.session) /\ linked
        BY <1>3 DEF Asks
    <2>2. IsEpisode(r) => Row[r].kind # "untrusted" /\ Row[r].session # job.session
        BY <1>1, <1>2
    <2> QED BY <1>1, <2>1, <2>2 DEF MayBeShown, Readable
<1> QED BY <1>1, <1>2, <1>3

-----------------------------------------------------------------------------
\* The steps of a retrieval.

LEMMA TakeKeeps ==
    ASSUME RecallInv, NEW s \in Askers, NEW q \in Queries, TakeJob(s, q)
    PROVE  RecallInv'
<1> DEFINE guide == Packed(Guidance(s), Budget \div 4)
<1>1. /\ at = "idle" /\ jobs' = jobs + 1 /\ at' = "lookup"
      /\ job' = [session |-> s, query |-> q]
      /\ guidance' = guide
      /\ lately' = Readable
      /\ UNCHANGED <<world, config, current, gen, owed, linked, cache, cachegen, found, hits, block, writes, failures>>
    BY DEF TakeJob, data, memo
<1>2. RecallTypeOK /\ Asked /\ Shown /\ Dated /\ NothingForeign
    BY DEF RecallInv
<1>3. guide \in Seq(Ids) /\ \A r \in Members(guide) : Local(r) /\ MayBeShown(s, r) /\ r \in current
    BY <1>2, GuidanceShown DEF RecallTypeOK
<1> HIDE DEF guide
<1>4. found = NothingFound /\ Gathered = {}
    BY <1>1, <1>2 DEF Asked, Gathered, NothingFound
<1>5. Gathered' = {}
    BY <1>1, <1>4 DEF Gathered
<1>6. Readable \subseteq Ids /\ Readable' = Readable
    BY <1>1, <1>2 DEF Readable, RecallTypeOK
<1>7. RecallTypeOK'
    <2>1. job' \in [session : Askers \cup {Nothing}, query : Queries \cup {Nothing}]
        BY <1>1
    <2>2. {jobs', writes', failures'} \subseteq Nat
        BY <1>1, <1>2 DEF RecallTypeOK
    <2>3. at' \in Steps
        BY <1>1 DEF Steps
    <2>4. lately' \subseteq Ids /\ guidance' \in Seq(Ids)
        BY <1>1, <1>3, <1>6
    <2> QED BY <1>1, <1>2, <2>1, <2>2, <2>3, <2>4 DEF RecallTypeOK
<1>8. Asked'
    BY <1>1, <1>4 DEF Asked
<1>9. Shown'
    <2>1. \A r \in Members(guidance') : MayBeShown(s, r)
        BY <1>1, <1>3
    <2>2. job'.session = s
        BY <1>1
    <2> QED BY <1>1, <1>2, <1>5, <2>1, <2>2 DEF Shown, Blending
<1>10. Noted'
    <2>1. \A r \in Members(guidance') : r \in Readable
        BY <1>1, <1>3, LocalReadable
    <2> QED BY <1>1, <1>5, <1>6, <2>1 DEF Noted, Blending
<1>11. Dated'
    BY <1>1, <1>2, <1>5 DEF Dated, Blending
<1>12. NothingForeign' /\ Fresh' /\ LinkedHeard'
    BY <1>1, <1>2 DEF NothingForeign, Fresh, LinkedHeard
<1> QED BY <1>7, <1>8, <1>9, <1>10, <1>11, <1>12 DEF RecallInv

\* A query more: what it returns is of now.
LEMMA StepKeeps ==
    ASSUME RecallInv, NEW from \in Steps, NEW to \in Steps, NEW more,
           from \notin {"idle", "lookup", "linked", "finish"},
           to \notin {"idle", "lookup", "fts", "linked", "finish"},
           to \in Blending => from \in Blending,
           \A leg \in DOMAIN more :
             /\ more[leg] \in Seq(Ids)
             /\ \A r \in Members(more[leg]) : Local(r) /\ MayBeShown(job.session, r) /\ r \in current,
           to \in {"recent", "refetch"} => "reinforced" \in DOMAIN more \cup DOMAIN found,
           to = "refetch" => "recent" \in DOMAIN more,
           failures' \in Nat, Step(from, to, more)
    PROVE  RecallInv'
<1>1. /\ at = from /\ at' = to
      /\ found' = [leg \in DOMAIN more \cup DOMAIN found |-> IF leg \in DOMAIN more THEN more[leg] ELSE found[leg]]
      /\ UNCHANGED <<world, config, current, gen, owed, linked, cache, cachegen, job, hits, guidance, block, lately, jobs, writes>>
    BY DEF Step, data, memo
<1>2. RecallTypeOK /\ Asked /\ Shown /\ Noted /\ Dated /\ NothingForeign
    BY DEF RecallInv
<1>3. /\ DOMAIN found' = DOMAIN more \cup DOMAIN found
      /\ \A leg \in DOMAIN found' : found'[leg] = IF leg \in DOMAIN more THEN more[leg] ELSE found[leg]
    BY <1>1
<1>4. Gathered' = UNION {Members(found'[leg]) : leg \in DOMAIN found'}
    BY DEF Gathered, Members
<1>5. ASSUME NEW r \in Gathered'
      PROVE  r \in Gathered \/ (Local(r) /\ MayBeShown(job.session, r) /\ r \in current)
    <2>1. PICK leg \in DOMAIN found' : r \in Members(found'[leg])
        BY <1>4
    <2>2. CASE leg \in DOMAIN more
        BY <1>3, <2>1, <2>2
    <2>3. CASE leg \notin DOMAIN more
        <3>1. leg \in DOMAIN found /\ r \in Members(found[leg])
            BY <1>3, <2>1, <2>3
        <3> QED BY <3>1 DEF Gathered
    <2> QED BY <2>2, <2>3
<1>6. Readable' = Readable
    BY <1>1 DEF Readable
<1>7. RowsOf(hits)' = RowsOf(hits) /\ Members(guidance)' = Members(guidance)
    BY <1>1 DEF RowsOf, Members
<1>8. RecallTypeOK'
    <2>1. \A leg \in DOMAIN found' : found'[leg] \in Seq(Ids)
        BY <1>2, <1>3 DEF RecallTypeOK
    <2>2. {jobs', writes', failures'} \subseteq Nat
        BY <1>1, <1>2 DEF RecallTypeOK
    <2> QED BY <1>1, <1>2, <2>1, <2>2 DEF RecallTypeOK
<1>9. Asked'
    <2>1. at \notin {"idle"} /\ at' \notin {"idle", "lookup", "fts"}
        BY <1>1
    <2> QED BY <1>1, <1>2, <1>3, <2>1 DEF Asked
<1>10. Shown'
    <2>1. \A r \in Gathered' : Local(r) /\ MayBeShown(job.session, r)
        BY <1>2, <1>5 DEF Shown
    <2> QED BY <1>1, <1>2, <1>7, <2>1 DEF Shown
<1>11. Noted'
    <2>1. at # "idle" /\ (at' \in Blending => at \in Blending) /\ at' # "finish"
        BY <1>1
    <2>2. Readable \subseteq lately /\ Gathered \subseteq lately /\ Members(guidance) \subseteq lately
        BY <1>2, <2>1 DEF Noted
    <2>3. Gathered' \subseteq lately
        BY <1>5, <2>2, LocalReadable
    <2>4. at' \in Blending => RowsOf(hits) \subseteq lately
        BY <1>2, <2>1 DEF Noted
    <2> QED BY <1>1, <1>6, <1>7, <2>1, <2>2, <2>3, <2>4 DEF Noted
<1>12. Dated'
    <2>1. (at' \in Blending => at \in Blending) /\ at' # "finish"
        BY <1>1
    <2>2. cachegen = gen => Gathered' \subseteq current \cup owed
        BY <1>2, <1>5 DEF Dated
    <2>3. cachegen = gen /\ at' \in Blending => \A r \in RowsOf(hits) : Local(r) => r \in current \cup owed
        BY <1>2, <2>1 DEF Dated
    <2> QED BY <1>1, <1>2, <1>7, <2>1, <2>2, <2>3 DEF Dated
<1>13. NothingForeign' /\ Fresh' /\ LinkedHeard'
    BY <1>1, <1>2 DEF NothingForeign, Fresh, LinkedHeard
<1> QED BY <1>8, <1>9, <1>10, <1>11, <1>12, <1>13 DEF RecallInv

LEMMA LegsKeep ==
    ASSUME RecallInv, FullText \/ Vectors \/ Graph \/ Facts \/ Reinforced \/ Recent
    PROVE  RecallInv'
<1>1. RecallTypeOK /\ Asked
    BY DEF RecallInv
<1>2. world \in Worlds /\ failures \in Nat /\ (Absent => failures' \in Nat)
    BY <1>1 DEF RecallTypeOK, Absent
<1> DEFINE Fresher(more) ==
             \A leg \in DOMAIN more :
               /\ more[leg] \in Seq(Ids)
               /\ \A r \in Members(more[leg]) : Local(r) /\ MayBeShown(job.session, r) /\ r \in current
           Some(legs) == [leg \in legs |-> Leg(leg)]
<1>3. ASSUME at # "idle", NEW legs \in SUBSET Leaves PROVE Fresher(Some(legs))
    <2>1. job.session \in Askers
        BY <1>1, <1>3 DEF Asked
    <2> QED BY <1>2, <2>1, LegShown
<1>4. Fresher(NothingFound)
    BY DEF NothingFound
<1>5. ASSUME FullText PROVE RecallInv'
    <2> DEFINE more == Some({"fts", "efts"})
    <2>1. Step("fts", "vec", more) /\ failures' = failures
        BY <1>5 DEF FullText
    <2>2. Fresher(more)
        BY <1>3, <2>1 DEF Step, Leaves
    <2> HIDE DEF more
    <2>3. "fts" \in Steps /\ "vec" \in Steps /\ "vec" \notin Blending
        BY DEF Steps, Blending
    <2> QED BY <1>2, <2>1, <2>2, <2>3, StepKeeps
<1>6. ASSUME Vectors PROVE RecallInv'
    <2> DEFINE more == Some({"vec", "evec"})
    <2>1. "vec" \in Steps /\ "graph" \in Steps /\ "graph" \notin Blending
        BY DEF Steps, Blending
    <2>2. CASE Step("vec", "graph", more) /\ UNCHANGED failures
        <3>1. Fresher(more)
            BY <1>3, <2>2 DEF Step, Leaves
        <3> HIDE DEF more
        <3> QED BY <1>2, <2>1, <2>2, <3>1, StepKeeps
    <2>3. CASE Step("vec", "graph", NothingFound) /\ Absent
        BY <1>2, <1>4, <2>1, <2>3, StepKeeps
    <2> QED BY <1>6, <2>2, <2>3 DEF Vectors
<1>7. ASSUME Graph PROVE RecallInv'
    <2> DEFINE more == [leg \in {"graph"} |-> Related]
    <2>1. "graph" \in Steps /\ "facts" \in Steps /\ "facts" \notin Blending
        BY DEF Steps, Blending
    <2>2. CASE Step("graph", "facts", more) /\ UNCHANGED failures
        <3>1. job.session \in Askers
            BY <1>1, <2>2 DEF Asked, Step
        <3>2. Fresher(more)
            BY <1>2, <3>1, RelatedShown
        <3> HIDE DEF more
        <3> QED BY <1>2, <2>1, <2>2, <3>2, StepKeeps
    <2>3. CASE Step("graph", "facts", NothingFound) /\ Absent
        BY <1>2, <1>4, <2>1, <2>3, StepKeeps
    <2> QED BY <1>7, <2>2, <2>3 DEF Graph
<1>8. ASSUME Facts PROVE RecallInv'
    <2> DEFINE more == Some({"facts"})
    <2>1. "facts" \in Steps /\ "fuse" \in Steps /\ "fuse" \notin Blending
        BY DEF Steps, Blending
    <2>2. CASE Step("facts", "fuse", more) /\ UNCHANGED failures
        <3>1. Fresher(more)
            BY <1>3, <2>2 DEF Step, Leaves
        <3> HIDE DEF more
        <3> QED BY <1>2, <2>1, <2>2, <3>1, StepKeeps
    <2>3. CASE Step("facts", "fuse", NothingFound) /\ Absent
        BY <1>2, <1>4, <2>1, <2>3, StepKeeps
    <2>4. Some({"facts"}) = [leg \in {"facts"} |-> Leg("facts")]
        OBVIOUS
    <2> QED BY <1>8, <2>2, <2>3, <2>4 DEF Facts
<1>9. ASSUME Reinforced PROVE RecallInv'
    <2> DEFINE more == Some({"reinforced"})
    <2>1. Some({"reinforced"}) = [leg \in {"reinforced"} |-> Leg("reinforced")]
        OBVIOUS
    <2>2. Step("reinforced", "recent", more) /\ failures' = failures
        BY <1>9, <2>1 DEF Reinforced
    <2>3. Fresher(more) /\ DOMAIN more = {"reinforced"}
        BY <1>3, <2>2 DEF Step, Leaves
    <2> HIDE DEF more
    <2>4. "reinforced" \in Steps /\ "recent" \in Steps /\ "reinforced" \in Blending
        BY DEF Steps, Blending
    <2> QED BY <1>2, <2>2, <2>3, <2>4, StepKeeps
<1>10. ASSUME Recent PROVE RecallInv'
    <2> DEFINE more == Some({"recent"})
    <2>1. Some({"recent"}) = [leg \in {"recent"} |-> Leg("recent")]
        OBVIOUS
    <2>2. Step("recent", "refetch", more) /\ failures' = failures
        BY <1>10, <2>1 DEF Recent
    <2>3. Fresher(more) /\ DOMAIN more = {"recent"}
        BY <1>3, <2>2 DEF Step, Leaves
    <2>4. "reinforced" \in DOMAIN found
        BY <1>1, <2>2 DEF Asked, Step
    <2> HIDE DEF more
    <2>5. "recent" \in Steps /\ "refetch" \in Steps /\ "recent" \in Blending
        BY DEF Steps, Blending
    <2> QED BY <1>2, <2>2, <2>3, <2>4, <2>5, StepKeeps
<1> QED BY <1>5, <1>6, <1>7, <1>8, <1>9, <1>10

\* What a step that only makes new hits out of the old ones and the rows looked
\* up leaves.
LEMMA HitsKeep ==
    ASSUME RecallInv, at \notin {"idle", "lookup", "fts", "finish"},
           at' \in Blending, at' \notin {"recent", "refetch"},
           hits' \in Seq(Hits),
           UNCHANGED <<world, config, data, memo, job, found, guidance, block, lately, recallCounts>>,
           \A r \in RowsOf(hits)' : Local(r) /\ MayBeShown(job.session, r) /\ r \in lately,
           cachegen = gen => RowsOf(hits)' \subseteq current \cup owed
    PROVE  RecallInv'
<1>1. UNCHANGED <<world, config, current, gen, owed, linked, cache, cachegen, job, found, guidance, block, lately, jobs, writes, failures>>
    BY DEF data, memo, recallCounts
<1>2. RecallTypeOK /\ Asked /\ Shown /\ Noted /\ Dated /\ NothingForeign
    BY DEF RecallInv
<1>3. Gathered' = Gathered /\ Readable' = Readable
    BY <1>1 DEF Gathered, Readable
<1>4. RecallTypeOK'
    <2>1. at' \in Steps
        BY DEF Steps, Blending
    <2> QED BY <1>1, <1>2, <2>1 DEF RecallTypeOK
<1>5. at' \notin {"idle", "lookup", "fts", "finish"}
    BY DEF Blending
<1>6. Asked'
    BY <1>1, <1>2, <1>5 DEF Asked
<1>7. Shown'
    BY <1>1, <1>2, <1>3, <1>5 DEF Shown
<1>8. Noted'
    BY <1>1, <1>2, <1>3, <1>5 DEF Noted
<1>9. Dated'
    BY <1>1, <1>2, <1>3, <1>5 DEF Dated
<1>10. NothingForeign' /\ Fresh' /\ LinkedHeard'
    BY <1>1, <1>2, <1>5 DEF NothingForeign, Fresh, LinkedHeard
<1> QED BY <1>4, <1>6, <1>7, <1>8, <1>9, <1>10 DEF RecallInv

LEMMA FuseKeeps == ASSUME RecallInv, Fuse PROVE RecallInv'
<1> DEFINE limit == IF config.blend THEN 3 * Limit ELSE Limit
           ranked == Ranked(limit)
<1>1. RecallTypeOK /\ Asked /\ Shown /\ Noted /\ Dated
    BY DEF RecallInv
<1>2. at = "fuse" /\ hits' = ranked /\ at' \in {"reinforced", "linked"}
    BY DEF Fuse
<1>3. limit \in Nat
    BY RankingAssumption
<1> HIDE DEF limit
<1>4. ranked \in Seq(Hits) /\ RowsOf(ranked) \subseteq Gathered
    BY <1>1, <1>3, RankedGathered DEF RecallTypeOK
<1> HIDE DEF ranked
<1>5. RowsOf(hits)' = RowsOf(ranked)
    BY <1>2 DEF RowsOf, Members
<1>6. \A r \in RowsOf(hits)' : Local(r) /\ MayBeShown(job.session, r) /\ r \in lately
    BY <1>1, <1>2, <1>4, <1>5 DEF Shown, Noted
<1>7. cachegen = gen => RowsOf(hits)' \subseteq current \cup owed
    BY <1>1, <1>4, <1>5 DEF Dated
<1>8. UNCHANGED <<world, config, data, memo, job, found, guidance, block, lately, recallCounts>>
    BY DEF Fuse
<1> QED BY <1>2, <1>4, <1>6, <1>7, <1>8, HitsKeep DEF Blending

LEMMA RefetchKeeps == ASSUME RecallInv, Refetch PROVE RecallInv'
<1>1. RecallTypeOK /\ Asked /\ Shown /\ Noted /\ Dated
    BY DEF RecallInv
<1>2. at = "refetch" /\ at' = "linked"
    BY DEF Refetch
<1>3. /\ job.session \in Askers
      /\ found["reinforced"] \in Seq(Ids) /\ found["recent"] \in Seq(Ids)
      /\ world \in Worlds /\ hits \in Seq(Hits)
    BY <1>1, <1>2 DEF Asked, RecallTypeOK
<1>4. /\ hits' \in Seq(Hits)
      /\ \A r \in RowsOf(hits)' : \/ r \in RowsOf(hits)
                                  \/ Local(r) /\ MayBeShown(job.session, r) /\ r \in current
    BY <1>3, RefetchGathered
<1>5. at \in Blending /\ at # "idle"
    BY <1>2 DEF Blending
<1>6. \A r \in RowsOf(hits)' : Local(r) /\ MayBeShown(job.session, r)
    BY <1>1, <1>4, <1>5 DEF Shown
<1>7. \A r \in RowsOf(hits)' : r \in lately
    <2>1. Readable \subseteq lately /\ RowsOf(hits) \subseteq lately
        BY <1>1, <1>5 DEF Noted
    <2> QED BY <1>4, <2>1, LocalReadable
<1>8. cachegen = gen => RowsOf(hits)' \subseteq current \cup owed
    <2>1. cachegen = gen => \A r \in RowsOf(hits) : Local(r) => r \in current \cup owed
        BY <1>1, <1>5 DEF Dated
    <2> QED BY <1>4, <1>6, <2>1
<1>9. UNCHANGED <<world, config, data, memo, job, found, guidance, block, lately, recallCounts>>
    BY DEF Refetch
<1> QED BY <1>2, <1>4, <1>6, <1>7, <1>8, <1>9, HitsKeep DEF Blending

LEMMA LinkKeeps == ASSUME RecallInv, Link PROVE RecallInv'
<1> DEFINE theirs == [n \in DOMAIN Remote |-> [row |-> Remote[n], score |-> 0]]
<1>1. /\ at = "linked" /\ at' = "finish"
      /\ UNCHANGED <<world, config, current, gen, owed, linked, cache, cachegen, job, found, guidance, block, lately, jobs, writes>>
    BY DEF Link, data, memo
<1>2. RecallTypeOK /\ Asked /\ Shown /\ Noted /\ Dated /\ NothingForeign
    BY DEF RecallInv
<1>3. job.session \in Askers /\ world \in Worlds /\ hits \in Seq(Hits) /\ failures \in Nat
    BY <1>1, <1>2 DEF Asked, RecallTypeOK
<1>4. at \in Blending /\ at # "idle" /\ at' \notin Blending
    BY <1>1 DEF Blending
<1>5. /\ \A r \in RowsOf(hits) : Local(r) /\ MayBeShown(job.session, r) /\ r \in lately
      /\ cachegen = gen => RowsOf(hits) \subseteq current \cup owed
    BY <1>2, <1>4 DEF Shown, Noted, Dated
<1>6. /\ hits' \in Seq(Hits) /\ failures' \in Nat
      /\ \A r \in RowsOf(hits)' : \/ r \in RowsOf(hits)
                                  \/ r \in Members(Remote) /\ Asks(job.session)
      /\ \/ \E r \in RowsOf(hits)' : ~ Local(r)
         \/ ~(Asks(job.session) /\ Remote # << >>)
         \/ failures' # 0
    <2>1. CASE Asks(job.session) /\ Remote # << >> /\ hits' = Merged(hits, theirs) /\ UNCHANGED failures
        <3>1. Remote \in Seq(Ids) /\ \A r \in Members(Remote) : ~ Local(r)
            BY <1>3, RemoteShown
        <3> DEFINE rows == Remote
                   zero == [r \in Ids |-> 0]
                   hs == [n \in DOMAIN rows |-> [row |-> rows[n], score |-> zero[rows[n]]]]
        <3>2. rows \in Seq(Ids) /\ Members(rows) \subseteq Ids /\ zero \in [Ids -> Int]
            BY <3>1, MembersIn
        <3>3. theirs = hs
            <4>1. \A n \in DOMAIN rows : rows[n] \in Ids
                BY <3>1
            <4> HIDE DEF rows
            <4> QED BY <4>1 DEF rows
        <3> HIDE DEF rows, zero
        <3>4. hs \in Seq(Hits) /\ RowsOf(hs) = Members(rows)
            BY <3>2, ScoredTyped
        <3> HIDE DEF hs
        <3>5. /\ Merged(hits, hs) \in Seq(Hits)
              /\ RowsOf(Merged(hits, hs)) \subseteq RowsOf(hits) \cup RowsOf(hs)
              /\ (\E r \in RowsOf(hits) \cup RowsOf(hs) : Row[r].home # "local")
                 => \E r \in RowsOf(Merged(hits, hs)) : Row[r].home # "local"
            BY <1>3, <3>4, MergedMembers
        <3>6. RowsOf(hits)' = RowsOf(Merged(hits, hs))
            BY <2>1, <3>3 DEF RowsOf, Members
        <3>7. PICK r \in Members(Remote) : TRUE
            <4>1. Members(Remote) # {}
                BY <2>1, <3>1, MembersIn
            <4> QED BY <4>1
        <3>8. r \in RowsOf(hs) /\ Row[r].home # "local"
            BY <3>1, <3>4, <3>7 DEF rows, Local
        <3>9. RowsOf(hs) = Members(Remote)
            BY <3>4 DEF rows
        <3> QED BY <1>3, <2>1, <3>3, <3>5, <3>6, <3>8, <3>9 DEF Local
    <2>2. CASE ~(Asks(job.session) /\ Remote # << >>) /\ UNCHANGED <<hits, failures>>
        <3>1. RowsOf(hits)' = RowsOf(hits)
            BY <2>2 DEF RowsOf, Members
        <3> QED BY <1>3, <2>2, <3>1
    <2>3. CASE Asks(job.session) /\ Absent /\ UNCHANGED hits
        <3>1. RowsOf(hits)' = RowsOf(hits)
            BY <2>3 DEF RowsOf, Members
        <3>2. failures' \in Nat /\ failures' # 0
            BY <1>3, <2>3 DEF Absent
        <3> QED BY <1>3, <2>3, <3>1, <3>2
    <2> QED BY <2>1, <2>2, <2>3 DEF Link
<1>7. \A r \in RowsOf(hits)' : MayBeShown(job.session, r) /\ r \in lately
    <2>1. Readable \subseteq lately
        BY <1>2, <1>4 DEF Noted
    <2> QED BY <1>3, <1>5, <1>6, <2>1, RemoteShown
<1>8. cachegen = gen => \A r \in RowsOf(hits)' : Local(r) => r \in current \cup owed
    <2>1. \A r \in Members(Remote) : ~ Local(r)
        BY <1>3, RemoteShown
    <2> QED BY <1>5, <1>6, <2>1
<1>9. Gathered' = Gathered /\ Readable' = Readable
    BY <1>1 DEF Gathered, Readable
<1>10. RecallTypeOK'
    <2>1. at' \in Steps
        BY <1>1 DEF Steps
    <2>2. {jobs', writes', failures'} \subseteq Nat
        BY <1>1, <1>2, <1>6 DEF RecallTypeOK
    <2> QED BY <1>1, <1>2, <1>6, <2>1, <2>2 DEF RecallTypeOK
<1>11. Asked'
    BY <1>1, <1>2 DEF Asked
<1>12. Shown'
    BY <1>1, <1>2, <1>4, <1>7, <1>9 DEF Shown
<1>13. Noted'
    BY <1>1, <1>2, <1>4, <1>7, <1>9 DEF Noted
<1>14. Dated'
    BY <1>1, <1>2, <1>4, <1>8, <1>9 DEF Dated
<1>15. LinkedHeard'
    <2>1. Remote' = Remote
        BY <1>1 DEF Remote
    <2>2. Asks(job.session)' <=> Asks(job.session)
        BY <1>1 DEF Asks
    <2>3. CASE \E r \in RowsOf(hits)' : ~ Local(r)
        <3>1. PICK r \in RowsOf(hits)' : ~ Local(r)
            BY <2>3
        <3>2. r \in Members(Remote)
            BY <1>5, <1>6, <3>1
        <3>3. PICK place \in DOMAIN hits' : r = hits'[place].row
            BY <3>1 DEF RowsOf, Members
        <3>4. \E n \in DOMAIN hits' : \E q \in Members(Remote) : Row[q].uid = Row[hits'[n].row].uid
            BY <3>2, <3>3
        <3>5. Members(Remote)' = Members(Remote)
            BY <2>1 DEF Members
        <3> QED BY <3>4, <3>5 DEF LinkedHeard
    <2>4. CASE ~(Asks(job.session) /\ Remote # << >>)
        BY <2>1, <2>2, <2>4 DEF LinkedHeard
    <2>5. CASE failures' # 0
        BY <2>5 DEF LinkedHeard
    <2> QED BY <1>6, <2>3, <2>4, <2>5
<1>16. NothingForeign' /\ Fresh'
    BY <1>1, <1>2 DEF NothingForeign, Fresh
<1> QED BY <1>10, <1>11, <1>12, <1>13, <1>14, <1>15, <1>16 DEF RecallInv

-----------------------------------------------------------------------------
\* The cache.

Entries == [scope : Askers, query : Queries, hits : Seq(Hits), blind : BOOLEAN]

LEMMA StoredEntries ==
    ASSUME cache \in Seq(Entries), NEW s \in Askers, NEW q \in Queries, NEW ranked \in Seq(Hits)
    PROVE  /\ Stored(s, q, ranked) \in Seq(Entries)
           /\ Len(Stored(s, q, ranked)) <= CacheSize
           /\ \A e \in Members(Stored(s, q, ranked)) :
                \/ e \in Members(cache)
                \/ e.scope = s /\ e.hits = ranked /\ e.blind = (cachegen = Nothing)
<1> DEFINE entry == [scope |-> Scope(s), query |-> q, hits |-> ranked, blind |-> cachegen = Nothing]
           others == Kept(cache, {e \in Members(cache) : ~(e.scope = Scope(s) /\ e.query = q)})
           all == Append(others, entry)
           first == Larger(1, Len(all) - CacheSize + 1)
<1>1. Stored(s, q, ranked) = SubSeq(all, first, Len(all))
    BY DEF Stored
<1>2. entry \in Entries /\ entry.scope = s /\ entry.hits = ranked /\ entry.blind = (cachegen = Nothing)
    BY DEF Entries, Scope
<1> HIDE DEF entry
<1>3. others \in Seq(Entries) /\ Members(others) \subseteq Members(cache)
    BY KeptMembers
<1> HIDE DEF others
<1>4. all \in Seq(Entries) /\ Members(all) = Members(others) \cup {entry}
    BY <1>2, <1>3, AppendProperties, AppendMembers
<1> HIDE DEF all
<1>5. CacheSize \in Nat \ {0} /\ Len(all) \in Nat
    BY <1>4, RecallAssumption
<1>6. first \in Nat /\ first >= 1 /\ first >= Len(all) - CacheSize + 1
    BY <1>5 DEF Larger
<1> HIDE DEF first
<1>7. first - 1 \in Nat /\ (first - 1) + 1 = first
    BY <1>6
<1>8. /\ SubSeq(all, first, Len(all)) \in Seq(Entries)
      /\ Members(SubSeq(all, first, Len(all))) \subseteq Members(all)
    <2>1. /\ SubSeq(all, (first - 1) + 1, Len(all)) \in Seq(Entries)
          /\ Members(SubSeq(all, (first - 1) + 1, Len(all))) \subseteq Members(all)
        BY <1>4, <1>7, RestMembers
    <2> QED BY <1>7, <2>1
<1>9. Len(SubSeq(all, first, Len(all))) <= CacheSize
    <2>1. \A i \in first..Len(all) : all[i] \in Entries
        BY <1>4, <1>6
    <2>2. Len(SubSeq(all, first, Len(all))) = IF first <= Len(all) THEN Len(all) - first + 1 ELSE 0
        BY <1>5, <1>6, <2>1, SubSeqProperties
    <2> QED BY <1>5, <1>6, <2>2
<1> QED BY <1>1, <1>2, <1>3, <1>4, <1>8, <1>9

LEMMA MovedEntries ==
    ASSUME NEW entries \in Seq(Entries), NEW i \in DOMAIN entries
    PROVE  /\ Append(Without(entries, i), entries[i]) \in Seq(Entries)
           /\ Len(Append(Without(entries, i), entries[i])) = Len(entries)
           /\ Members(Append(Without(entries, i), entries[i])) \subseteq Members(entries)
<1> DEFINE before == SubSeq(entries, 1, i - 1)
           after == SubSeq(entries, i + 1, Len(entries))
           rest == before \o after
<1>1. Len(entries) \in Nat /\ i \in 1..Len(entries) /\ i - 1 \in Nat
      /\ entries[i] \in Entries /\ entries[i] \in Members(entries)
    BY MembersIn
<1>2. before = Front(entries, i - 1)
    BY <1>1 DEF Front
<1>3. before \in Seq(Entries) /\ Members(before) \subseteq Members(entries)
    <2>1. Front(entries, i - 1) \in Seq(Entries) /\ Members(Front(entries, i - 1)) \subseteq Members(entries)
        BY <1>1, FrontMembers
    <2> HIDE DEF before
    <2> QED BY <1>2, <2>1
<1>4. after \in Seq(Entries) /\ Members(after) \subseteq Members(entries)
    BY <1>1, RestMembers
<1>5. Len(before) = i - 1 /\ Len(after) = Len(entries) - i
    <2>1. \A j \in 1..Len(entries) : entries[j] \in Entries
        OBVIOUS
    <2>2. \A j \in 1..(i - 1) : entries[j] \in Entries
        BY <1>1, <2>1
    <2>3. \A j \in (i + 1)..Len(entries) : entries[j] \in Entries
        BY <1>1, <2>1
    <2>4. Len(before) = IF 1 <= i - 1 THEN (i - 1) - 1 + 1 ELSE 0
        BY <1>1, <2>2, SubSeqProperties
    <2>5. Len(after) = IF i + 1 <= Len(entries) THEN Len(entries) - (i + 1) + 1 ELSE 0
        BY <1>1, <2>3, SubSeqProperties
    <2> QED BY <1>1, <2>4, <2>5
<1> HIDE DEF before, after
<1>6. rest \in Seq(Entries) /\ Members(rest) \subseteq Members(entries) /\ Len(rest) = Len(before) + Len(after)
    BY <1>3, <1>4, ConcatMembers, ConcatProperties
<1> HIDE DEF rest
<1>7. Without(entries, i) = rest
    BY DEF Without, rest, before, after
<1>8. /\ Append(rest, entries[i]) \in Seq(Entries)
      /\ Len(Append(rest, entries[i])) = Len(rest) + 1
      /\ Members(Append(rest, entries[i])) = Members(rest) \cup {entries[i]}
    BY <1>1, <1>6, AppendProperties, AppendMembers
<1>9. Len(rest) + 1 = Len(entries)
    <2>1. Len(rest) = (i - 1) + (Len(entries) - i)
        BY <1>5, <1>6
    <2>2. i \in Int /\ Len(entries) \in Int
        BY <1>1
    <2> HIDE DEF rest
    <2> QED BY <2>1, <2>2
<1>10. Members(rest) \cup {entries[i]} \subseteq Members(entries)
    BY <1>1, <1>6
<1> QED BY <1>7, <1>8, <1>9, <1>10

LEMMA BestUsable ==
    ASSUME NEW entries \in Seq(Entries), NEW s, NEW q, Best(entries, s, q) # 0
    PROVE  Best(entries, s, q) \in DOMAIN entries /\ entries[Best(entries, s, q)].scope = s
<1> DEFINE same == {i \in DOMAIN entries : entries[i].scope = Scope(s) /\ entries[i].query = q}
           near == {i \in DOMAIN entries : Usable(entries[i], s, q)}
<1>1. DOMAIN entries = 1..Len(entries) /\ Len(entries) \in Nat
    OBVIOUS
<1>2. IsFiniteSet(1..Len(entries)) /\ 1..Len(entries) \subseteq Int
    BY <1>1, FS_Interval
<1>3. \A i \in same \cup near : i \in DOMAIN entries /\ entries[i].scope = s
    BY DEF Usable, Scope
<1>4. same \subseteq 1..Len(entries) /\ near \subseteq 1..Len(entries)
    BY <1>1
<1>5. Best(entries, s, q) = IF same # {} THEN Min(same) ELSE IF near # {} THEN Min(near) ELSE 0
    BY DEF Best
<1> HIDE DEF same, near
<1>6. IsFiniteSet(same) /\ IsFiniteSet(near) /\ same \subseteq Int /\ near \subseteq Int
    BY <1>2, <1>4, FS_Subset
<1>7. (same # {} => Min(same) \in same) /\ (near # {} => Min(near) \in near)
    BY <1>6, Extremes
<1> QED BY <1>3, <1>5, <1>7

\* What the check of the generation leaves of the cache holds for now.
LEMMA CheckedEntries ==
    ASSUME RecallTypeOK, Dated, NEW read \in BOOLEAN
    PROVE  /\ Checked(read) \in Seq(Entries) /\ Len(Checked(read)) <= CacheSize
           /\ Members(Checked(read)) \subseteq Members(cache)
           /\ ~ read => Checked(read) = << >>
           /\ \A e \in Members(Checked(read)) : ~ e.blind => RowsOf(e.hits) \subseteq current \cup owed
<1>1. cache \in Seq(Entries) /\ Len(cache) <= CacheSize
    BY DEF RecallTypeOK, Entries
<1>2. CASE read /\ cachegen \in {Nothing, gen}
    <2>1. Checked(read) = cache
        BY <1>2 DEF Checked
    <2> QED BY <1>1, <1>2, <2>1 DEF Dated
<1>3. CASE ~(read /\ cachegen \in {Nothing, gen})
    <2>1. Checked(read) = << >>
        BY <1>3 DEF Checked
    <2>2. << >> \in Seq(Entries) /\ Len(<< >>) <= CacheSize /\ Members(<< >>) = {}
        BY RecallAssumption DEF Members
    <2> QED BY <2>1, <2>2
<1> QED BY <1>2, <1>3

LEMMA LookupKeeps == ASSUME RecallInv, Lookup PROVE RecallInv'
<1>1. /\ at = "lookup"
      /\ UNCHANGED <<world, config, current, gen, owed, linked, job, found, guidance, lately, jobs, writes>>
    BY DEF Lookup, data
<1>2. RecallTypeOK /\ Asked /\ Shown /\ Noted /\ Dated /\ NothingForeign
    BY DEF RecallInv
<1>3. /\ job.session \in Askers /\ job.query \in Queries /\ found = NothingFound
      /\ gen \in Nat /\ failures \in Nat /\ Nothing \notin Nat
      /\ Readable \subseteq lately /\ Members(guidance) \subseteq lately
      /\ \A r \in Members(guidance) : MayBeShown(job.session, r)
    BY <1>1, <1>2, RecallAssumption DEF Asked, RecallTypeOK, Noted, Shown
<1>4. Gathered' = {} /\ Readable' = Readable
    BY <1>1, <1>3 DEF Gathered, Readable, NothingFound
<1>5. CASE config.link /\ linked /\ at' = "fts" /\ UNCHANGED <<memo, hits, block, failures>>
    <2>1. UNCHANGED <<cache, cachegen, hits, block, failures>>
        BY <1>5 DEF memo
    <2>2. at' \in Steps /\ at' \notin Blending \cup {"finish", "idle", "recent", "refetch"}
        BY <1>5 DEF Steps, Blending
    <2>3. RecallTypeOK'
        BY <1>1, <1>2, <2>1, <2>2 DEF RecallTypeOK
    <2>4. Asked'
        BY <1>1, <1>3, <2>2 DEF Asked
    <2>5. Shown'
        BY <1>1, <1>2, <1>4, <2>1, <2>2 DEF Shown
    <2>6. Noted'
        BY <1>1, <1>3, <1>4, <2>2 DEF Noted
    <2>7. Dated'
        BY <1>1, <1>2, <1>4, <2>1, <2>2 DEF Dated
    <2>8. NothingForeign' /\ Fresh' /\ LinkedHeard'
        BY <1>1, <1>2, <2>1, <2>2 DEF NothingForeign, Fresh, LinkedHeard
    <2> QED BY <2>3, <2>4, <2>5, <2>6, <2>7, <2>8 DEF RecallInv
<1>6. ASSUME NEW read \in BOOLEAN, ~(config.link /\ linked),
             failures' = IF read THEN failures ELSE failures + 1,
             cachegen' = IF read THEN gen ELSE Nothing,
             cache' \in Seq(Entries), Len(cache') <= CacheSize,
             Members(cache)' \subseteq Members(Checked(read)),
             hits' \in Seq(Hits),
             \/ at' = "fts" /\ UNCHANGED block
             \/ /\ at' = "idle"
                /\ block' \in [session : Askers \cup {Nothing}, rows : Seq(Ids), guidance : Seq(Ids), blind : BOOLEAN, owed : SUBSET Ids]
                /\ \A r \in Members(block'.rows) : MayBeShown(job.session, r)
                /\ block'.guidance = guidance /\ block'.session = job.session
                /\ block'.blind \/ Members(block'.rows) \subseteq lately \cup block'.owed
      PROVE  RecallInv'
    <2>1. /\ ~ read => Members(Checked(read)) = {}
          /\ Members(cache)' \subseteq Members(cache)
          /\ \A e \in Members(Checked(read)) : ~ e.blind => RowsOf(e.hits) \subseteq current \cup owed
        <3>1. /\ Members(Checked(read)) \subseteq Members(cache)
              /\ ~ read => Checked(read) = << >>
              /\ \A e \in Members(Checked(read)) : ~ e.blind => RowsOf(e.hits) \subseteq current \cup owed
            BY <1>2, CheckedEntries
        <3>2. ~ read => Members(Checked(read)) = {}
            BY <3>1 DEF Members
        <3> QED BY <1>6, <3>1, <3>2
    <2>2. at' \in Steps /\ at' \notin Blending \cup {"finish", "recent", "refetch"}
        BY <1>6 DEF Steps, Blending
    <2>3. RecallTypeOK'
        <3>1. {jobs', writes', failures'} \subseteq Nat
            BY <1>1, <1>2, <1>3, <1>6 DEF RecallTypeOK
        <3>2. cachegen' \in Nat \cup {Nothing}
            BY <1>3, <1>6
        <3>3. block' \in [session : Askers \cup {Nothing}, rows : Seq(Ids), guidance : Seq(Ids), blind : BOOLEAN, owed : SUBSET Ids]
            BY <1>2, <1>6 DEF RecallTypeOK
        <3> QED BY <1>1, <1>2, <1>6, <2>2, <3>1, <3>2, <3>3 DEF RecallTypeOK, Entries
    <2>4. Asked'
        BY <1>1, <1>3, <2>2 DEF Asked
    <2>5. Shown'
        <3>1. \A e \in Members(cache)' : \A r \in RowsOf(e.hits) : Local(r) /\ MayBeShown(e.scope, r)
            BY <1>2, <2>1 DEF Shown
        <3> QED BY <1>1, <1>3, <1>4, <2>2, <3>1 DEF Shown
    <2>6. Noted'
        BY <1>1, <1>3, <1>4, <2>2 DEF Noted
    <2>7. Dated'
        <3>1. cachegen' \in Nat => cachegen' <= gen
            BY <1>3, <1>6
        <3>2. cachegen' = Nothing => ~ read
            BY <1>3, <1>6
        <3>3. cachegen' = Nothing => \A e \in Members(cache)' : e.blind
            BY <1>6, <2>1, <3>2
        <3>4. \A e \in Members(cache)' : ~ e.blind => RowsOf(e.hits) \subseteq current \cup owed
            BY <1>6, <2>1
        <3> QED BY <1>1, <1>4, <2>2, <3>1, <3>3, <3>4 DEF Dated
    <2>8. LinkedHeard'
        BY <1>1, <1>6 DEF LinkedHeard, Asks
    <2>9. NothingForeign' /\ Fresh'
        <3>1. CASE at' = "fts" /\ UNCHANGED block
            BY <1>2, <3>1 DEF NothingForeign, Fresh
        <3>2. CASE at' = "idle" /\ ~(at' = "fts" /\ UNCHANGED block)
            BY <1>1, <1>3, <1>6, <3>2 DEF NothingForeign, Fresh
        <3> QED BY <1>6, <3>1, <3>2
    <2> QED BY <2>3, <2>4, <2>5, <2>6, <2>7, <2>8, <2>9 DEF RecallInv
<1>7. ASSUME NEW read \in BOOLEAN, ~(config.link /\ linked),
             failures' = IF read THEN failures ELSE failures + 1,
             cachegen' = IF read THEN gen ELSE Nothing,
             IF Best(Checked(read), job.session, job.query) = 0
             THEN cache' = Checked(read) /\ at' = "fts" /\ UNCHANGED <<hits, block>>
             ELSE LET entries == Checked(read)
                      i == Best(entries, job.session, job.query)
                  IN /\ cache' = Append(Without(entries, i), entries[i])
                     /\ hits' = entries[i].hits
                     /\ block' = Served(entries[i].hits, entries[i].blind)
                     /\ at' = "idle"
      PROVE  RecallInv'
    <2> DEFINE entries == Checked(read)
               i == Best(entries, job.session, job.query)
    <2>1. /\ entries \in Seq(Entries) /\ Len(entries) <= CacheSize
          /\ Members(entries) \subseteq Members(cache)
          /\ \A e \in Members(entries) : ~ e.blind => RowsOf(e.hits) \subseteq current \cup owed
        BY <1>2, CheckedEntries
    <2>2. hits \in Seq(Hits)
        BY <1>2 DEF RecallTypeOK
    <2>3. CASE i = 0
        <3>1. cache' = entries /\ at' = "fts" /\ UNCHANGED <<hits, block>>
            BY <1>7, <2>3
        <3>2. Members(cache)' = Members(entries)
            BY <3>1 DEF Members
        <3> HIDE DEF entries
        <3>3. /\ cache' \in Seq(Entries) /\ Len(cache') <= CacheSize
              /\ Members(cache)' \subseteq Members(entries) /\ hits' \in Seq(Hits)
            BY <2>1, <2>2, <3>1, <3>2
        <3> QED BY <1>6, <1>7, <3>1, <3>3 DEF entries
    <2>4. CASE i # 0
        <3>1. /\ cache' = Append(Without(entries, i), entries[i])
              /\ hits' = entries[i].hits
              /\ block' = Served(entries[i].hits, entries[i].blind)
              /\ at' = "idle"
            BY <1>7, <2>4
        <3> HIDE DEF entries
        <3>2. i \in DOMAIN entries /\ entries[i].scope = job.session
            BY <2>1, <2>4, BestUsable
        <3> HIDE DEF i
        <3> DEFINE e == entries[i]
                   ranked == entries[i].hits
        <3>3. e \in Entries /\ e \in Members(entries)
            BY <2>1, <3>2, MembersIn
        <3>4. ranked \in Seq(Hits) /\ e.blind \in BOOLEAN
            BY <3>3 DEF Entries
        <3>5. /\ Append(Without(entries, i), entries[i]) \in Seq(Entries)
              /\ Len(Append(Without(entries, i), entries[i])) = Len(entries)
              /\ Members(Append(Without(entries, i), entries[i])) \subseteq Members(entries)
            BY <2>1, <3>2, MovedEntries
        <3>6. Members(cache)' = Members(Append(Without(entries, i), entries[i]))
            BY <3>1 DEF Members
        <3>7. /\ cache' \in Seq(Entries) /\ Len(cache') <= CacheSize
              /\ Members(cache)' \subseteq Members(entries) /\ hits' \in Seq(Hits)
            BY <2>1, <3>1, <3>4, <3>5, <3>6
        <3> DEFINE served == Served(ranked, e.blind)
        <3>8. /\ served.rows \in Seq(Ids) /\ Members(served.rows) \subseteq RowsOf(ranked)
              /\ served.guidance = guidance /\ served.session = job.session
              /\ served.blind = e.blind /\ served.owed = owed
            BY <3>4, ServedRows
        <3>9. DOMAIN served = {"session", "rows", "guidance", "blind", "owed"}
              /\ served = [n \in DOMAIN served |-> served[n]]
            BY DEF Served
        <3>10. \A r \in RowsOf(ranked) : Local(r) /\ MayBeShown(job.session, r)
            BY <1>2, <2>1, <3>2, <3>3 DEF Shown
        <3>11. e.blind \/ RowsOf(ranked) \subseteq lately \cup owed
            BY <1>3, <2>1, <3>3, <3>10, LocalReadable
        <3>12. block' = served
            BY <3>1
        <3> HIDE DEF served, e, ranked
        <3>13. block' \in [session : Askers \cup {Nothing}, rows : Seq(Ids), guidance : Seq(Ids), blind : BOOLEAN, owed : SUBSET Ids]
            <4>1. guidance \in Seq(Ids) /\ owed \in SUBSET Ids /\ job.session \in Askers
                BY <1>2, <1>3 DEF RecallTypeOK
            <4> QED BY <3>4, <3>8, <3>9, <3>12, <4>1
        <3>14. /\ \A r \in Members(block'.rows) : MayBeShown(job.session, r)
               /\ block'.guidance = guidance /\ block'.session = job.session
               /\ block'.blind \/ Members(block'.rows) \subseteq lately \cup block'.owed
            BY <3>8, <3>10, <3>11, <3>12
        <3> QED BY <1>6, <1>7, <3>1, <3>7, <3>13, <3>14 DEF entries
    <2> QED BY <2>3, <2>4
<1>8. \/ config.link /\ linked /\ at' = "fts" /\ UNCHANGED <<memo, hits, block, failures>>
      \/ ~(config.link /\ linked)
         /\ \E read \in BOOLEAN :
             /\ failures' = IF read THEN failures ELSE failures + 1
             /\ cachegen' = IF read THEN gen ELSE Nothing
             /\ IF Best(Checked(read), job.session, job.query) = 0
                THEN cache' = Checked(read) /\ at' = "fts" /\ UNCHANGED <<hits, block>>
                ELSE LET entries == Checked(read)
                         i == Best(entries, job.session, job.query)
                     IN /\ cache' = Append(Without(entries, i), entries[i])
                        /\ hits' = entries[i].hits
                        /\ block' = Served(entries[i].hits, entries[i].blind)
                        /\ at' = "idle"
    BY DEF Lookup
<1> QED BY <1>5, <1>7, <1>8

LEMMA FinishKeeps == ASSUME RecallInv, Finish PROVE RecallInv'
<1> DEFINE ranked == Diversified(hits)
<1>1. /\ at = "finish" /\ at' = "idle" /\ hits' = ranked /\ found' = NothingFound
      /\ block' = Served(ranked, FALSE)
      /\ UNCHANGED <<world, config, current, gen, owed, linked, job, guidance, lately, jobs, writes, failures>>
    BY DEF Finish, data, recallCounts
<1>2. RecallTypeOK /\ Asked /\ Shown /\ Noted /\ Dated /\ LinkedHeard
    BY DEF RecallInv
<1>3. /\ job.session \in Askers /\ job.query \in Queries /\ hits \in Seq(Hits)
      /\ cache \in Seq(Entries) /\ Len(cache) <= CacheSize
      /\ Members(guidance) \cup RowsOf(hits) \subseteq lately
      /\ \A r \in Members(guidance) \cup RowsOf(hits) : MayBeShown(job.session, r)
      /\ cachegen = gen => \A r \in RowsOf(hits) : Local(r) => r \in current \cup owed
    BY <1>1, <1>2 DEF Asked, RecallTypeOK, Entries, Noted, Shown, Dated
<1>4. /\ ranked \in Seq(Hits) /\ Members(ranked) \subseteq Members(hits)
      /\ \A h \in Members(hits) : \E g \in Members(ranked) : Row[g.row].uid = Row[h.row].uid
    BY <1>3, DiversifiedMembers
<1>5. RowsOf(ranked) \subseteq RowsOf(hits)
    BY <1>4 DEF RowsOf
<1>6. /\ cache' \in Seq(Entries) /\ Len(cache') <= CacheSize /\ cachegen' = cachegen
      /\ \A e \in Members(cache)' :
           \/ e \in Members(cache)
           \/ /\ e.scope = job.session /\ e.hits = ranked /\ e.blind = (cachegen = Nothing)
              /\ \A r \in RowsOf(ranked) : Local(r)
    <2>1. CASE Cacheable(hits) /\ cache' = Stored(job.session, job.query, ranked) /\ cachegen' = PutGeneration
        <3>1. \A r \in RowsOf(hits) : Local(r)
            BY <2>1 DEF Cacheable, IsLinked, RowsOf, Members, Local
        <3> HIDE DEF ranked
        <3>2. /\ Stored(job.session, job.query, ranked) \in Seq(Entries)
              /\ Len(Stored(job.session, job.query, ranked)) <= CacheSize
              /\ \A e \in Members(Stored(job.session, job.query, ranked)) :
                   \/ e \in Members(cache)
                   \/ e.scope = job.session /\ e.hits = ranked /\ e.blind = (cachegen = Nothing)
            BY <1>3, <1>4, StoredEntries
        <3>3. Members(cache)' = Members(Stored(job.session, job.query, ranked))
            BY <2>1 DEF Members
        <3> QED BY <1>5, <2>1, <3>1, <3>2, <3>3 DEF PutGeneration
    <2>2. CASE ~ Cacheable(hits) /\ UNCHANGED memo
        <3>1. cache' = cache /\ cachegen' = cachegen /\ Members(cache)' = Members(cache)
            BY <2>2 DEF memo, Members
        <3> QED BY <1>3, <3>1
    <2> QED BY <2>1, <2>2 DEF Finish
<1>7. LinkedHeard'
    <2>1. SUFFICES ASSUME writes' = 0, failures' = 0, jobs' > 0, Asks(job.session)', Remote' # << >>
                   PROVE  \E n \in DOMAIN hits' : \E r \in Members(Remote)' : Row[r].uid = Row[hits'[n].row].uid
        BY DEF LinkedHeard
    <2>2. Remote' = Remote /\ Members(Remote)' = Members(Remote) /\ Asks(job.session)
        BY <1>1, <2>1 DEF Remote, Members, Asks
    <2>3. PICK i \in DOMAIN hits : \E r \in Members(Remote) : Row[r].uid = Row[hits[i].row].uid
        BY <1>1, <1>2, <2>1, <2>2 DEF LinkedHeard
    <2>4. hits[i] \in Members(hits)
        BY DEF Members
    <2>5. PICK g \in Members(ranked) : Row[g.row].uid = Row[hits[i].row].uid
        BY <1>4, <2>4
    <2> HIDE DEF ranked
    <2>6. PICK j \in DOMAIN ranked : ranked[j] = g
        BY DEF Members
    <2> QED BY <1>1, <2>2, <2>3, <2>5, <2>6
<1> DEFINE served == Served(ranked, FALSE)
<1>8. /\ served.rows \in Seq(Ids) /\ Members(served.rows) \subseteq RowsOf(ranked)
      /\ served.guidance = guidance /\ served.session = job.session
      /\ served.blind = FALSE /\ served.owed = owed
    BY <1>4, ServedRows
<1>9. DOMAIN served = {"session", "rows", "guidance", "blind", "owed"}
      /\ served = [n \in DOMAIN served |-> served[n]]
    BY DEF Served
<1>10. block' = served
    BY <1>1
<1> HIDE DEF served, ranked
<1>11. RecallTypeOK'
    <2>1. block' \in [session : Askers \cup {Nothing}, rows : Seq(Ids), guidance : Seq(Ids), blind : BOOLEAN, owed : SUBSET Ids]
        <3>1. guidance \in Seq(Ids) /\ owed \in SUBSET Ids /\ job.session \in Askers
            BY <1>2, <1>3 DEF RecallTypeOK
        <3> QED BY <1>8, <1>9, <1>10, <3>1
    <2>2. at' \in Steps /\ \A leg \in DOMAIN found' : found'[leg] \in Seq(Ids)
        BY <1>1 DEF Steps, NothingFound
    <2> QED BY <1>1, <1>2, <1>4, <1>6, <2>1, <2>2 DEF RecallTypeOK, Entries
<1>12. Asked'
    BY <1>1 DEF Asked
<1>13. Gathered' = {}
    BY <1>1 DEF Gathered, NothingFound
<1>14. Shown'
    <2>1. ASSUME NEW e \in Members(cache)', NEW r \in RowsOf(e.hits)
          PROVE  Local(r) /\ MayBeShown(e.scope, r)
        BY <1>2, <1>3, <1>5, <1>6, <2>1 DEF Shown
    <2> QED BY <1>1, <1>13, <2>1 DEF Shown, Blending
<1>15. Noted'
    BY <1>1 DEF Noted
<1>16. Dated'
    <2>1. cachegen = Nothing => \A e \in Members(cache)' : e.blind
        BY <1>2, <1>6 DEF Dated
    <2>2. ASSUME cachegen = gen, NEW e \in Members(cache)', ~ e.blind
          PROVE  RowsOf(e.hits) \subseteq current \cup owed
        BY <1>2, <1>3, <1>5, <1>6, <2>2 DEF Dated
    <2> QED BY <1>1, <1>2, <1>6, <1>13, <2>1, <2>2 DEF Dated, Blending
<1>17. NothingForeign' /\ Fresh'
    <2>1. \A r \in Members(block'.rows) \cup Members(block'.guidance) : r \in lately /\ MayBeShown(job.session, r)
        BY <1>3, <1>5, <1>8, <1>10
    <2>2. block'.session = job.session
        BY <1>8, <1>10
    <2> QED BY <1>1, <2>1, <2>2 DEF NothingForeign, Fresh
<1> QED BY <1>7, <1>11, <1>12, <1>14, <1>15, <1>16, <1>17 DEF RecallInv

-----------------------------------------------------------------------------
\* Other processes.

\* A write that bumps the generation, or leaves the rows of this brain that the
\* cache may hold, keeps the invariant.
LEMMA WriteKeeps ==
    ASSUME RecallInv,
           current' \subseteq Ids, owed' \subseteq Ids, linked' \in BOOLEAN,
           gen' \in Nat, gen' >= gen,
           gen' = gen => \A r \in current \cup owed : Local(r) => r \in current' \cup owed',
           lately \subseteq lately', at # "idle" => Readable' \subseteq lately', lately' \subseteq Ids,
           writes' \in Nat, writes' # 0 \/ UNCHANGED <<current, linked, writes>>,
           UNCHANGED <<world, config, cache, cachegen, job, at, found, hits, guidance, block, jobs, failures>>
    PROVE  RecallInv'
<1>1. RecallTypeOK /\ Asked /\ Shown /\ Noted /\ Dated /\ NothingForeign /\ Fresh /\ LinkedHeard
    BY DEF RecallInv
<1>2. Gathered' = Gathered /\ RowsOf(hits)' = RowsOf(hits) /\ Members(cache)' = Members(cache)
    BY DEF Gathered, RowsOf, Members
<1>3. gen \in Nat /\ Nothing \notin Nat
    BY <1>1, RecallAssumption DEF RecallTypeOK
<1>4. RecallTypeOK'
    <2>1. {jobs', writes', failures'} \subseteq Nat
        BY <1>1 DEF RecallTypeOK
    <2> QED BY <1>1, <2>1 DEF RecallTypeOK
<1>5. Asked'
    BY <1>1 DEF Asked
<1>6. Shown'
    BY <1>1, <1>2 DEF Shown
<1>7. Noted'
    <2>1. ASSUME at # "idle"
          PROVE  /\ Gathered \cup Members(guidance) \subseteq lately'
                 /\ at \in Blending \cup {"finish"} => RowsOf(hits) \subseteq lately'
        BY <1>1, <2>1 DEF Noted
    <2> QED BY <1>2, <2>1 DEF Noted
<1>8. Dated'
    <2>1. cachegen' \in Nat => cachegen' <= gen'
        <3>1. cachegen \in Nat => cachegen <= gen
            BY <1>1 DEF Dated
        <3> QED BY <1>3, <3>1
    <2>2. cachegen' = gen' => cachegen = gen /\ gen' = gen
        <3>1. cachegen' = gen' => gen' <= gen
            BY <1>1 DEF Dated
        <3> QED BY <1>3, <3>1
    <2>3. ASSUME cachegen' = gen'
          PROVE  /\ \A e \in Members(cache) : ~ e.blind => RowsOf(e.hits) \subseteq current' \cup owed'
                 /\ Gathered \subseteq current' \cup owed'
                 /\ at \in Blending \cup {"finish"} => \A r \in RowsOf(hits) : Local(r) => r \in current' \cup owed'
        <3>1. cachegen = gen /\ \A r \in current \cup owed : Local(r) => r \in current' \cup owed'
            BY <2>2, <2>3
        <3> QED BY <1>1, <3>1 DEF Dated, Shown
    <2>4. cachegen' = Nothing => \A e \in Members(cache) : e.blind
        BY <1>1 DEF Dated
    <2> QED BY <1>2, <2>1, <2>3, <2>4 DEF Dated
<1>9. NothingForeign'
    BY <1>1 DEF NothingForeign
<1>10. Fresh'
    BY <1>1 DEF Fresh
<1>11. LinkedHeard'
    <2>1. CASE writes' # 0
        BY <2>1 DEF LinkedHeard
    <2>2. CASE UNCHANGED <<current, linked, writes>>
        BY <1>1, <2>2 DEF LinkedHeard, Asks, Remote, Members
    <2> QED BY <2>1, <2>2
<1> QED BY <1>4, <1>5, <1>6, <1>7, <1>8, <1>9, <1>10, <1>11 DEF RecallInv

LEMMA BumpedKeeps ==
    ASSUME RecallTypeOK, NEW r \in current, Bumped(r), current \ {r} \subseteq current'
    PROVE  /\ owed' \subseteq Ids /\ gen' \in Nat /\ gen' >= gen
           /\ gen' = gen => \A q \in current \cup owed : Local(q) => q \in current' \cup owed'
<1>1. gen \in Nat /\ owed \subseteq Ids
    BY DEF RecallTypeOK
<1>2. CASE Local(r)
    <2>1. gen' = gen + 1 /\ owed' = {}
        BY <1>2 DEF Bumped, Local
    <2> QED BY <1>1, <2>1
<1>3. CASE ~ Local(r)
    <2>1. gen' = gen /\ owed' = owed
        BY <1>3 DEF Bumped, Local
    <2> QED BY <1>1, <1>3, <2>1
<1> QED BY <1>2, <1>3

LEMMA NoticedTyped ==
    ASSUME RecallTypeOK, current' \subseteq Ids, Noticed
    PROVE  lately \cup Readable' \subseteq lately' /\ lately' \subseteq Ids
    BY DEF RecallTypeOK, Noticed, Readable

LEMMA WritesKeep ==
    ASSUME RecallInv, Supersede \/ Forget \/ Relink \/ Pull
    PROVE  RecallInv'
<1>1. RecallTypeOK
    BY DEF RecallInv
<1>2. /\ current \subseteq Ids /\ owed \subseteq Ids /\ linked \in BOOLEAN /\ writes \in Nat /\ gen \in Nat
    BY <1>1 DEF RecallTypeOK
<1>3. /\ Noticed
      /\ writes' \in Nat /\ writes' # 0
      /\ UNCHANGED <<world, config, cache, cachegen, job, at, found, hits, guidance, block, jobs, failures>>
    BY <1>2 DEF Supersede, Forget, Relink, Pull, Write, memo
<1>4. /\ current' \subseteq Ids /\ linked' \in BOOLEAN
      /\ owed' \subseteq Ids /\ gen' \in Nat /\ gen' >= gen
      /\ gen' = gen => \A r \in current \cup owed : Local(r) => r \in current' \cup owed'
    <2>1. CASE Supersede
        <3>1. PICK r \in DOMAIN Successor \cap current : current' = (current \ {r}) \cup {Successor[r]} /\ Bumped(r)
            BY <2>1 DEF Supersede
        <3>2. linked' = linked
            BY <2>1 DEF Supersede
        <3>3. current' \subseteq Ids
            BY <1>2, <3>1, RecallAssumption
        <3>4. current \ {r} \subseteq current'
            BY <3>1
        <3> QED BY <1>1, <1>2, <3>1, <3>2, <3>3, <3>4, BumpedKeeps
    <2>2. CASE Forget
        <3>1. PICK r \in Forgettable \cap current : current' = current \ {r} /\ Bumped(r)
            BY <2>2 DEF Forget
        <3>2. linked' = linked
            BY <2>2 DEF Forget
        <3>3. current \ {r} \subseteq current' /\ current' \subseteq Ids
            BY <1>2, <3>1
        <3> QED BY <1>1, <1>2, <3>1, <3>2, <3>3, BumpedKeeps
    <2>3. CASE Relink
        <3>1. linked' = ~linked /\ UNCHANGED <<current, gen, owed>>
            BY <2>3 DEF Relink
        <3> QED BY <1>2, <3>1
    <2>4. CASE Pull
        <3>1. PICK r \in Forgettable \cap current : current' = current \ {r} /\ owed' = owed \cup {r}
            BY <2>4 DEF Pull
        <3>2. gen' = gen /\ linked' = linked
            BY <2>4 DEF Pull
        <3> QED BY <1>2, <3>1, <3>2
    <2> QED BY <2>1, <2>2, <2>3, <2>4
<1>5. lately \cup Readable' \subseteq lately' /\ lately' \subseteq Ids
    BY <1>1, <1>3, <1>4, NoticedTyped
<1> QED BY <1>3, <1>4, <1>5, WriteKeeps

LEMMA PullEndsKeeps == ASSUME RecallInv, PullEnds PROVE RecallInv'
<1>1. RecallTypeOK /\ Noted
    BY DEF RecallInv
<1>2. /\ owed' = {} /\ gen' = gen + 1
      /\ UNCHANGED <<world, config, current, linked, cache, cachegen, job, at, found, hits, guidance, block, lately, jobs, writes, failures>>
    BY DEF PullEnds, memo, recallCounts
<1>3. gen \in Nat /\ writes \in Nat /\ current \subseteq Ids /\ linked \in BOOLEAN
    BY <1>1 DEF RecallTypeOK
<1>4. lately \subseteq Ids /\ (at # "idle" => Readable \subseteq lately)
    BY <1>1 DEF RecallTypeOK, Noted
<1>5. Readable' = Readable
    BY <1>2 DEF Readable
<1> QED BY <1>2, <1>3, <1>4, <1>5, WriteKeeps

-----------------------------------------------------------------------------
\* The specification.

LEMMA RecallInvStarts == RecallInit => RecallInv
<1> SUFFICES ASSUME RecallInit PROVE RecallInv
    OBVIOUS
<1>1. /\ world \in Worlds /\ config \in Configs
      /\ current = Ids \ {Successor[r] : r \in DOMAIN Successor}
      /\ gen = 0 /\ owed = {} /\ linked \in BOOLEAN
      /\ cache = << >> /\ cachegen = Nothing
      /\ job = NoJob /\ at = "idle" /\ found = NothingFound
      /\ hits = << >> /\ guidance = << >> /\ block = NoBlock /\ lately = {}
      /\ jobs = 0 /\ writes = 0 /\ failures = 0
    BY DEF RecallInit, NoHits
<1>2. Members(<< >>) = {} /\ Gathered = {}
    BY <1>1 DEF Members, Gathered, NothingFound
<1>3. RecallTypeOK
    <2>1. \A S : << >> \in Seq(S)
        OBVIOUS
    <2>2. Len(<< >>) <= CacheSize /\ cache \in Seq([scope : Askers, query : Queries, hits : Seq(Hits), blind : BOOLEAN])
        BY <1>1, RecallAssumption, <2>1
    <2>3. block \in [session : Askers \cup {Nothing}, rows : Seq(Ids), guidance : Seq(Ids), blind : BOOLEAN, owed : SUBSET Ids]
        BY <1>1 DEF NoBlock
    <2>4. job \in [session : Askers \cup {Nothing}, query : Queries \cup {Nothing}]
        BY <1>1 DEF NoJob
    <2>5. \A leg \in DOMAIN found : found[leg] \in Seq(Ids)
        BY <1>1 DEF NothingFound
    <2>6. hits \in Seq(Hits) /\ guidance \in Seq(Ids)
        BY <1>1, <2>1
    <2>7. at \in Steps /\ {jobs, writes, failures} \subseteq Nat
        BY <1>1 DEF Steps
    <2> QED BY <1>1, <2>2, <2>3, <2>4, <2>5, <2>6, <2>7 DEF RecallTypeOK
<1>4. Asked
    BY <1>1 DEF Asked
<1>5. Shown /\ Noted
    BY <1>1, <1>2 DEF Shown, Noted, Blending
<1>6. Dated
    <2>1. cachegen \notin Nat /\ cachegen # gen
        BY <1>1, RecallAssumption
    <2> QED BY <1>1, <1>2, <2>1 DEF Dated
<1>7. NothingForeign /\ Fresh /\ LinkedHeard
    BY <1>1, <1>2 DEF NothingForeign, Fresh, LinkedHeard, NoBlock
<1> QED BY <1>3, <1>4, <1>5, <1>6, <1>7 DEF RecallInv

LEMMA RecallInvStep == RecallInv /\ [RecallNext]_recallVars => RecallInv'
<1> SUFFICES ASSUME RecallInv, [RecallNext]_recallVars PROVE RecallInv'
    OBVIOUS
<1>1. CASE Retrieval
    <2>1. ASSUME NEW s \in Askers, NEW q \in Queries, TakeJob(s, q) PROVE RecallInv'
        BY <2>1, TakeKeeps
    <2>2. CASE FullText \/ Vectors \/ Graph \/ Facts \/ Reinforced \/ Recent
        BY <2>2, LegsKeep
    <2>3. CASE Lookup
        BY <2>3, LookupKeeps
    <2>4. CASE Fuse
        BY <2>4, FuseKeeps
    <2>5. CASE Refetch
        BY <2>5, RefetchKeeps
    <2>6. CASE Link
        BY <2>6, LinkKeeps
    <2>7. CASE Finish
        BY <2>7, FinishKeeps
    <2> QED BY <1>1, <2>1, <2>2, <2>3, <2>4, <2>5, <2>6, <2>7 DEF Retrieval
<1>2. CASE Supersede \/ Forget \/ Relink \/ Pull
    BY <1>2, WritesKeep
<1>3. CASE PullEnds
    BY <1>3, PullEndsKeeps
<1>4. CASE UNCHANGED recallVars
    <2>1. UNCHANGED <<world, config, current, gen, owed, linked, cache, cachegen, job, at, found, hits, guidance, block, lately, jobs, writes, failures>>
        BY <1>4 DEF recallVars, data, memo, recallCounts
    <2>2. RecallTypeOK' /\ Asked' /\ Shown' /\ Noted' /\ Dated'
        <3>1. /\ Gathered' = Gathered /\ RowsOf(hits)' = RowsOf(hits) /\ Members(cache)' = Members(cache)
              /\ Members(guidance)' = Members(guidance) /\ Readable' = Readable
            BY <2>1 DEF Gathered, RowsOf, Members, Readable
        <3>2. RecallTypeOK' /\ Asked'
            BY <2>1 DEF RecallInv, RecallTypeOK, Asked
        <3>3. Shown' /\ Noted'
            BY <2>1, <3>1 DEF RecallInv, Shown, Noted
        <3>4. Dated'
            BY <2>1, <3>1 DEF RecallInv, Dated
        <3> QED BY <3>2, <3>3, <3>4
    <2>3. NothingForeign' /\ Fresh'
        BY <2>1 DEF RecallInv, NothingForeign, Fresh
    <2>4. LinkedHeard'
        BY <2>1 DEF RecallInv, LinkedHeard, Asks, Remote, Members
    <2> QED BY <2>2, <2>3, <2>4 DEF RecallInv
<1> QED BY <1>1, <1>2, <1>3, <1>4 DEF RecallNext

\* The invariant holds whatever the rows, the answers of the indexes, the
\* identities of the sessions, the queries and the sizes are (_do_retrieve).
THEOREM RecallInvHolds == RecallSpec => []RecallInv
    BY RecallInvStarts, RecallInvStep, PTL DEF RecallSpec

\* By none of the legs, the guidance, the linked profile and the cache does a
\* row reach the block of a session it is not for.
THEOREM ForeignNever == RecallSpec => []NothingForeign
<1>1. RecallInv => NothingForeign
    BY DEF RecallInv
<1> QED BY <1>1, RecallInvHolds, PTL

\* A block holds only rows that a query could find since its retrieval began,
\* but for the answers put blind and the rows of a pull not yet announced.
THEOREM FreshHolds == RecallSpec => []Fresh
<1>1. RecallInv => Fresh
    BY DEF RecallInv
<1> QED BY <1>1, RecallInvHolds, PTL

\* What the owner's linked profile found is among the hits through the merge
\* and the reordering, or a hit of its uid is, whatever the local scores.
THEOREM LinkedHolds == RecallSpec => []LinkedHeard
<1>1. RecallInv => LinkedHeard
    BY DEF RecallInv
<1> QED BY <1>1, RecallInvHolds, PTL
=============================================================================
