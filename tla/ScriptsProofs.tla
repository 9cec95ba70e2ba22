------------------------------ MODULE ScriptsProofs ------------------------------
(***************************************************************************)
(* Proofs about three components of MCScripts: ShellTimers, for any list   *)
(* of timers, number of connections and chats; TclBinds, for any types,    *)
(* events, levels and number of binds; and TclTimers, for any cells of     *)
(* memory and number of timers and commands.                               *)
(***************************************************************************)
EXTENDS ShellTimers, TclBinds, TclTimers, FiniteSetTheorems, SequenceLemmas

------------------------------------------------------------------------------
(* The threads of shell.                                                      *)

\* The inductive invariant: what is alive will be stopped, while an ERROR is handled.
ThreadsInv ==
  /\ shellTimers \subseteq Timers /\ alive \in [Timers -> BOOLEAN]
  /\ thread \in [Timers -> {"none", "sleeps", "works", "over"}]
  /\ todo \in Seq(Timers) /\ joins \in BOOLEAN /\ quiet \in BOOLEAN
  /\ todo # << >> => why \in Stops
  /\ joins => todo # << >> /\ ~alive[Head(todo)]
  /\ why = "error" => \A t \in Timers : alive[t] => Has(todo, t)
  /\ ThreadHasTimer /\ QuietAfterError

\* At first there is no thread.
LEMMA ThreadsInit == ShellInit => ThreadsInv
<1> SUFFICES ASSUME ShellInit PROVE ThreadsInv
  OBVIOUS
<1>1. \A t \in Timers : ~Active(t)
  BY DEF ShellInit, Active
<1>2. todo \in Seq(Timers) /\ todo = << >> /\ ~joins /\ why # "error"
  BY DEF ShellInit
<1>3. /\ alive \in [Timers -> BOOLEAN] /\ thread \in [Timers -> {"none", "sleeps", "works", "over"}]
      /\ shellTimers \subseteq Timers /\ joins \in BOOLEAN /\ quiet \in BOOLEAN /\ strays = 0
  BY DEF ShellInit
<1> QED
  BY <1>1, <1>2, <1>3 DEF ThreadsInv, ThreadHasTimer, QuietAfterError

\* While the bot is free nothing is to be stopped, so that every thread is alive.
LEMMA FreeIsAlive ==
  ASSUME ThreadsInv, BotFree
  PROVE  /\ todo = << >> /\ joins = FALSE
         /\ \A t \in Timers : Active(t) => t \in shellTimers /\ alive[t]
  BY DEF ThreadsInv, BotFree, ThreadHasTimer, Stops

\* Timers that are not alive are started, and each gets one thread or none.
LEMMA StartKeeps ==
  ASSUME ThreadsInv, BotFree, NEW S \in SUBSET shellTimers, \A t \in S : ~alive[t], start(S),
         UNCHANGED <<shellTimers, todo, why, joins>>
  PROVE  ThreadsInv'
<1>1. PICK created \in SUBSET S :
        /\ alive' = [t \in Timers |-> alive[t] \/ t \in S]
        /\ thread' = [t \in Timers |-> IF t \in created THEN "sleeps" ELSE thread[t]]
        /\ strays' = strays + Cardinality({t \in created : Active(t)})
        /\ quiet' = FALSE
  BY Zenon DEF start
<1>2. S \subseteq Timers /\ {t \in created : Active(t)} = {}
  BY FreeIsAlive DEF ThreadsInv
<1>3. strays' = 0
  <2>1. Cardinality({t \in created : Active(t)}) = 0
    BY <1>2, FS_EmptySet
  <2> QED
    BY <1>1, <2>1 DEF ThreadsInv, ThreadHasTimer
<1>4. alive' \in [Timers -> BOOLEAN] /\ thread' \in [Timers -> {"none", "sleeps", "works", "over"}]
  BY <1>1 DEF ThreadsInv
<1>5. \A t \in Timers : Active(t)' => t \in shellTimers' /\ alive'[t]
  <2> SUFFICES ASSUME NEW t \in Timers, Active(t)'
               PROVE  t \in shellTimers' /\ alive'[t]
    OBVIOUS
  <2>1. alive'[t] <=> alive[t] \/ t \in S
    BY <1>1
  <2>2. CASE t \in created
    BY <2>1, <2>2
  <2>3. CASE t \notin created
    <3>1. thread'[t] = thread[t]
      BY <1>1, <2>3
    <3> QED
      BY <2>1, <3>1, FreeIsAlive DEF Active
  <2> QED
    BY <2>2, <2>3
<1> QED
  BY <1>1, <1>3, <1>4, <1>5, FreeIsAlive
     DEF ThreadsInv, ThreadHasTimer, QuietAfterError, BotFree, Stops

\* What is not about threads: the bot's own steps while it is free.
LEMMA IdleKeeps ==
  ASSUME ThreadsInv,
         UNCHANGED <<shellTimers, alive, thread, strays, todo, joins, quiet>>,
         \/ why' = why
         \/ todo = << >> /\ why' \notin Stops
  PROVE  ThreadsInv'
  BY DEF ThreadsInv, ThreadHasTimer, QuietAfterError, Active, Stops

\* The bot begins to stop timers.
LEMMA StopBegins ==
  ASSUME ThreadsInv, BotFree, todo' \in Seq(Timers), why' \in Stops,
         why' = "error" => \A t \in Timers : Has(todo', t),
         UNCHANGED <<shellTimers, alive, thread, strays, joins, quiet>>
  PROVE  ThreadsInv'
  BY FreeIsAlive DEF ThreadsInv, ThreadHasTimer, QuietAfterError, Active, Stops

\* The list of the configuration has every timer.
LEMMA OrderHasAll == ShellAssumption => Order \in Seq(Timers) /\ \A t \in Timers : Has(Order, t)
<1> SUFFICES ASSUME ShellAssumption PROVE Order \in Seq(Timers) /\ \A t \in Timers : Has(Order, t)
  OBVIOUS
<1>1. Timers = {Order[i] : i \in DOMAIN Order}
  BY DEF Timers, ToSet
<1> QED
  BY <1>1 DEF ShellAssumption, Timers, Has

\* One step of the walk: the first is not alive any more, then its thread is over.
LEMMA StopKeeps ==
  ASSUME ThreadsInv, stop
  PROVE  ThreadsInv'
<1> DEFINE h == Head(todo)
<1>1. h \in Timers /\ todo # << >> /\ joins' = TRUE
  BY SeqsClosed DEF stop, ThreadsInv
<1>2. alive' = [alive EXCEPT ![h] = FALSE]
  BY DEF stop
<1>3. alive' \in [Timers -> BOOLEAN] /\ ~alive'[h] /\ \A t \in Timers : t # h => alive'[t] = alive[t]
  BY <1>1, <1>2 DEF ThreadsInv
<1>4. \A t \in Timers : Active(t)' <=> Active(t)
  BY DEF stop, Active
<1>5. UNCHANGED <<shellTimers, thread, strays, todo, why, quiet>> /\ ~joins
  BY DEF stop
<1>6. ThreadHasTimer'
  BY <1>1, <1>3, <1>4, <1>5 DEF ThreadsInv, ThreadHasTimer
<1>7. QuietAfterError'
  BY <1>4, <1>5 DEF ThreadsInv, QuietAfterError
<1>8. why' = "error" => \A t \in Timers : alive'[t] => Has(todo', t)
  BY <1>1, <1>3, <1>5 DEF ThreadsInv
<1> QED
  BY <1>1, <1>3, <1>5, <1>6, <1>7, <1>8 DEF ThreadsInv

\* The thread of the first timer is over, or there was none: the next one.
LEMMA StoppedKeeps ==
  ASSUME ThreadsInv, Stopped
  PROVE  ThreadsInv'
<1> DEFINE h == Head(todo)
<1>1. h \in Timers /\ todo # << >> /\ todo' = Tail(todo) /\ todo' \in Seq(Timers) /\ joins' = FALSE
  BY SeqsClosed DEF Stopped, ThreadsInv
<1>2. UNCHANGED <<alive, strays, why, quiet>> /\ why \in Stops
  BY DEF Stopped
<1>3. ~Active(h) /\ ~alive[h]
  BY <1>1 DEF Stopped, Active, ThreadsInv, ThreadHasTimer
<1>4. thread' = [thread EXCEPT ![h] = "none"]
  BY DEF Stopped
<1>5. /\ thread' \in [Timers -> {"none", "sleeps", "works", "over"}]
      /\ \A t \in Timers : Active(t)' <=> Active(t)
  BY <1>1, <1>3, <1>4 DEF ThreadsInv, Active
<1>6. shellTimers' \subseteq shellTimers /\ \A t \in shellTimers : t # h => t \in shellTimers'
  BY DEF Stopped
<1>7. ThreadHasTimer'
  <2>1. \A t \in Timers : Active(t) => t # h /\ t \in shellTimers /\ alive[t]
    BY <1>1, <1>3 DEF ThreadsInv, ThreadHasTimer
  <2> QED
    BY <1>2, <1>5, <1>6, <2>1 DEF ThreadsInv, ThreadHasTimer
<1>8. QuietAfterError'
  BY <1>2, <1>5 DEF ThreadsInv, QuietAfterError
<1>9. why' = "error" => \A t \in Timers : alive'[t] => Has(todo', t)
  <2>1. \A t : Has(todo, t) <=> h = t \/ Has(todo', t)
    BY <1>1, HasTail DEF ThreadsInv
  <2> QED
    BY <1>2, <1>3, <2>1 DEF ThreadsInv
<1> QED
  BY <1>1, <1>2, <1>5, <1>6, <1>7, <1>8, <1>9 DEF ThreadsInv

\* All have been stopped.
LEMMA StopEndsKeeps ==
  ASSUME ThreadsInv, StopEnds
  PROVE  ThreadsInv'
<1>1. todo = << >> /\ why' = "none" /\ quiet' = (quiet \/ why = "error")
      /\ UNCHANGED <<shellTimers, alive, thread, strays, todo, joins>>
  BY DEF StopEnds
<1>2. why = "error" => \A t \in Timers : ~Active(t)
  BY <1>1, HasNone DEF ThreadsInv, ThreadHasTimer
<1>3. (\A t \in Timers : ~Active(t)) => \A t \in Timers : ~Active(t)'
  BY <1>1 DEF Active
<1>4. QuietAfterError'
  BY <1>1, <1>2, <1>3 DEF ThreadsInv, QuietAfterError
<1>5. ThreadHasTimer'
  BY <1>1 DEF ThreadsInv, ThreadHasTimer, Active
<1> QED
  BY <1>1, <1>4, <1>5 DEF ThreadsInv

\* A thread goes on or ends; none begins.
LEMMA ThreadKeeps ==
  ASSUME ThreadsInv, NEW t \in Timers, Active(t), NEW s \in {"sleeps", "works", "over"},
         thread' = [thread EXCEPT ![t] = s],
         UNCHANGED <<shellTimers, alive, strays, todo, why, joins, quiet>>
  PROVE  ThreadsInv'
<1>1. /\ thread' \in [Timers -> {"none", "sleeps", "works", "over"}]
      /\ \A u \in Timers : Active(u)' => Active(u)
  BY DEF ThreadsInv, Active
<1>2. ThreadHasTimer' /\ QuietAfterError'
  BY <1>1 DEF ThreadsInv, ThreadHasTimer, QuietAfterError
<1> QED
  BY <1>1, <1>2 DEF ThreadsInv

\* Every step.
LEMMA ThreadsStep ==
  ASSUME ShellAssumption, ThreadsInv, ShellNext
  PROVE  ThreadsInv'
<1>1. CASE Connect \/ Line \/ Chats \/ irc_restart
  <2>1. UNCHANGED <<shellTimers, alive, thread, strays, todo, joins, quiet, why>>
    BY <1>1 DEF Connect, Line, Chats, irc_restart, stopVars
  <2> QED
    BY <2>1, IdleKeeps
<1>2. CASE shell_reply
  <2> DEFINE S == {t \in FLAGS_START \cap shellTimers : ~alive[t]}
  <2>1. BotFree /\ start(S) /\ UNCHANGED <<shellTimers, todo, why, joins>>
    BY <1>2 DEF shell_reply, stopVars
  <2>2. S \in SUBSET shellTimers /\ \A t \in S : ~alive[t]
    OBVIOUS
  <2> HIDE DEF S
  <2> QED
    BY <2>1, <2>2, StartKeeps
<1>3. CASE cmd_timer_start
  <2>1. PICK t \in shellTimers : ~alive[t] /\ start({t})
    BY <1>3 DEF cmd_timer_start
  <2>2. BotFree /\ UNCHANGED <<shellTimers, todo, why, joins>>
    BY <1>3 DEF cmd_timer_start, stopVars
  <2>3. {t} \in SUBSET shellTimers /\ \A u \in {t} : ~alive[u]
    BY <2>1
  <2> QED
    BY <2>1, <2>2, <2>3, StartKeeps
<1>4. CASE cmd_timer_stop
  <2>1. /\ BotFree /\ why' = "command" /\ UNCHANGED <<shellTimers, alive, thread, strays, joins, quiet>>
        /\ \E t \in shellTimers : todo' = << t >>
    BY <1>4 DEF cmd_timer_stop
  <2>2. todo' \in Seq(Timers)
    BY <2>1 DEF ThreadsInv
  <2> QED
    BY <2>1, <2>2, StopBegins DEF Stops
<1>5. CASE shell_event
  <2>1. /\ BotFree /\ why' = "error" /\ todo' = Order
        /\ UNCHANGED <<shellTimers, alive, thread, strays, joins, quiet>>
    BY <1>5 DEF shell_event
  <2> QED
    BY <2>1, StopBegins, OrderHasAll DEF Stops
<1>6. CASE shell_stop
  <2>1. /\ BotFree /\ why' = "unload" /\ todo' = Order
        /\ UNCHANGED <<shellTimers, alive, thread, strays, joins, quiet>>
    BY <1>6 DEF shell_stop
  <2> QED
    BY <2>1, StopBegins, OrderHasAll DEF Stops
<1>7. CASE shell_cmd \/ shell_cmd_ends
  <2>1. /\ UNCHANGED <<shellTimers, alive, thread, strays, todo, joins, quiet>>
        /\ why' \notin Stops /\ why \notin Stops
    BY <1>7 DEF shell_cmd, shell_cmd_ends, BotFree, Stops
  <2>2. todo = << >>
    BY <2>1 DEF ThreadsInv
  <2> QED
    BY <2>1, <2>2, IdleKeeps
<1>8. CASE \E t \in Timers : Wake(t) \/ SendText(t) \/ Finish(t) \/ Cancelled(t)
  <2>1. PICK t \in Timers : Wake(t) \/ SendText(t) \/ Finish(t) \/ Cancelled(t)
    BY <1>8
  <2>2. UNCHANGED <<shellTimers, alive, strays, todo, why, joins, quiet>>
    BY <2>1 DEF Wake, SendText, Finish, Cancelled, botVars
  <2>3. CASE SendText(t)
    BY <2>2, <2>3, IdleKeeps DEF SendText
  <2>4. CASE Wake(t)
    BY <2>2, <2>4, ThreadKeeps DEF Wake, Active
  <2>5. CASE Finish(t)
    <3>1. PICK s \in {"sleeps", "works", "over"} : thread' = [thread EXCEPT ![t] = s]
      BY <2>5 DEF Finish
    <3> QED
      BY <2>2, <2>5, <3>1, ThreadKeeps DEF Finish, Active
  <2>6. CASE Cancelled(t)
    BY <2>2, <2>6, ThreadKeeps DEF Cancelled
  <2> QED
    BY <2>1, <2>3, <2>4, <2>5, <2>6
<1> QED
  BY <1>1, <1>2, <1>3, <1>4, <1>5, <1>6, <1>7, <1>8, StopKeeps, StoppedKeeps, StopEndsKeeps
     DEF ShellNext

(* Whatever order connections, ERRORs, !timer and the threads come in, with    *)
(* any number of timers: each thread is that of one timer that is there and    *)
(* alive, and after an ERROR there is none (shell.cpp shell_reply, shell_event, *)
(* timer_type::stop).                                                          *)
THEOREM ThreadsStop == ShellSpec => []ThreadsAreStopped
<1>1. ThreadsInv /\ [ShellNext]_shellVars => ThreadsInv'
  <2>1. ThreadsInv /\ UNCHANGED shellVars => ThreadsInv'
    BY IdleKeeps DEF shellVars
  <2> QED
    BY <2>1, ShellAssumption, ThreadsStep
<1>2. ThreadsInv => ThreadsAreStopped
  BY DEF ThreadsInv, ThreadsAreStopped
<1> QED
  BY <1>1, <1>2, ThreadsInit, PTL DEF ShellSpec

------------------------------------------------------------------------------
(* The binds of tcl.                                                          *)

\* What bind_del does from the list's head on.
Deletes(g, type, command) ==
  /\ g[0] = << >> /\ Rest(type, command) = g[Len(binds)]
  /\ \A k \in 1..Len(binds) : g[k] = g[k - 1] \/ g[k] = Append(g[k - 1], binds[k])

LEMMA RestIs ==
  ASSUME NEW S, binds \in Seq(S), NEW type, NEW command
  PROVE  \E g : Deletes(g, type, command)
<1> DEFINE n == Len(binds)
           Goes(k) == binds[k].type = type /\ binds[k].command = command
           Body(g, k) == IF k = 0 THEN << >>
                         ELSE IF Goes(k) THEN g[k - 1] ELSE Append(g[k - 1], binds[k])
           Runs(g) == g = [k \in 0..n |-> Body(g, k)]
           rest == CHOOSE g : Runs(g)
<1>1. Rest(type, command) = rest[n]
  BY DEF Rest
<1>2. n \in Nat /\ \A k \in 1..n : binds[k] \in S
  OBVIOUS
<1>3. \E g : Runs(g)
  <2> DEFINE step == [k \in 1..n |-> [s \in Seq(S) |-> IF Goes(k) THEN s ELSE Append(s, binds[k])]]
  <2>1. << >> \in Seq(S) /\ step \in [1..n -> [Seq(S) -> Seq(S)]]
    BY <1>2
  <2>2. \A k \in 1..n : \A s \in Seq(S) :
          /\ Goes(k) => step[k][s] = s
          /\ ~Goes(k) => step[k][s] = Append(s, binds[k])
    OBVIOUS
  <2> HIDE DEF step, Goes, n
  <2> DEFINE V == Seq(S)
             v == << >>
  <2>11. n \in Nat /\ v \in V /\ step \in [1..n -> [V -> V]]
    BY <1>2, <2>1
  <2> HIDE DEF V, v
  <2>3. PICK g : Stepwise(g, V, v, n, step)
    BY <2>11, StepsExist
  <2>12. g[0] = << >> /\ g \in [0..n -> V] /\ \A k \in 1..n : g[k] = step[k][g[k - 1]]
    BY <2>3 DEF v, Stepwise
  <2>4. \A k \in 1..n : g[k - 1] \in Seq(S)
    BY <1>2, <2>12 DEF V
  <2>5. \A k \in 1..n : g[k] = IF Goes(k) THEN g[k - 1] ELSE Append(g[k - 1], binds[k])
    BY <2>2, <2>12, <2>4
  <2>6. \A k \in 0..n : g[k] = Body(g, k)
    <3>1. ASSUME NEW k \in 0..n PROVE g[k] = Body(g, k)
      <4>1. CASE k = 0
        BY <2>12, <4>1
      <4>2. CASE k # 0
        <5>1. k \in 1..n
          BY <4>2
        <5> QED
          BY <2>5, <4>2, <5>1
      <4> QED
        BY <4>1, <4>2
    <3> QED
      BY <3>1
  <2> HIDE DEF Body
  <2>7. g = [k \in 0..n |-> g[k]]
    BY <2>12
  <2> QED
    BY <2>6, <2>7
<1>4. Runs(rest)
  BY <1>3, Zenon
<1> HIDE DEF rest, Goes
<1>5. \A k \in 0..n : rest[k] = Body(rest, k)
  <2> HIDE DEF Body
  <2>1. \A g : Runs(g) => \A k \in 0..n : g[k] = Body(g, k)
    OBVIOUS
  <2> HIDE DEF Runs
  <2> QED
    BY <1>4, <2>1
<1>6. rest[0] = << >>
  BY <1>2, <1>5
<1>7. ASSUME NEW k \in 1..n PROVE rest[k] = rest[k - 1] \/ rest[k] = Append(rest[k - 1], binds[k])
  <2>1. k # 0 /\ k \in 0..n
    OBVIOUS
  <2> QED
    BY <1>5, <2>1
<1> QED
  BY <1>1, <1>6, <1>7 DEF Deletes

\* What bind_del leaves is a part of the list.
LEMMA RestIsList ==
  ASSUME NEW S, binds \in Seq(S), NEW type, NEW command
  PROVE  Rest(type, command) \in Seq(S)
<1>1. PICK g : Deletes(g, type, command)
  BY RestIs
<1> DEFINE n == Len(binds)
           V == Seq(S)
<1>2. n \in Nat /\ g[0] \in V
  BY <1>1 DEF Deletes
<1>3. ASSUME NEW k \in 1..n, g[k - 1] \in V PROVE g[k] \in V
  <2>1. binds[k] \in S
    OBVIOUS
  <2>2. Append(g[k - 1], binds[k]) \in V
    BY <1>3, <2>1
  <2> QED
    BY <1>1, <1>3, <2>2 DEF Deletes
<1> HIDE DEF n, V
<1>4. \A k \in 0..n : g[k] \in V
  BY <1>2, <1>3, StaysIn
<1> QED
  BY <1>1, <1>2, <1>4 DEF Deletes, n, V

\* Each bind has a greater number than those behind it.
NewerFirst(list) == \A i, k \in DOMAIN list : i < k => list[i].id > list[k].id

\* What the deletions of bind_del leave before the k-th bind: in order, and newer than the
\* binds from there on.
InOrder(k) ==
  {list \in Seq(Bind) : NewerFirst(list) /\
     \A i \in DOMAIN list : \A m \in DOMAIN binds : m > k => list[i].id > binds[m].id}

LEMMA RestKeepsOrder ==
  ASSUME binds \in Seq(Bind), NewerFirst(binds), NEW type, NEW command
  PROVE  NewerFirst(Rest(type, command))
<1>1. PICK g : Deletes(g, type, command)
  BY RestIs
<1> DEFINE n == Len(binds)
           out == {k \in 0..n : g[k] \notin InOrder(k)}
<1>2. n \in Nat /\ g[0] \in InOrder(0)
  BY <1>1 DEF Deletes, InOrder, NewerFirst
<1>3. ASSUME NEW k \in 1..n, g[k - 1] \in InOrder(k - 1) PROVE g[k] \in InOrder(k)
  <2> DEFINE list == g[k - 1]
             b == binds[k]
             more == Append(list, b)
  <2>1. b \in Bind /\ b.id \in Nat /\ \A m \in DOMAIN binds : m > k => b.id > binds[m].id
    <3>1. k \in DOMAIN binds /\ b \in Bind
      OBVIOUS
    <3>2. \A x \in Bind : x.id \in Nat
      BY DEF Bind
    <3> QED
      BY <3>1, <3>2 DEF NewerFirst
  <2>2. list \in Seq(Bind) /\ NewerFirst(list)
        /\ \A i \in DOMAIN list : \A m \in DOMAIN binds : m > k - 1 => list[i].id > binds[m].id
    BY <1>3 DEF InOrder
  <2>3. \A i \in DOMAIN list : list[i].id > b.id
    BY <2>2
  <2>4. list \in InOrder(k)
    BY <2>2 DEF InOrder
  <2> HIDE DEF list, b
  <2>5. more \in Seq(Bind) /\ Len(more) = Len(list) + 1 /\ Len(list) \in Nat
        /\ \A i \in DOMAIN more : more[i] = IF i <= Len(list) THEN list[i] ELSE b
    BY <2>1, <2>2
  <2>6. NewerFirst(more)
    <3>1. SUFFICES ASSUME NEW i \in DOMAIN more, NEW j \in DOMAIN more, i < j
                   PROVE  more[i].id > more[j].id
      BY DEF NewerFirst
    <3>2. i \in DOMAIN list /\ more[i] = list[i]
      BY <2>2, <2>5, <3>1
    <3>3. CASE j <= Len(list)
      <4>1. j \in DOMAIN list /\ more[j] = list[j]
        BY <2>2, <2>5, <3>3
      <4> QED
        BY <2>2, <3>1, <3>2, <4>1 DEF NewerFirst
    <3>4. CASE ~(j <= Len(list))
      BY <2>3, <2>5, <3>2, <3>4
    <3> QED
      BY <3>3, <3>4
  <2>7. ASSUME NEW i \in DOMAIN more, NEW m \in DOMAIN binds, m > k PROVE more[i].id > binds[m].id
    <3>1. CASE i <= Len(list)
      <4>1. i \in DOMAIN list /\ more[i] = list[i]
        BY <2>2, <2>5, <3>1
      <4> QED
        BY <2>4, <2>7, <4>1 DEF InOrder
    <3>2. CASE ~(i <= Len(list))
      BY <2>1, <2>5, <2>7, <3>2
    <3> QED
      BY <3>1, <3>2
  <2>8. more \in InOrder(k)
    BY <2>5, <2>6, <2>7 DEF InOrder
  <2>9. g[k] = list \/ g[k] = more
    BY <1>1 DEF Deletes, list, b
  <2> QED
    BY <2>4, <2>8, <2>9
<1>4. SUFFICES ASSUME out # {} PROVE FALSE
  <2>1. n \in 0..n /\ (out = {} => g[n] \in InOrder(n))
    BY <1>2
  <2> QED
    BY <1>1, <1>4, <2>1 DEF Deletes, InOrder
<1> HIDE DEF n
<1>5. PICK j \in out : \A x \in out : j <= x
  <2>1. out \in SUBSET Nat
    BY <1>2
  <2> QED
    BY <1>4, <2>1, LeastExists
<1>6. j \in 1..n /\ j - 1 \in 0..n /\ ~(j <= j - 1)
  BY <1>2, <1>5
<1> QED
  BY <1>3, <1>5, <1>6

\* The inductive invariant: what is behind the cursor was there when the walk began and has
\* not been called, and what is before it has been called if it had to be.
Older == {b \in Bind : b.id < made}

\* The walk is at a place of the list.
AtPlace ==
  /\ binds \in Seq(Older) /\ current \in 0..Len(binds) /\ made \in Nat
  /\ calling => (current >= 1 \/ emptied) /\ pass # "idle"

FutureIsUncalled ==
  /\ again = {} /\ called \subseteq 0..(made - 1)
  /\ \A k \in DOMAIN binds : k > current => binds[k].id \notin called

FutureIsOld == emptied \/ \A k \in DOMAIN binds : k > current => binds[k].id \in atStart

PastIsCalled ==
  ended \/ rebound \/ \A k \in DOMAIN binds :
    k <= current /\ binds[k].id \in atStart /\ Matches(binds[k]) => binds[k].id \in called

BindsInv ==
  /\ AtPlace /\ NewerFirst(binds) /\ calling \in BOOLEAN
  /\ emptied \in BOOLEAN /\ rebound \in BOOLEAN /\ ended \in BOOLEAN /\ (emptied => rebound)
  /\ pass # "idle" =>
       /\ atStart \subseteq 0..(made - 1) /\ (called \subseteq atStart \/ emptied)
       /\ FutureIsOld /\ FutureIsUncalled /\ PastIsCalled

\* At first there is no bind.
LEMMA BindsStart == BindsInit => BindsInv
<1> SUFFICES ASSUME BindsInit PROVE BindsInv
  OBVIOUS
<1>1. binds = << >> /\ << >> \in Seq(Older)
  BY DEF BindsInit
<1>2. AtPlace
  BY <1>1 DEF BindsInit, AtPlace
<1>3. NewerFirst(<< >>)
  BY DEF NewerFirst
<1> QED
  BY <1>1, <1>2, <1>3 DEF BindsInit, BindsInv

\* What a list with a bind in front has at its places.
LEMMA InFront ==
  ASSUME NEW S, NEW list \in Seq(S), NEW b \in S
  PROVE  /\ <<b>> \o list \in Seq(S) /\ Len(<<b>> \o list) = Len(list) + 1
         /\ \A k \in DOMAIN (<<b>> \o list) :
              (<<b>> \o list)[k] = (IF k = 1 THEN b ELSE list[k - 1]) /\ (k # 1 => k - 1 \in DOMAIN list)
  OBVIOUS

\* A new walk has everything behind its cursor.
LEMMA BeginKeeps ==
  ASSUME BindsInv, NEW p, Begin(p), UNCHANGED <<binds, calling, made, ended>>, ~calling
  PROVE  BindsInv'
<1>1. /\ current' = 0 /\ atStart' = Ids(binds) /\ called' = {} /\ rebound' = FALSE /\ emptied' = FALSE /\ again' = {}
      /\ binds' = binds /\ made' = made /\ calling' = calling /\ ended' = ended
  BY DEF Begin
<1>2. binds \in Seq(Older) /\ made \in Nat /\ \A k \in DOMAIN binds : binds[k] \in Older /\ k > 0
  BY DEF BindsInv, AtPlace
<1>3. atStart' \subseteq 0..(made' - 1)
  BY <1>1, <1>2 DEF Ids, Older, Bind
<1>4. \A k \in DOMAIN binds : binds[k].id \in atStart'
  BY <1>1 DEF Ids
<1>5. Older' = Older
  BY <1>1 DEF Older
<1>6. \A k \in DOMAIN binds : ~(k <= current')
  BY <1>1, <1>2
<1>7. AtPlace'
  BY <1>1, <1>2, <1>5 DEF AtPlace, BindsInv
<1>8. FutureIsOld' /\ FutureIsUncalled' /\ PastIsCalled'
  BY <1>1, <1>4, <1>6 DEF FutureIsOld, FutureIsUncalled, PastIsCalled
<1> QED
  BY <1>1, <1>3, <1>7, <1>8 DEF BindsInv

\* A bind comes in front, and the cursor moves with the one it was at.
LEMMA BindKeeps ==
  ASSUME BindsInv, tcl_proc_bind
  PROVE  BindsInv'
<1>1. PICK t \in Types, l \in Levels, c \in Commands :
        LET b == [id |-> made, type |-> t, level |-> l, command |-> c] IN
          IF t \in NotStackable
            THEN /\ bind_add(Rest(t, c), Len(Rest(t, c)), b)
                 /\ rebound' = TRUE
                 /\ emptied' = (emptied \/ Rest(t, c) = << >>)
            ELSE /\ bind_add(binds, current, b)
                 /\ UNCHANGED <<rebound, emptied>>
  BY DEF tcl_proc_bind
<1> DEFINE b == [id |-> made, type |-> t, level |-> l, command |-> c]
           rest == Rest(t, c)
<1>2. /\ made' = made + 1 /\ made \in Nat /\ (calling \/ pass = "idle")
      /\ UNCHANGED <<pass, event, level, text, calling, ended, atStart, called, again>>
  BY DEF tcl_proc_bind, BindsInv, AtPlace
<1>3. b \in Older' /\ b.id = made
  BY <1>2 DEF Bind, Older
<1>4. \A S : \A s \in Seq(S) : S \subseteq Older' => s \in Seq(Older')
  OBVIOUS
<1>5. binds \in Seq(Older) /\ Older \subseteq Older' /\ binds \in Seq(Older') /\ Len(binds) \in Nat
  <2>1. Older \subseteq Older'
    BY <1>2 DEF Older, Bind
  <2> QED
    BY <1>4, <2>1 DEF BindsInv, AtPlace
<1>6. rest \in Seq(Older') /\ rest \in Seq(Older) /\ NewerFirst(rest)
  <2>1. binds \in Seq(Older) /\ binds \in Seq(Bind)
    BY DEF BindsInv, AtPlace, Older
  <2> QED
    BY <1>5, <2>1, RestIsList, RestKeepsOrder DEF BindsInv
<1> HIDE DEF b, rest
<1>7. pass # "idle" => made \notin atStart /\ atStart' \subseteq 0..(made' - 1)
  BY <1>2 DEF BindsInv
<1>8. \A x : Matches(x)' <=> Matches(x)
  BY <1>2 DEF Matches
<1>11. ASSUME NEW list \in Seq(Older), NewerFirst(list) PROVE NewerFirst(<<b>> \o list)
  <2> DEFINE more == <<b>> \o list
  <2>1. Len(more) = Len(list) + 1 /\ Len(list) \in Nat /\ DOMAIN more = 1..(Len(list) + 1)
        /\ \A k \in DOMAIN more : more[k] = (IF k = 1 THEN b ELSE list[k - 1]) /\ (k # 1 => k - 1 \in DOMAIN list)
    BY <1>3, <1>5, <1>11, InFront
  <2> HIDE DEF more
  <2>2. SUFFICES ASSUME NEW i \in DOMAIN more, NEW j \in DOMAIN more, i < j PROVE more[i].id > more[j].id
    BY DEF NewerFirst, more
  <2>3. j # 1 /\ j - 1 \in DOMAIN list /\ more[j] = list[j - 1] /\ list[j - 1] \in Older
    BY <2>1, <2>2
  <2>4. CASE i = 1
    BY <1>2, <1>3, <2>1, <2>3, <2>4 DEF Older, Bind
  <2>5. CASE i # 1
    <3>1. i - 1 \in DOMAIN list /\ more[i] = list[i - 1] /\ i - 1 < j - 1
      BY <2>1, <2>2, <2>5
    <3> QED
      BY <1>11, <2>3, <3>1 DEF NewerFirst
  <2> QED
    BY <2>4, <2>5
<1>12. pass # "idle" => again' = {} /\ made \notin called /\ called' \subseteq 0..(made' - 1)
  BY <1>2 DEF BindsInv, FutureIsUncalled
<1>9. CASE t \in NotStackable
  <2>1. /\ binds' = <<b>> \o rest /\ current' = (IF Len(rest) = 0 THEN 0 ELSE Len(rest) + 1)
        /\ rebound' = TRUE /\ emptied' = (emptied \/ rest = << >>)
    BY <1>1, <1>9 DEF bind_add, b, rest
  <2>2. binds' \in Seq(Older') /\ Len(binds') = Len(rest) + 1 /\ Len(rest) \in Nat
    BY <1>3, <1>6, <2>1, InFront
  <2>3. Len(rest) = 0 <=> rest = << >>
    BY <1>6
  <2>4. AtPlace'
    <3>1. current' \in 0..Len(binds') /\ (current' >= 1 \/ emptied')
      <4>1. CASE rest = << >>
        <5>1. Len(rest) = 0 /\ emptied'
          BY <2>1, <2>3, <4>1
        <5> QED
          BY <2>1, <2>2, <5>1
      <4>2. CASE rest # << >>
        BY <2>1, <2>2, <2>3, <4>2
      <4> QED
        BY <4>1, <4>2
    <3>2. made' \in Nat /\ (calling' => pass' # "idle")
      BY <1>2 DEF BindsInv, AtPlace
    <3> QED
      BY <2>2, <3>1, <3>2 DEF AtPlace
  <2>5. FutureIsOld'
    <3>1. CASE rest = << >>
      BY <2>1, <3>1 DEF FutureIsOld
    <3>2. CASE rest # << >>
      BY <2>1, <2>2, <2>3, <3>2 DEF FutureIsOld
    <3> QED
      BY <3>1, <3>2
  <2>6. PastIsCalled'
    BY <2>1 DEF PastIsCalled
  <2>8. pass # "idle" => FutureIsUncalled'
    <3>1. CASE rest = << >>
      <4>1. Len(rest) = 0 /\ DOMAIN binds' = 1..1 /\ binds'[1] = b
        BY <2>1, <2>2, <2>3, <3>1
      <4> QED
        BY <1>2, <1>3, <1>12, <4>1 DEF FutureIsUncalled
    <3>2. CASE rest # << >>
      <4>1. \A k \in DOMAIN binds' : ~(k > current')
        BY <2>1, <2>2, <2>3, <3>2
      <4> QED
        BY <1>12, <4>1 DEF FutureIsUncalled
    <3> QED
      BY <3>1, <3>2
  <2>9. NewerFirst(binds')
    BY <1>6, <1>11, <2>1
  <2>7. emptied' \in BOOLEAN /\ rebound' \in BOOLEAN /\ (emptied => emptied')
        /\ (emptied' => rebound')
    BY <2>1 DEF BindsInv
  <2> QED
    BY <1>2, <1>7, <2>4, <2>5, <2>6, <2>7, <2>8, <2>9 DEF BindsInv
<1>10. CASE t \notin NotStackable
  <2>1. /\ binds' = <<b>> \o binds /\ current' = (IF current = 0 THEN 0 ELSE current + 1)
        /\ rebound' = rebound /\ emptied' = emptied
    BY <1>1, <1>10 DEF bind_add, b
  <2>2. /\ binds' \in Seq(Older') /\ Len(binds') = Len(binds) + 1
        /\ \A k \in DOMAIN binds' : binds'[k] = (IF k = 1 THEN b ELSE binds[k - 1]) /\ (k # 1 => k - 1 \in DOMAIN binds)
    BY <1>3, <1>5, <2>1, InFront
  <2>3. current' \in 0..Len(binds') /\ current \in Nat /\ (calling /\ ~emptied => current' = current + 1)
    BY <2>1, <2>2 DEF BindsInv, AtPlace
  <2>4. ASSUME pass # "idle", ~emptied, NEW k \in DOMAIN binds', k > current' PROVE binds'[k].id \in atStart
    <3>1. current' = current + 1 /\ k - 1 > current /\ k # 1 /\ current \in Nat
      BY <1>2, <2>2, <2>3, <2>4
    <3> QED
      BY <2>2, <2>4, <3>1 DEF BindsInv, FutureIsOld
  <2>5. ASSUME pass # "idle", ~ended, ~rebound,
               NEW k \in DOMAIN binds', k <= current', binds'[k].id \in atStart, Matches(binds'[k])
        PROVE  binds'[k].id \in called
    <3>1. k # 1
      BY <1>3, <1>7, <2>2, <2>5
    <3>2. k - 1 \in DOMAIN binds /\ binds'[k] = binds[k - 1] /\ k - 1 <= current
      BY <1>2, <1>5, <2>2, <2>3, <2>5, <3>1 DEF BindsInv
    <3> QED
      BY <2>5, <3>2 DEF BindsInv, PastIsCalled
  <2>6. AtPlace'
    <3>1. made' \in Nat /\ (calling' => pass' # "idle" /\ (current' >= 1 \/ emptied'))
      BY <1>2, <2>1, <2>3 DEF BindsInv, AtPlace
    <3> QED
      BY <2>2, <2>3, <3>1 DEF AtPlace
  <2>7. pass # "idle" => FutureIsOld' /\ PastIsCalled'
    BY <1>2, <1>8, <2>1, <2>4, <2>5 DEF FutureIsOld, PastIsCalled
  <2>8. ASSUME pass # "idle", NEW k \in DOMAIN binds', k > current' PROVE binds'[k].id \notin called
    <3>1. CASE k = 1
      BY <1>3, <1>12, <2>2, <2>8, <3>1
    <3>2. CASE k # 1
      <4>1. k - 1 \in DOMAIN binds /\ binds'[k] = binds[k - 1] /\ k - 1 > current
        BY <2>1, <2>2, <2>3, <2>8, <3>2
      <4> QED
        BY <2>8, <4>1 DEF BindsInv, FutureIsUncalled
    <3> QED
      BY <3>1, <3>2
  <2>9. pass # "idle" => FutureIsUncalled'
    BY <1>2, <1>12, <2>8 DEF FutureIsUncalled
  <2>10. NewerFirst(binds')
    BY <1>11, <2>1 DEF BindsInv, AtPlace
  <2> QED
    BY <1>2, <1>7, <2>1, <2>6, <2>7, <2>9, <2>10 DEF BindsInv
<1> QED
  BY <1>9, <1>10

\* The cursor goes on, and the bind is called if it matches.
LEMMA NextBindKeeps ==
  ASSUME BindsInv, NextBind
  PROVE  BindsInv'
<1> DEFINE b == binds[current + 1]
<1>1. /\ pass # "idle" /\ current + 1 \in DOMAIN binds /\ current' = current + 1 /\ current \in Nat
      /\ UNCHANGED <<binds, pass, event, level, text, made, atStart, rebound, emptied>> /\ ~ended /\ ~calling
  BY DEF NextBind, BindsInv, AtPlace
<1>2. \/ Matches(b) /\ b.type = "topc" /\ ended' = TRUE /\ UNCHANGED <<calling, called, again>>
      \/ /\ Matches(b) /\ calling' = TRUE /\ UNCHANGED ended
         /\ called' = called \cup {b.id} /\ again' = again \cup ({b.id} \cap called)
      \/ ~Matches(b) /\ UNCHANGED <<calling, called, again, ended>>
  BY DEF NextBind
<1>3. \A x : Matches(x)' <=> Matches(x)
  BY <1>1 DEF Matches
<1>4. Older' = Older
  BY <1>1 DEF Older
<1>5. called' \subseteq atStart \/ emptied
  BY <1>1, <1>2 DEF BindsInv, AtPlace, FutureIsOld
<1>6. called \subseteq called' /\ (~ended' /\ Matches(b) => b.id \in called')
  BY <1>2
<1>7. ended' \in BOOLEAN /\ calling' \in BOOLEAN
  BY <1>2 DEF BindsInv
<1>8. ASSUME ~ended', ~rebound, NEW k \in DOMAIN binds, k <= current', binds[k].id \in atStart, Matches(binds[k])
      PROVE  binds[k].id \in called'
  <2>1. k <= current \/ k = current + 1
    BY <1>1, <1>8 DEF BindsInv, AtPlace
  <2> QED
    BY <1>1, <1>6, <1>8, <2>1 DEF BindsInv, PastIsCalled
<1>9. FutureIsOld'
  BY <1>1 DEF BindsInv, AtPlace, FutureIsOld
<1>10. PastIsCalled'
  BY <1>1, <1>3, <1>8 DEF PastIsCalled
<1>11. AtPlace'
  BY <1>1, <1>4 DEF AtPlace, BindsInv
<1>12. FutureIsUncalled'
  <2>1. b \in Older /\ b.id \in 0..(made - 1) /\ b.id \notin called
    BY <1>1 DEF BindsInv, AtPlace, FutureIsUncalled, Older, Bind
  <2>2. \A k \in DOMAIN binds : k > current + 1 => binds[k].id # b.id
    BY <1>1, <2>1 DEF BindsInv, AtPlace, NewerFirst, Older, Bind
  <2>3. again' = {} /\ called' \subseteq called \cup {b.id}
    BY <1>1, <1>2, <2>1 DEF BindsInv, FutureIsUncalled
  <2> HIDE DEF b
  <2>4. \A k \in DOMAIN binds : k > current + 1 => k > current
    BY <1>1 DEF BindsInv, AtPlace
  <2> QED
    BY <1>1, <2>1, <2>2, <2>3, <2>4 DEF BindsInv, FutureIsUncalled
<1>13. NewerFirst(binds')
  BY <1>1 DEF BindsInv
<1> QED
  BY <1>1, <1>5, <1>7, <1>9, <1>10, <1>11, <1>12, <1>13 DEF BindsInv

\* Every step.
LEMMA BindsStep ==
  ASSUME BindsInv, BindsNext
  PROVE  BindsInv'
<1>1. CASE tcl_event
  <2>1. ~calling
    BY <1>1 DEF tcl_event, BindsInv, AtPlace
  <2> QED
    BY <1>1, <2>1, BeginKeeps DEF tcl_event
<1>2. CASE Return
  BY <1>2 DEF Return, BindsInv, AtPlace, FutureIsOld, FutureIsUncalled, NewerFirst, PastIsCalled, Older, Matches
<1>3. CASE Then /\ pass = "own"
  BY <1>3, BeginKeeps DEF Then, EndOfWalk
<1>4. CASE Then /\ pass # "own"
  BY <1>4 DEF Then, EndOfWalk, BindsInv, AtPlace, NewerFirst, Older
<1> QED
  BY <1>1, <1>2, <1>3, <1>4, BindKeeps, NextBindKeeps DEF BindsNext

(* However many binds there are, and whichever the procedures bind while they  *)
(* are called: tcl_event calls each bind that was there and matches, none      *)
(* twice, and none that came later, but for the two named cases in which a     *)
(* type that is not stackable is bound.                                        *)
THEOREM BindsCalled == BindsSpec => []EachBindIsCalled
<1>1. BindsInv /\ [BindsNext]_tclBindVars => BindsInv'
  <2>1. BindsInv /\ UNCHANGED tclBindVars => BindsInv'
    BY DEF tclBindVars, BindsInv, AtPlace, FutureIsOld, FutureIsUncalled, NewerFirst, PastIsCalled, Older, Matches
  <2> QED
    BY <2>1, BindsStep
<1>2. BindsInv => EachBindIsCalled
  <2>1. BindsInv => OnlyThoseThere
    BY DEF BindsInv, FutureIsUncalled, OnlyThoseThere
  <2>2. BindsInv => NoneIsSkipped
    BY DEF BindsInv, AtPlace, PastIsCalled, NoneIsSkipped, EndOfWalk
  <2> QED
    BY <2>1, <2>2 DEF EachBindIsCalled
<1> QED
  BY <1>1, <1>2, BindsStart, PTL DEF BindsSpec

------------------------------------------------------------------------------
(* The timers of tcl.                                                         *)

\* Types, as far as the proofs use them.
TimerTypes ==
  /\ timers \in Seq(Cells) /\ \A i, j \in DOMAIN timers : timers[i] = timers[j] => i = j
  /\ held \in [Cells -> Timer] /\ after \in [Cells -> Cells \cup {NoCell}]
  /\ buf \in Cells \cup {NoCell} /\ evaluates \in BOOLEAN /\ undefined \in BOOLEAN
  /\ timerseq \in 0..MaxTimers /\ time_now \in Nat /\ runs \in [TimerIds -> Nat]
  /\ due \subseteq 0..(timerseq - 1)
  /\ kinds \subseteq Kinds

\* The cells the program has a pointer to.
Live(c) == InList(c) \/ c = buf

CellsAreOwn ==
  /\ \A c \in Cells : Live(c) => held[c].id < timerseq /\ held[c].kind \in kinds
  /\ \A c, d \in Cells : InList(c) /\ Live(d) /\ held[c].id = held[d].id => c = d
  /\ evaluates => buf \in Cells /\ runs[held[buf].id] > 0
  /\ ~evaluates => buf = NoCell \/ InList(buf)

\* The walk will come to the k-th timer: it is not before the one it is at or, if that was
\* freed, before the one that this was followed by.
Comes(k) ==
  /\ buf # NoCell
  /\ \A j \in DOMAIN timers : timers[j] = buf => j <= k
  /\ ~InList(buf) =>
       /\ after[buf] # NoCell
       /\ \A j \in DOMAIN timers : timers[j] = after[buf] => j <= k

DueAhead ==
  \A k \in DOMAIN timers :
    held[timers[k]].id \in due /\ runs[held[timers[k]].id] = 0 =>
      held[timers[k]].time <= time_now /\ Comes(k)

\* As long as there is one kind of timers, none that was evaluated is left.
OneKind == \A x, y \in kinds : x = y
RunsOnce ==
  OneKind =>
    /\ \A i \in TimerIds : runs[i] <= 1 /\ (i >= timerseq => runs[i] = 0)
    /\ undefined \/ \A c \in Cells :
         InList(c) => runs[held[c].id] = 0 \/ (evaluates /\ c = buf)

WalkInv ==
  /\ TimerTypes /\ RunsOnce
  /\ undefined \/ (CellsAreOwn /\ NoneLost /\ DueAhead)

\* What is taken out of the list: the others move up.
LEMMA TakenOut ==
  ASSUME NEW S, NEW s \in Seq(S), NEW k \in DOMAIN s
  PROVE  /\ RemoveAt(s, k) \in Seq(S)
         /\ DOMAIN RemoveAt(s, k) = 1..(Len(s) - 1)
         /\ \A i \in 1..(Len(s) - 1) : i < k => RemoveAt(s, k)[i] = s[i] /\ i \in DOMAIN s
         /\ \A i \in 1..(Len(s) - 1) : i >= k => RemoveAt(s, k)[i] = s[i + 1] /\ i + 1 \in DOMAIN s
<1> DEFINE a == SubSeq(s, 1, k - 1)
           b == SubSeq(s, k + 1, Len(s))
<1>1. /\ a \in Seq(S) /\ Len(a) = k - 1 /\ \A i \in 1..(k - 1) : a[i] = s[i]
      /\ b \in Seq(S) /\ Len(b) = Len(s) - k /\ \A i \in 1..(Len(s) - k) : b[i] = s[k + i]
      /\ k \in 1..Len(s) /\ Len(s) \in Nat
  OBVIOUS
<1>2. RemoveAt(s, k) = a \o b
  BY DEF RemoveAt
<1> HIDE DEF a, b
<1>3. a \o b \in Seq(S) /\ DOMAIN (a \o b) = 1..(Len(s) - 1)
  BY <1>1
<1>4. ASSUME NEW i \in 1..(Len(s) - 1), i < k PROVE (a \o b)[i] = s[i] /\ i \in DOMAIN s
  <2>1. i \in 1..(k - 1)
    BY <1>4
  <2> QED
    BY <1>1, <2>1
<1>5. ASSUME NEW i \in 1..(Len(s) - 1), i >= k PROVE (a \o b)[i] = s[i + 1] /\ i + 1 \in DOMAIN s
  <2> DEFINE j == i - (k - 1)
  <2>1. j \in 1..(Len(s) - k) /\ i \in (Len(a) + 1)..(Len(a) + Len(b)) /\ k + j = i + 1 /\ j = i - Len(a)
    BY <1>1, <1>5
  <2>2. \A p, q \in Seq(S) : \A x \in (Len(p) + 1)..(Len(p) + Len(q)) : (p \o q)[x] = q[x - Len(p)]
    OBVIOUS
  <2>3. (a \o b)[i] = b[i - Len(a)]
    BY <1>1, <2>1, <2>2
  <2>4. (a \o b)[i] = b[j] /\ b[j] = s[k + j]
    BY <1>1, <2>1, <2>3
  <2>5. k + j = i + 1
    BY <2>1
  <2>6. i + 1 \in DOMAIN s
    BY <1>1
  <2> HIDE DEF j
  <2> QED
    BY <2>4, <2>5, <2>6
<1> QED
  BY <1>2, <1>3, <1>4, <1>5

\* What is listed has a place.
LEMMA PlaceIs ==
  ASSUME NEW c, InList(c)
  PROVE  PlaceOf(c) \in DOMAIN timers /\ timers[PlaceOf(c)] = c
  BY DEF InList, PlaceOf

\* The next timer, or none.
LEMMA FollowerIs ==
  ASSUME TimerTypes, NEW k \in DOMAIN timers
  PROVE  /\ k < Len(timers) => Follower(k) = timers[k + 1] /\ k + 1 \in DOMAIN timers
         /\ ~(k < Len(timers)) => Follower(k) = NoCell /\ k = Len(timers)
         /\ Follower(k) \in Cells \cup {NoCell}
<1>1. timers \in Seq(Cells)
  BY DEF TimerTypes
<1> QED
  BY <1>1 DEF Follower

\* At first there is no timer.
LEMMA TimersStart == TimersAssumption /\ TimersInit => WalkInv
<1> SUFFICES ASSUME TimersAssumption, TimersInit PROVE WalkInv
  OBVIOUS
<1>1. /\ timers = << >> /\ DOMAIN timers = {} /\ timers \in Seq(Cells)
      /\ timerseq = 0 /\ buf = NoCell /\ evaluates = FALSE /\ undefined = FALSE /\ due = {} /\ kinds = {}
      /\ time_now = 0 /\ MaxTimers \in Nat \ {0} /\ NoCell \notin Cells
      /\ after = [c \in Cells |-> NoCell] /\ held = [c \in Cells |-> Blank] /\ runs = [i \in TimerIds |-> 0]
  BY DEF TimersInit, TimersAssumption
<1>2. held \in [Cells -> Timer]
  BY <1>1 DEF Timer, Blank, TimerIds
<1>3. TimerTypes
  <2>1. timerseq \in 0..MaxTimers /\ time_now \in Nat /\ due \subseteq 0..(timerseq - 1) /\ kinds \subseteq Kinds
    BY <1>1
  <2>2. runs \in [TimerIds -> Nat] /\ after \in [Cells -> Cells \cup {NoCell}]
    BY <1>1
  <2>3. /\ buf \in Cells \cup {NoCell} /\ evaluates \in BOOLEAN /\ undefined \in BOOLEAN
        /\ \A i, j \in DOMAIN timers : timers[i] = timers[j] => i = j
    BY <1>1
  <2> QED
    BY <1>1, <1>2, <2>1, <2>2, <2>3 DEF TimerTypes
<1>4. RunsOnce
  BY <1>1 DEF RunsOnce, InList
<1>5. CellsAreOwn /\ NoneLost /\ DueAhead
  BY <1>1 DEF CellsAreOwn, NoneLost, DueAhead, InList, Live
<1> QED
  BY <1>3, <1>4, <1>5 DEF WalkInv

\* One timer more, in front.
LEMMA NewInFront ==
  ASSUME NEW s \in Seq(Cells), \A i, j \in DOMAIN s : s[i] = s[j] => i = j,
         NEW c \in Cells, \A k \in DOMAIN s : s[k] # c
  PROVE  /\ <<c>> \o s \in Seq(Cells) /\ DOMAIN (<<c>> \o s) = 1..(Len(s) + 1)
         /\ \A i, j \in DOMAIN (<<c>> \o s) : (<<c>> \o s)[i] = (<<c>> \o s)[j] => i = j
         /\ \A k \in DOMAIN (<<c>> \o s) : k = 1 => (<<c>> \o s)[k] = c
         /\ \A k \in DOMAIN (<<c>> \o s) : k # 1 => k - 1 \in DOMAIN s /\ (<<c>> \o s)[k] = s[k - 1]
         /\ \A d : (\E k \in DOMAIN (<<c>> \o s) : (<<c>> \o s)[k] = d) <=> d = c \/ \E k \in DOMAIN s : s[k] = d
<1> DEFINE t == <<c>> \o s
<1>1. /\ t \in Seq(Cells) /\ DOMAIN t = 1..(Len(s) + 1) /\ DOMAIN s = 1..Len(s) /\ Len(s) \in Nat
      /\ t[1] = c /\ \A k \in 2..(Len(s) + 1) : t[k] = s[k - 1]
  OBVIOUS
<1> HIDE DEF t
<1>2. /\ \A k \in DOMAIN t : k = 1 => t[k] = c
      /\ \A k \in DOMAIN t : k # 1 => k - 1 \in DOMAIN s /\ t[k] = s[k - 1]
  BY <1>1
<1>3. ASSUME NEW i \in DOMAIN t, NEW j \in DOMAIN t, t[i] = t[j] PROVE i = j
  <2>1. CASE i = 1 \/ j = 1
    BY <1>2, <1>3, <2>1
  <2>2. CASE i # 1 /\ j # 1
    <3>1. i - 1 = j - 1
      BY <1>2, <1>3, <2>2
    <3> QED
      BY <1>1, <3>1
  <2> QED
    BY <2>1, <2>2
<1>4. ASSUME NEW k \in DOMAIN s PROVE k + 1 \in DOMAIN t /\ t[k + 1] = s[k]
  <2>1. k + 1 \in 2..(Len(s) + 1) /\ (k + 1) - 1 = k
    BY <1>1
  <2> QED
    BY <1>1, <2>1
<1>5. \A d : (\E k \in DOMAIN t : t[k] = d) <=> d = c \/ \E k \in DOMAIN s : s[k] = d
  <2>1. ASSUME NEW d, NEW k \in DOMAIN t, t[k] = d PROVE d = c \/ \E x \in DOMAIN s : s[x] = d
    BY <1>2, <2>1
  <2>2. 1 \in DOMAIN t
    BY <1>1
  <2> QED
    BY <1>1, <1>4, <2>1, <2>2
<1> QED
  BY <1>1, <1>2, <1>3, <1>5 DEF t

\* A timer has a number that no other timer or cell in use has.
LEMMA AddKeeps ==
  ASSUME WalkInv, TimersAssumption, ~undefined, NEW kind \in Kinds, NEW delay \in Delays, timer_add(delay, kind),
         UNCHANGED <<time_now, buf, evaluates, runs, killed, due>>
  PROVE  WalkInv'
<1>1. PICK c \in Cells :
        /\ ~InList(c) /\ timerseq < MaxTimers
        /\ timers' = <<c>> \o timers
        /\ held' = [held EXCEPT ![c] = [id |-> timerseq, time |-> time_now + delay, kind |-> kind]]
        /\ timerseq' = timerseq + 1 /\ kinds' = kinds \cup {kind}
        /\ undefined' = (c = buf) /\ after' = after
  BY DEF timer_add
<1>2. /\ timers \in Seq(Cells) /\ (\A i, j \in DOMAIN timers : timers[i] = timers[j] => i = j)
      /\ timerseq \in Nat /\ MaxTimers \in Nat /\ held \in [Cells -> Timer] /\ time_now \in Nat /\ delay \in Nat
      /\ runs \in [TimerIds -> Nat]
  BY DEF WalkInv, TimerTypes, TimersAssumption
<1>3. /\ timers' \in Seq(Cells) /\ (\A i, j \in DOMAIN timers' : timers'[i] = timers'[j] => i = j)
      /\ \A k \in DOMAIN timers' : k = 1 => timers'[k] = c
      /\ \A k \in DOMAIN timers' : k # 1 => k - 1 \in DOMAIN timers /\ timers'[k] = timers[k - 1]
      /\ \A k \in DOMAIN timers' : k \in Nat /\ k >= 1
      /\ \A d : InList(d)' <=> d = c \/ InList(d)
  <2>1. \A k \in DOMAIN timers : timers[k] # c
    BY <1>1 DEF InList
  <2> DEFINE s == timers
             t == <<c>> \o s
  <2>a. s \in Seq(Cells) /\ (\A i, j \in DOMAIN s : s[i] = s[j] => i = j) /\ \A k \in DOMAIN s : s[k] # c
    BY <1>2, <2>1
  <2>b. timers' = t /\ Len(s) \in Nat
    BY <1>1, <1>2
  <2> HIDE DEF s
  <2>c. /\ t \in Seq(Cells) /\ DOMAIN t = 1..(Len(s) + 1)
        /\ \A i, j \in DOMAIN t : t[i] = t[j] => i = j
        /\ \A k \in DOMAIN t : k = 1 => t[k] = c
        /\ \A k \in DOMAIN t : k # 1 => k - 1 \in DOMAIN s /\ t[k] = s[k - 1]
        /\ \A d : (\E k \in DOMAIN t : t[k] = d) <=> d = c \/ \E k \in DOMAIN s : s[k] = d
    BY <2>a, NewInFront
  <2> HIDE DEF t
  <2>2. /\ timers' \in Seq(Cells) /\ DOMAIN timers' = 1..(Len(timers) + 1) /\ Len(timers) \in Nat
        /\ \A i, j \in DOMAIN timers' : timers'[i] = timers'[j] => i = j
        /\ \A k \in DOMAIN timers' : k = 1 => timers'[k] = c
        /\ \A k \in DOMAIN timers' : k # 1 => k - 1 \in DOMAIN timers /\ timers'[k] = timers[k - 1]
        /\ \A d : (\E k \in DOMAIN timers' : timers'[k] = d) <=> d = c \/ \E k \in DOMAIN timers : timers[k] = d
    BY <2>b, <2>c DEF s
  <2>3. \A d : InList(d)' <=> d = c \/ InList(d)
    BY <2>2 DEF InList
  <2>4. \A k \in DOMAIN timers' : k \in Nat /\ k >= 1
    BY <2>2
  <2> QED
    BY <2>2, <2>3, <2>4
<1>4. /\ held' \in [Cells -> Timer] /\ held'[c].id = timerseq /\ held'[c].kind = kind
      /\ \A d \in Cells : d # c => held'[d] = held[d]
  <2>1. [id |-> timerseq, time |-> time_now + delay, kind |-> kind] \in Timer
    BY <1>1, <1>2 DEF Timer, TimerIds, TimersAssumption
  <2> QED
    BY <1>1, <1>2, <2>1
<1>5. TimerTypes'
  <2>1. timerseq' \in 0..MaxTimers /\ due' \subseteq 0..(timerseq' - 1) /\ kinds' \subseteq Kinds
    BY <1>1, <1>2 DEF WalkInv, TimerTypes
  <2>2. undefined' \in BOOLEAN
    BY <1>1
  <2> QED
    BY <1>1, <1>3, <1>4, <2>1, <2>2 DEF WalkInv, TimerTypes
<1>6. /\ timerseq \notin due /\ timerseq \in TimerIds
      /\ OneKind' => OneKind
  BY <1>1, <1>2 DEF WalkInv, TimerTypes, TimerIds, OneKind
<1>7. RunsOnce'
  <2> SUFFICES ASSUME OneKind'
               PROVE  /\ \A i \in TimerIds : runs[i] <= 1 /\ (i >= timerseq' => runs[i] = 0)
                      /\ undefined' \/ \A d \in Cells :
                           InList(d)' => runs[held'[d].id] = 0 \/ (evaluates /\ d = buf)
    BY DEF RunsOnce
  <2>1. OneKind
    BY <1>6
  <2>2. /\ \A i \in TimerIds : runs[i] <= 1 /\ (i >= timerseq => runs[i] = 0)
        /\ \A d \in Cells : InList(d) => runs[held[d].id] = 0 \/ (evaluates /\ d = buf)
    BY <2>1 DEF WalkInv, RunsOnce
  <2>3. \A i \in TimerIds : i >= timerseq' => i >= timerseq
    BY <1>1, <1>2 DEF TimerIds
  <2>4. runs[timerseq] = 0
    BY <1>2, <1>6, <2>2
  <2>5. \A i \in TimerIds : runs[i] <= 1 /\ (i >= timerseq' => runs[i] = 0)
    BY <2>2, <2>3
  <2>6. undefined' \/ \A d \in Cells :
          InList(d)' => runs[held'[d].id] = 0 \/ (evaluates /\ d = buf)
    <3> SUFFICES ASSUME NEW d \in Cells, InList(d)'
                 PROVE  runs[held'[d].id] = 0 \/ (evaluates /\ d = buf)
      OBVIOUS
    <3>1. CASE d = c
      BY <1>4, <2>4, <3>1
    <3>2. CASE d # c
      <4>1. InList(d) /\ held'[d] = held[d]
        BY <1>3, <1>4, <3>2, Zenon
      <4> QED
        BY <2>2, <4>1
    <3> QED
      BY <3>1, <3>2
  <2> QED
    BY <2>5, <2>6, Zenon
<1>8. ASSUME c # buf PROVE CellsAreOwn'
  <2>1. \A d \in Cells : Live(d)' <=> d = c \/ Live(d)
    BY <1>3 DEF Live
  <2>2. \A d \in Cells : Live(d) => held[d].id < timerseq /\ held[d].kind \in kinds /\ d # c /\ held[d].id \in Nat
    <3>1. \A d \in Cells : Live(d) => held[d].id < timerseq /\ held[d].kind \in kinds
      BY DEF WalkInv, CellsAreOwn
    <3>2. \A d \in Cells : Live(d) => d # c
      BY <1>1, <1>8 DEF Live
    <3>3. \A d \in Cells : held[d].id \in Nat
      BY <1>2 DEF Timer, TimerIds
    <3> QED
      BY <3>1, <3>2, <3>3, Zenon
  <2>3. \A d \in Cells : Live(d)' => held'[d].id < timerseq' /\ held'[d].kind \in kinds'
    BY <1>1, <1>2, <1>4, <2>1, <2>2
  <2>4. ASSUME NEW d \in Cells, NEW e \in Cells, InList(d)', Live(e)', held'[d].id = held'[e].id PROVE d = e
    <3>1. CASE d = c /\ e # c
      BY <1>2, <1>4, <2>1, <2>2, <2>4, <3>1
    <3>2. CASE d # c /\ e = c
      BY <1>2, <1>3, <1>4, <2>2, <2>4, <3>2 DEF Live
    <3>3. CASE d # c /\ e # c
      BY <1>3, <1>4, <2>1, <2>4, <3>3 DEF WalkInv, CellsAreOwn
    <3> QED
      BY <3>1, <3>2, <3>3
  <2>5. evaluates => buf \in Cells /\ runs[held'[buf].id] > 0
    BY <1>4, <1>8 DEF WalkInv, CellsAreOwn
  <2>6. ~evaluates => buf = NoCell \/ InList(buf)'
    BY <1>3 DEF WalkInv, CellsAreOwn
  <2> QED
    BY <2>3, <2>4, <2>5, <2>6 DEF CellsAreOwn
<1>9. ASSUME c # buf PROVE NoneLost'
  <2>1. \A id \in 0..(timerseq - 1) : id \in Listed \cup killed \/ runs[id] > 0
    BY DEF WalkInv, NoneLost
  <2>2. Listed \cup {timerseq} \subseteq Listed'
    <3>1. ASSUME NEW k \in DOMAIN timers PROVE \E d \in Cells : InList(d) /\ d # c /\ held[timers[k]].id = held'[d].id
      <4>1. InList(timers[k]) /\ timers[k] \in Cells
        BY <1>2 DEF InList
      <4>2. timers[k] # c
        BY <1>1, <4>1
      <4> QED
        BY <1>4, <4>1, <4>2
    <3>2. \A d : InList(d)' => held'[d].id \in Listed'
      BY DEF InList, Listed
    <3> QED
      BY <1>3, <1>4, <3>1, <3>2 DEF Listed
  <2>3. \A id \in 0..(timerseq' - 1) : id \in 0..(timerseq - 1) \/ id = timerseq
    BY <1>1, <1>2
  <2> QED
    BY <2>1, <2>2, <2>3 DEF NoneLost
<1>10. ASSUME c # buf PROVE DueAhead'
  <2> SUFFICES ASSUME NEW k \in DOMAIN timers', held'[timers'[k]].id \in due, runs[held'[timers'[k]].id] = 0
               PROVE  held'[timers'[k]].time <= time_now /\ Comes(k)'
    BY DEF DueAhead
  <2>1. k # 1 /\ k - 1 \in DOMAIN timers /\ timers'[k] = timers[k - 1] /\ timers[k - 1] # c /\ timers[k - 1] \in Cells
    BY <1>1, <1>2, <1>3, <1>4, <1>6 DEF InList
  <2>2. held[timers[k - 1]].time <= time_now /\ Comes(k - 1) /\ held'[timers'[k]] = held[timers[k - 1]]
    BY <1>4, <2>1 DEF WalkInv, DueAhead
  <2>3. ASSUME NEW d, \A j \in DOMAIN timers : timers[j] = d => j <= k - 1,
               NEW j \in DOMAIN timers', timers'[j] = d
        PROVE  j <= k
    BY <1>3, <2>1, <2>3
  <2>4. Comes(k)'
    BY <1>1, <1>3, <1>10, <2>2, <2>3 DEF Comes
  <2> QED
    BY <2>2, <2>4
<1> QED
  BY <1>1, <1>5, <1>7, <1>8, <1>9, <1>10 DEF WalkInv


\* The place a timer had before the k-th was taken out.
Was(i, k) == IF i < k THEN i ELSE i + 1

\* The list without its k-th timer.
LEMMA Shrinks ==
  ASSUME TimerTypes, NEW k \in DOMAIN timers, timers' = RemoveAt(timers, k)
  PROVE  /\ timers' \in Seq(Cells) /\ \A i, j \in DOMAIN timers' : timers'[i] = timers'[j] => i = j
         /\ \A i \in DOMAIN timers' : /\ i \in Nat /\ Was(i, k) \in DOMAIN timers /\ Was(i, k) # k
                                      /\ timers'[i] = timers[Was(i, k)]
         /\ \A d : InList(d)' <=> InList(d) /\ d # timers[k]
<1>1. /\ timers \in Seq(Cells) /\ \A i, j \in DOMAIN timers : timers[i] = timers[j] => i = j
      /\ DOMAIN timers = 1..Len(timers) /\ Len(timers) \in Nat /\ k \in 1..Len(timers)
  BY DEF TimerTypes
<1>2. /\ timers' \in Seq(Cells) /\ DOMAIN timers' = 1..(Len(timers) - 1)
      /\ \A i \in 1..(Len(timers) - 1) : i < k => timers'[i] = timers[i] /\ i \in DOMAIN timers
      /\ \A i \in 1..(Len(timers) - 1) : i >= k => timers'[i] = timers[i + 1] /\ i + 1 \in DOMAIN timers
  BY <1>1, TakenOut
<1>3. ASSUME NEW i \in DOMAIN timers'
      PROVE  i \in Nat /\ Was(i, k) \in DOMAIN timers /\ Was(i, k) # k /\ timers'[i] = timers[Was(i, k)]
  <2>1. CASE i < k
    BY <1>1, <1>2, <2>1 DEF Was
  <2>2. CASE i >= k
    BY <1>1, <1>2, <2>2 DEF Was
  <2> QED
    BY <1>1, <1>2, <2>1, <2>2
<1>4. ASSUME NEW i \in DOMAIN timers', NEW j \in DOMAIN timers', timers'[i] = timers'[j] PROVE i = j
  <2>1. Was(i, k) = Was(j, k)
    BY <1>1, <1>3, <1>4
  <2> QED
    BY <1>1, <1>3, <2>1 DEF Was
<1>5. ASSUME NEW j \in DOMAIN timers, j # k PROVE \E i \in DOMAIN timers' : Was(i, k) = j
  <2>1. CASE j < k
    BY <1>1, <1>2, <2>1 DEF Was
  <2>2. CASE j > k
    <3>1. j - 1 \in DOMAIN timers' /\ Was(j - 1, k) = j
      BY <1>1, <1>2, <2>2 DEF Was
    <3> QED
      BY <3>1
  <2> QED
    BY <1>1, <1>5, <2>1, <2>2
<1>6. \A d : InList(d)' => InList(d) /\ d # timers[k]
  BY <1>1, <1>3 DEF InList
<1>7. ASSUME NEW d, InList(d), d # timers[k] PROVE InList(d)'
  <2>1. PICK j \in DOMAIN timers : timers[j] = d
    BY <1>7 DEF InList
  <2>2. PICK i \in DOMAIN timers' : Was(i, k) = j
    BY <1>5, <1>7, <2>1
  <2> QED
    BY <1>3, <2>1, <2>2 DEF InList
<1> QED
  BY <1>2, <1>3, <1>4, <1>6, <1>7

\* A later place was a later one before.
LEMMA WasLater ==
  ASSUME NEW i \in Nat, NEW j \in Nat, NEW k \in Nat, Was(j, k) <= Was(i, k)
  PROVE  j <= i
  BY DEF Was

\* A timer that is killed is gone, and the walk still comes to those behind it.
LEMMA KillKeeps ==
  ASSUME WalkInv, TimersAssumption, ~undefined, NEW id \in TimerIds, NEW kind \in Kinds, timer_del(id, kind),
         evaluates \/ buf = NoCell,
         killed' = killed \cup {id},
         UNCHANGED <<time_now, held, timerseq, buf, evaluates, undefined, kinds, runs, due>>
  PROVE  WalkInv'
<1>1. PICK k \in DOMAIN timers :
        /\ held[timers[k]].id = id /\ timers' = RemoveAt(timers, k)
        /\ after' = [after EXCEPT ![timers[k]] = Follower(k)]
  BY DEF timer_del, Found
<1>2. TimerTypes /\ RunsOnce /\ CellsAreOwn /\ NoneLost /\ DueAhead
  BY DEF WalkInv
<1>3. /\ timers' \in Seq(Cells) /\ (\A i, j \in DOMAIN timers' : timers'[i] = timers'[j] => i = j)
      /\ \A i \in DOMAIN timers' : /\ i \in Nat /\ Was(i, k) \in DOMAIN timers /\ Was(i, k) # k
                                   /\ timers'[i] = timers[Was(i, k)]
      /\ \A d : InList(d)' <=> InList(d) /\ d # timers[k]
  BY <1>1, <1>2, Shrinks
<1>4. /\ timers \in Seq(Cells) /\ DOMAIN timers = 1..Len(timers) /\ Len(timers) \in Nat
      /\ after \in [Cells -> Cells \cup {NoCell}] /\ NoCell \notin Cells
      /\ \A i, j \in DOMAIN timers : timers[i] = timers[j] => i = j
  BY <1>2 DEF TimerTypes, TimersAssumption
<1>5. timers[k] \in Cells /\ InList(timers[k])
  BY <1>4 DEF InList
<1>6. TimerTypes'
  <2>1. after' \in [Cells -> Cells \cup {NoCell}]
    BY <1>1, <1>2, <1>4, FollowerIs
  <2> QED
    BY <1>2, <1>3, <2>1 DEF TimerTypes
<1>7. RunsOnce'
  BY <1>2, <1>3 DEF RunsOnce, OneKind
<1>8. CellsAreOwn'
  <2>1. \A d : (Live(d)' => Live(d)) /\ (InList(d)' => InList(d))
    BY <1>3 DEF Live
  <2>2. /\ \A c \in Cells : Live(c)' => held'[c].id < timerseq' /\ held'[c].kind \in kinds'
        /\ \A c, d \in Cells : InList(c)' /\ Live(d)' /\ held'[c].id = held'[d].id => c = d
    BY <1>2, <2>1 DEF CellsAreOwn
  <2>3. /\ evaluates' => buf' \in Cells /\ runs'[held'[buf'].id] > 0
        /\ ~evaluates' => buf' = NoCell \/ InList(buf)'
    BY <1>2 DEF CellsAreOwn
  <2> QED
    BY <2>2, <2>3 DEF CellsAreOwn
<1>9. NoneLost'
  <2>1. ASSUME NEW x \in Listed PROVE x \in Listed' \/ x = id
    <3>1. PICK j \in DOMAIN timers : x = held[timers[j]].id
      BY DEF Listed
    <3>2. InList(timers[j])
      BY DEF InList
    <3>3. CASE timers[j] = timers[k]
      BY <1>1, <3>1, <3>3
    <3>4. CASE timers[j] # timers[k]
      <4>1. PICK i \in DOMAIN timers' : timers'[i] = timers[j]
        BY <1>3, <3>2, <3>4 DEF InList
      <4> QED
        BY <3>1, <4>1 DEF Listed
    <3> QED
      BY <3>3, <3>4
  <2> QED
    BY <1>2, <2>1 DEF NoneLost
<1>10. DueAhead'
  <2> SUFFICES ASSUME NEW i \in DOMAIN timers', held[timers'[i]].id \in due, runs[held[timers'[i]].id] = 0
               PROVE  held[timers'[i]].time <= time_now /\ Comes(i)'
    BY DEF DueAhead
  <2> DEFINE w == Was(i, k)
  <2>1. w \in DOMAIN timers /\ w # k /\ timers'[i] = timers[w] /\ i \in Nat /\ k \in Nat
    BY <1>3, <1>4
  <2>2. held[timers[w]].time <= time_now /\ Comes(w)
    BY <1>2, <2>1 DEF DueAhead
  <2>3. ASSUME NEW d, \A j \in DOMAIN timers : timers[j] = d => j <= w,
               NEW j \in DOMAIN timers', timers'[j] = d
        PROVE  j <= i
    <3>1. Was(j, k) <= w /\ j \in Nat
      BY <1>3, <2>3
    <3> QED
      BY <2>1, <3>1, WasLater
  <2>4. buf # NoCell /\ \A j \in DOMAIN timers' : timers'[j] = buf => j <= i
    BY <2>2, <2>3 DEF Comes
  <2>5. ASSUME ~InList(buf)', buf # timers[k]
        PROVE  after'[buf] # NoCell /\ \A j \in DOMAIN timers' : timers'[j] = after'[buf] => j <= i
    <3>1. ~InList(buf) /\ after'[buf] = after[buf]
      <4>1. buf \in Cells
        BY <1>2, <2>4 DEF TimerTypes
      <4> QED
        BY <1>1, <1>3, <1>4, <2>5, <4>1
    <3> QED
      BY <2>2, <2>3, <3>1 DEF Comes
  <2>6. ASSUME buf = timers[k]
        PROVE  after'[buf] # NoCell /\ \A j \in DOMAIN timers' : timers'[j] = after'[buf] => j <= i
    <3>1. k < w /\ k < Len(timers)
      BY <1>4, <2>1, <2>2, <2>6 DEF Comes
    <3>2. after'[buf] = timers[k + 1] /\ k + 1 \in DOMAIN timers /\ timers[k + 1] \in Cells
      BY <1>1, <1>2, <1>4, <1>5, <2>6, <3>1, FollowerIs
    <3>3. \A j \in DOMAIN timers : timers[j] = after'[buf] => j <= w
      BY <1>4, <2>1, <3>1, <3>2
    <3> QED
      BY <1>4, <2>3, <3>2, <3>3
  <2> QED
    BY <2>1, <2>2, <2>4, <2>5, <2>6 DEF Comes
<1> QED
  BY <1>6, <1>7, <1>8, <1>9, <1>10 DEF WalkInv

\* A new walk begins at the head, and comes to every timer that is due.
LEMMA WalkKeeps ==
  ASSUME WalkInv, TimersAssumption, Walk
  PROVE  WalkInv'
<1>1. TimerTypes /\ RunsOnce /\ CellsAreOwn /\ NoneLost
  BY DEF WalkInv, Walk
<1>2. /\ timers \in Seq(Cells) /\ DOMAIN timers = 1..Len(timers) /\ Len(timers) \in Nat
      /\ held \in [Cells -> Timer] /\ NoCell \notin Cells /\ time_now \in Nat
      /\ \A k \in DOMAIN timers : timers[k] \in Cells /\ InList(timers[k])
  BY <1>1 DEF TimerTypes, InList, TimersAssumption
<1>3. /\ time_now' = time_now + 1 /\ buf' = (IF timers = << >> THEN NoCell ELSE Head(timers))
      /\ due' = {held[timers[k]].id : k \in {k \in DOMAIN timers : held[timers[k]].time <= time_now'}}
      /\ UNCHANGED <<timers, held, after, timerseq, evaluates, undefined, kinds, runs, killed>>
      /\ buf = NoCell /\ ~undefined
  BY DEF Walk
<1>4. ~evaluates
  BY <1>1, <1>2, <1>3 DEF CellsAreOwn
<1>5. timers # << >> => buf' = timers[1] /\ 1 \in DOMAIN timers
  BY <1>2, <1>3
<1>6. buf' = NoCell \/ (buf' \in Cells /\ InList(buf'))
  BY <1>2, <1>3, <1>5
<1>7. TimerTypes'
  <2>1. due' \subseteq 0..(timerseq - 1)
    <3>1. ASSUME NEW k \in DOMAIN timers PROVE held[timers[k]].id \in 0..(timerseq - 1)
      <4>1. held[timers[k]].id < timerseq /\ held[timers[k]].id \in Nat /\ timerseq \in Nat
        BY <1>1, <1>2 DEF CellsAreOwn, Live, TimerTypes, Timer, TimerIds, TimersAssumption
      <4> QED
        BY <4>1
    <3> QED
      BY <1>3, <3>1
  <2>2. buf' \in Cells \cup {NoCell} /\ time_now' \in Nat
    BY <1>2, <1>3, <1>6
  <2> QED
    BY <1>1, <1>3, <2>1, <2>2 DEF TimerTypes
<1>8. RunsOnce' /\ NoneLost'
  BY <1>1, <1>3, <1>4 DEF RunsOnce, OneKind, InList, NoneLost, Listed
<1>9. CellsAreOwn'
  <2>1. \A d : InList(d)' <=> InList(d)
    BY <1>3 DEF InList
  <2>2. \A d \in Cells : Live(d)' => Live(d)
    BY <1>2, <1>6, <2>1 DEF Live
  <2>3. buf' = NoCell \/ InList(buf)'
    BY <1>3, <1>6 DEF InList
  <2> QED
    BY <1>1, <1>3, <1>4, <2>1, <2>2, <2>3 DEF CellsAreOwn
<1>10. DueAhead'
  <2> SUFFICES ASSUME NEW k \in DOMAIN timers, held[timers[k]].id \in due'
               PROVE  held[timers[k]].time <= time_now' /\ Comes(k)'
    BY <1>3 DEF DueAhead
  <2>1. PICK i \in DOMAIN timers : held[timers[i]].time <= time_now' /\ held[timers[i]].id = held[timers[k]].id
    BY <1>3
  <2>2. timers[i] = timers[k]
    BY <1>1, <1>2, <2>1 DEF CellsAreOwn, Live
  <2>3. timers # << >> /\ k >= 1
    BY <1>2
  <2>4. Comes(k)'
    <3>1. buf' # NoCell /\ InList(buf)'
      BY <1>2, <1>3, <1>5, <2>3 DEF InList
    <3>2. \A j \in DOMAIN timers : timers[j] = buf' => j <= k
      BY <1>1, <1>5, <2>3 DEF TimerTypes
    <3> QED
      BY <1>3, <3>1, <3>2 DEF Comes
  <2> QED
    BY <2>1, <2>2, <2>4
<1> QED
  BY <1>7, <1>8, <1>9, <1>10 DEF WalkInv

\* From a timer that is listed, the next one: the walk comes to those behind it.
LEMMA GoesOn ==
  ASSUME TimerTypes, TimersAssumption, InList(buf), buf' = NextOf(buf), UNCHANGED <<timers, after>>
  PROVE  /\ buf' \in Cells \cup {NoCell} /\ (buf' # NoCell => InList(buf)')
         /\ \A k \in DOMAIN timers : Comes(k) /\ timers[k] # buf => Comes(k)'
<1> DEFINE p == PlaceOf(buf)
<1>1. /\ timers \in Seq(Cells) /\ DOMAIN timers = 1..Len(timers) /\ Len(timers) \in Nat
      /\ (\A i, j \in DOMAIN timers : timers[i] = timers[j] => i = j)
      /\ NoCell \notin Cells /\ \A k \in DOMAIN timers : timers[k] \in Cells
  BY DEF TimerTypes, TimersAssumption
<1>2. p \in DOMAIN timers /\ timers[p] = buf /\ buf' = Follower(p)
  BY PlaceIs DEF NextOf
<1> HIDE DEF p
<1>3. /\ p < Len(timers) => buf' = timers[p + 1] /\ p + 1 \in DOMAIN timers
      /\ ~(p < Len(timers)) => buf' = NoCell /\ p = Len(timers)
      /\ buf' \in Cells \cup {NoCell}
  BY <1>2, FollowerIs
<1>4. buf' # NoCell => InList(buf)'
  BY <1>3 DEF InList
<1>5. ASSUME NEW k \in DOMAIN timers, Comes(k), timers[k] # buf PROVE Comes(k)'
  <2>1. p <= k /\ p # k /\ p \in Nat /\ k \in Nat /\ k <= Len(timers)
    BY <1>1, <1>2, <1>5 DEF Comes
  <2>2. p < Len(timers) /\ p + 1 <= k
    BY <1>1, <2>1
  <2>3. buf' = timers[p + 1] /\ p + 1 \in DOMAIN timers /\ buf' # NoCell
    BY <1>1, <1>3, <2>2
  <2>4. \A j \in DOMAIN timers : timers[j] = buf' => j <= k
    BY <1>1, <2>2, <2>3
  <2> QED
    BY <1>4, <2>3, <2>4 DEF Comes
<1> QED
  BY <1>3, <1>4, <1>5

\* What of the invariant is left as it was by a step that does not touch the timers.
LEMMA SameTimers ==
  ASSUME UNCHANGED <<timers, held, timerseq, killed, runs, kinds>>
  PROVE  /\ \A c : InList(c)' <=> InList(c)
         /\ Listed' = Listed /\ OneKind' = OneKind
  BY DEF InList, Listed, OneKind

\* The walk passes a timer whose time has not come.
LEMMA PassKeeps ==
  ASSUME WalkInv, TimersAssumption, Pass
  PROVE  WalkInv'
<1>1. TimerTypes /\ RunsOnce /\ CellsAreOwn /\ NoneLost /\ DueAhead
  BY DEF WalkInv, Pass
<1>2. /\ buf # NoCell /\ ~evaluates /\ ~undefined /\ time_now < held[buf].time /\ buf' = NextOf(buf)
      /\ UNCHANGED <<time_now, timers, held, after, timerseq, evaluates, ops, undefined, kinds, runs, killed, due>>
  <2>1. buf \in Cells /\ time_now \in Nat /\ held[buf].time \in Nat
    BY <1>1 DEF Pass, TimerTypes, Timer
  <2> QED
    BY <2>1 DEF Pass, IsDue
<1>3. InList(buf)
  BY <1>1, <1>2 DEF CellsAreOwn
<1>4. /\ buf' \in Cells \cup {NoCell} /\ (buf' # NoCell => InList(buf)')
      /\ \A k \in DOMAIN timers : Comes(k) /\ timers[k] # buf => Comes(k)'
  BY <1>1, <1>2, <1>3, GoesOn
<1>5. \A c : InList(c)' <=> InList(c)
  BY <1>2, SameTimers
<1>6. TimerTypes' /\ NoneLost'
  BY <1>1, <1>2, <1>4 DEF TimerTypes, NoneLost, Listed
<1>7. RunsOnce'
  BY <1>1, <1>2, <1>5 DEF RunsOnce, OneKind
<1>8. CellsAreOwn'
  <2>1. \A d \in Cells : Live(d)' => Live(d)
    BY <1>4, <1>5 DEF Live, TimersAssumption
  <2> QED
    BY <1>1, <1>2, <1>4, <1>5, <2>1 DEF CellsAreOwn
<1>9. DueAhead'
  <2> SUFFICES ASSUME NEW k \in DOMAIN timers, held[timers[k]].id \in due, runs[held[timers[k]].id] = 0
               PROVE  held[timers[k]].time <= time_now /\ Comes(k)'
    BY <1>2 DEF DueAhead
  <2>1. held[timers[k]].time <= time_now /\ Comes(k) /\ timers[k] \in Cells /\ buf \in Cells
    BY <1>1, <1>2 DEF DueAhead, TimerTypes
  <2>2. timers[k] # buf
    BY <1>1, <1>2, <2>1 DEF TimerTypes, Timer
  <2> QED
    BY <1>4, <2>1, <2>2
<1> QED
  BY <1>6, <1>7, <1>8, <1>9 DEF WalkInv

\* The command of the timer the walk is at is evaluated once more.
LEMMA EvalKeeps ==
  ASSUME WalkInv, TimersAssumption, Tcl_Eval
  PROVE  WalkInv'
<1>1. TimerTypes /\ RunsOnce /\ CellsAreOwn /\ NoneLost /\ DueAhead
  BY DEF WalkInv, Tcl_Eval
<1>2. /\ buf # NoCell /\ ~evaluates /\ ~undefined /\ evaluates' = TRUE
      /\ runs' = [runs EXCEPT ![held[buf].id] = @ + 1]
      /\ UNCHANGED <<time_now, timers, held, after, timerseq, buf, undefined, kinds, killed, due>>
  BY DEF Tcl_Eval
<1> DEFINE id == held[buf].id
<1>3. buf \in Cells /\ InList(buf) /\ id \in TimerIds /\ id < timerseq /\ TimerIds \subseteq Nat /\ timerseq \in Nat
  BY <1>1, <1>2 DEF TimerTypes, CellsAreOwn, Live, Timer, TimerIds, TimersAssumption
<1>4. /\ runs' \in [TimerIds -> Nat] /\ runs'[id] = runs[id] + 1 /\ runs[id] \in Nat
      /\ \A x \in TimerIds : x # id => runs'[x] = runs[x]
      /\ \A x \in TimerIds : runs[x] > 0 => runs'[x] > 0
  BY <1>1, <1>2, <1>3 DEF TimerTypes
<1>5. \A c : (InList(c)' <=> InList(c)) /\ (Live(c)' <=> Live(c))
  BY <1>2 DEF Live, InList
<1>6. \A c \in Cells : InList(c) /\ c # buf => held[c].id # id /\ held[c].id \in TimerIds
  BY <1>1, <1>3 DEF CellsAreOwn, Live, TimerTypes, Timer
<1> HIDE DEF id
<1>7. TimerTypes'
  BY <1>1, <1>2, <1>4 DEF TimerTypes
<1>8. RunsOnce'
  <2> SUFFICES ASSUME OneKind
               PROVE  /\ \A i \in TimerIds : runs'[i] <= 1 /\ (i >= timerseq => runs'[i] = 0)
                      /\ \A c \in Cells : InList(c) => runs'[held[c].id] = 0 \/ c = buf
    BY <1>2, <1>5 DEF RunsOnce, OneKind
  <2>1. /\ \A i \in TimerIds : runs[i] <= 1 /\ (i >= timerseq => runs[i] = 0)
        /\ \A c \in Cells : InList(c) => runs[held[c].id] = 0
    BY <1>1, <1>2 DEF RunsOnce
  <2>2. runs[id] = 0
    BY <1>3, <2>1 DEF id
  <2>3. \A i \in TimerIds : runs'[i] <= 1 /\ (i >= timerseq => runs'[i] = 0)
    BY <1>3, <1>4, <2>1, <2>2
  <2> QED
    BY <1>4, <1>6, <2>1, <2>3
<1>9. CellsAreOwn'
  <2>1. runs'[held'[buf'].id] > 0
    BY <1>2, <1>4 DEF id
  <2> QED
    BY <1>1, <1>2, <1>3, <1>5, <2>1 DEF CellsAreOwn
<1>10. NoneLost'
  <2>1. 0..(timerseq - 1) \subseteq TimerIds
    BY <1>1 DEF TimerTypes, TimerIds, TimersAssumption
  <2> QED
    BY <1>1, <1>2, <1>4, <2>1 DEF NoneLost, Listed
<1>11. DueAhead'
  <2>1. ASSUME NEW k \in DOMAIN timers, runs'[held[timers[k]].id] = 0 PROVE runs[held[timers[k]].id] = 0
    <3>1. held[timers[k]].id \in TimerIds
      BY <1>1 DEF TimerTypes, Timer
    <3> QED
      BY <1>1, <1>4, <2>1, <3>1 DEF TimerTypes
  <2>2. \A k : Comes(k)' <=> Comes(k)
    BY <1>2 DEF Comes, InList
  <2> QED
    BY <1>1, <1>2, <2>1, <2>2 DEF DueAhead
<1> QED
  BY <1>7, <1>8, <1>9, <1>10, <1>11 DEF WalkInv

\* The timer that was evaluated is deleted, or is not found: the walk goes on behind it.
LEMMA EvaluatedKeeps ==
  ASSUME WalkInv, TimersAssumption, Evaluated
  PROVE  WalkInv'
<1>1. TimerTypes /\ RunsOnce /\ CellsAreOwn /\ NoneLost /\ DueAhead
  BY DEF WalkInv, Evaluated
<1>2. /\ evaluates /\ ~undefined /\ undefined' = (buf' # NoCell /\ ~InList(buf)') /\ evaluates' = FALSE
      /\ UNCHANGED <<time_now, held, timerseq, kinds, runs, killed, due>>
  BY DEF Evaluated
<1>3. PICK c \in Cells : c = buf /\ buf' = NextOf(c)'
  BY DEF Evaluated
<1>4. /\ timers \in Seq(Cells) /\ DOMAIN timers = 1..Len(timers) /\ Len(timers) \in Nat
      /\ (\A i, j \in DOMAIN timers : timers[i] = timers[j] => i = j)
      /\ NoCell \notin Cells /\ \A k \in DOMAIN timers : timers[k] \in Cells /\ InList(timers[k])
      /\ after \in [Cells -> Cells \cup {NoCell}] /\ runs[held[c].id] > 0 /\ buf # NoCell
  BY <1>1, <1>2, <1>3 DEF TimerTypes, TimersAssumption, CellsAreOwn, InList
\* What both cases come to.
<1>5. ASSUME timers' \in Seq(Cells), \A i, j \in DOMAIN timers' : timers'[i] = timers'[j] => i = j,
             after' \in [Cells -> Cells \cup {NoCell}], buf' \in Cells \cup {NoCell},
             \A d : InList(d)' => InList(d), \A d : InList(d) /\ d # c => InList(d)',
             OneKind => ~InList(c)',
             ~undefined' => DueAhead'
      PROVE  WalkInv'
  <2>1. TimerTypes' 
    BY <1>1, <1>2, <1>5 DEF TimerTypes
  <2>2. RunsOnce'
    BY <1>1, <1>2, <1>3, <1>5 DEF RunsOnce, OneKind
  <2>3. NoneLost'
    <3>1. ASSUME NEW x \in Listed PROVE x \in Listed' \/ x = held[c].id
      <4>1. PICK j \in DOMAIN timers : x = held[timers[j]].id
        BY DEF Listed
      <4>2. CASE timers[j] # c
        <5>1. PICK i \in DOMAIN timers' : timers'[i] = timers[j]
          BY <1>4, <1>5, <4>2 DEF InList
        <5> QED
          BY <1>2, <4>1, <5>1 DEF Listed
      <4> QED
        BY <4>1, <4>2
    <3> QED
      BY <1>1, <1>2, <1>4, <3>1 DEF NoneLost
  <2>4. ~undefined' => CellsAreOwn'
    <3> SUFFICES ASSUME ~undefined' PROVE CellsAreOwn'
      OBVIOUS
    <3>1. buf' = NoCell \/ InList(buf)'
      BY <1>2
    <3>2. \A d \in Cells : Live(d)' => Live(d)
      BY <1>4, <1>5, <3>1 DEF Live
    <3> QED
      BY <1>1, <1>2, <1>5, <3>1, <3>2 DEF CellsAreOwn
  <2> QED
    BY <1>2, <1>5, <2>1, <2>2, <2>3, <2>4 DEF WalkInv
<1>6. CASE Found(held[c].id, held[c].kind) = {}
  <2>1. timers' = timers /\ after' = after
    BY <1>3, <1>6 DEF Evaluated, DeleteEvaluated
  <2>2. \A d : InList(d)' <=> InList(d)
    BY <2>1 DEF InList
  <2>3. buf' = NextOf(buf)
    BY <1>3, <2>1 DEF NextOf, InList, PlaceOf, Follower
  <2>4. OneKind => ~InList(c)
    <3> SUFFICES ASSUME OneKind, InList(c) PROVE FALSE
      OBVIOUS
    <3>1. PICK k \in DOMAIN timers : timers[k] = c
      BY DEF InList
    <3>2. 1 \in DOMAIN timers
      BY <1>4
    <3>3. held[timers[1]].kind \in kinds /\ held[c].kind \in kinds
      BY <1>1, <1>4, <3>2 DEF CellsAreOwn, Live
    <3>4. held[timers[1]].kind = held[c].kind
      BY <3>3 DEF OneKind
    <3>5. k \in Found(held[c].id, held[c].kind)
      BY <3>1, <3>4 DEF Found
    <3> QED
      BY <1>6, <3>5
  <2>5. buf' \in Cells \cup {NoCell}
    <3>1. CASE InList(buf)
      BY <1>1, <2>1, <2>3, <3>1, GoesOn
    <3>2. CASE ~InList(buf)
      BY <1>3, <1>4, <2>3, <3>2 DEF NextOf
    <3> QED
      BY <3>1, <3>2
  <2>6. ASSUME ~undefined' PROVE DueAhead'
    <3> SUFFICES ASSUME NEW k \in DOMAIN timers, held[timers[k]].id \in due, runs[held[timers[k]].id] = 0
                 PROVE  held[timers[k]].time <= time_now /\ Comes(k)'
      BY <1>2, <2>1 DEF DueAhead
    <3>1. held[timers[k]].time <= time_now /\ Comes(k)
      BY <1>1 DEF DueAhead
    <3>2. timers[k] # buf
      BY <1>3, <1>4
    <3>3. CASE InList(buf)
      BY <1>1, <2>1, <2>3, <3>1, <3>2, <3>3, GoesOn
    <3>4. CASE ~InList(buf)
      <4>1. buf' = after[buf] /\ buf' # NoCell /\ \A j \in DOMAIN timers : timers[j] = buf' => j <= k
        BY <2>3, <3>1, <3>4 DEF NextOf, Comes
      <4>2. InList(buf)'
        BY <1>2, <2>6, <4>1
      <4> QED
        BY <2>1, <3>1, <4>1, <4>2 DEF Comes
    <3> QED
      BY <3>1, <3>3, <3>4
  <2> QED
    BY <1>4, <1>5, <2>1, <2>2, <2>4, <2>5, <2>6
<1>7. CASE Found(held[c].id, held[c].kind) # {}
  <2>1. PICK k \in DOMAIN timers :
          /\ held[timers[k]].id = held[c].id /\ timers' = RemoveAt(timers, k)
          /\ after' = [after EXCEPT ![timers[k]] = Follower(k)]
    BY <1>3, <1>7 DEF Evaluated, DeleteEvaluated, timer_del, Found
  <2>2. timers[k] = c
    BY <1>1, <1>3, <1>4, <2>1 DEF CellsAreOwn, Live
  <2>3. /\ timers' \in Seq(Cells) /\ (\A i, j \in DOMAIN timers' : timers'[i] = timers'[j] => i = j)
        /\ \A i \in DOMAIN timers' : /\ i \in Nat /\ Was(i, k) \in DOMAIN timers /\ Was(i, k) # k
                                     /\ timers'[i] = timers[Was(i, k)]
        /\ \A d : InList(d)' <=> InList(d) /\ d # timers[k]
    BY <1>1, <2>1, Shrinks
  <2>4. Follower(k) \in Cells \cup {NoCell}
    BY <1>1, FollowerIs
  <2>5. after' \in [Cells -> Cells \cup {NoCell}] /\ after'[c] = Follower(k)
    BY <1>4, <2>1, <2>2, <2>4
  <2>6. ~InList(c)' /\ buf' = after'[c]
    BY <1>3, <2>2, <2>3 DEF NextOf
  <2>7. ASSUME ~undefined' PROVE DueAhead'
    <3> SUFFICES ASSUME NEW i \in DOMAIN timers', held[timers'[i]].id \in due, runs[held[timers'[i]].id] = 0
                 PROVE  held[timers'[i]].time <= time_now /\ Comes(i)'
      BY <1>2 DEF DueAhead
    <3> DEFINE w == Was(i, k)
    <3>1. w \in DOMAIN timers /\ w # k /\ timers'[i] = timers[w] /\ i \in Nat /\ k \in Nat
      BY <1>4, <2>3
    <3>2. held[timers[w]].time <= time_now /\ Comes(w)
      BY <1>1, <3>1 DEF DueAhead
    <3>3. k < w /\ k < Len(timers)
      BY <1>3, <1>4, <2>2, <3>1, <3>2 DEF Comes
    <3>4. buf' = timers[k + 1] /\ k + 1 \in DOMAIN timers /\ buf' # NoCell
      BY <1>1, <1>4, <2>5, <2>6, <3>3, FollowerIs
    <3>5. ASSUME NEW j \in DOMAIN timers', timers'[j] = buf' PROVE j <= i
      <4>1. Was(j, k) = k + 1 /\ j \in Nat
        BY <1>4, <2>3, <3>4, <3>5
      <4>2. Was(j, k) <= w
        BY <1>4, <3>1, <3>3, <4>1
      <4> QED
        BY <3>1, <4>1, <4>2, WasLater
    <3>6. InList(buf)'
      BY <1>2, <2>7, <3>4
    <3> QED
      BY <3>1, <3>2, <3>4, <3>5, <3>6 DEF Comes
  <2> QED
    BY <1>5, <2>2, <2>3, <2>4, <2>5, <2>6, <2>7
<1> QED
  BY <1>6, <1>7

\* Every step.
LEMMA TimersStep ==
  ASSUME WalkInv, TimersAssumption, TimersNext
  PROVE  WalkInv'
<1>1. CASE tcl_proc_timer
  <2>1. PICK kind \in Kinds, delay \in Delays : timer_add(delay, kind)
    BY <1>1 DEF tcl_proc_timer
  <2> QED
    BY <1>1, <2>1, AddKeeps DEF tcl_proc_timer, Script
<1>2. CASE tcl_proc_killtimer
  <2>1. PICK id \in TimerIds, kind \in Kinds : timer_del(id, kind) /\ killed' = killed \cup {id}
    BY <1>2 DEF tcl_proc_killtimer
  <2> QED
    BY <1>2, <2>1, KillKeeps DEF tcl_proc_killtimer, Script
<1> QED
  BY <1>1, <1>2, WalkKeeps, PassKeeps, EvalKeeps, EvaluatedKeeps DEF TimersNext

\* A set of one has one element.
LEMMA OneAtMost ==
  ASSUME NEW S, IsFiniteSet(S), Cardinality(S) <= 1
  PROVE  \A x, y \in S : x = y
<1> SUFFICES ASSUME NEW x \in S, NEW y \in S, x # y PROVE FALSE
  OBVIOUS
<1>1. IsFiniteSet({x}) /\ Cardinality({x}) = 1
  BY FS_Singleton
<1>2. Cardinality({x, y}) = 2
  <2>1. {x, y} = {x} \cup {y} /\ y \notin {x}
    OBVIOUS
  <2> QED
    BY <1>1, <2>1, FS_AddElement
<1>3. Cardinality({x, y}) <= Cardinality(S)
  BY FS_Subset
<1>4. Cardinality(S) \in Nat
  BY FS_CardinalityType
<1> QED
  BY <1>2, <1>3, <1>4

(* Whatever the commands add and kill, their own timers among them, and where   *)
(* ever the allocator puts new ones: a walk evaluates every timer that was due  *)
(* and is not killed, no timer leaves the list without, and none is evaluated   *)
(* twice while all are of one kind - as long as the walk does not come to a     *)
(* freed cell.                                                                  *)
THEOREM TimersRun == TimersSpec => []EachTimerRuns
<1>1. WalkInv /\ [TimersNext]_tclTimerVars => WalkInv'
  <2>1. WalkInv /\ UNCHANGED tclTimerVars => WalkInv'
    BY DEF tclTimerVars, WalkInv, TimerTypes, RunsOnce, OneKind, CellsAreOwn, NoneLost, DueAhead, Comes, Live,
           InList, Listed
  <2> QED
    BY <2>1, TimersStep, TimersAssumption
<1>2. WalkInv => EachTimerRuns
  <2> SUFFICES ASSUME WalkInv PROVE EachTimerRuns
    OBVIOUS
  <2>1. RunsOnceOfAKind
    <3> SUFFICES ASSUME Cardinality(kinds) <= 1 PROVE \A id \in TimerIds : runs[id] <= 1
      BY DEF RunsOnceOfAKind
    <3>1. IsFiniteSet(kinds)
      <4>1. kinds \subseteq {"TCL_TIMER", "TCL_UTIMER"}
        BY TimersAssumption DEF WalkInv, TimerTypes, TimersAssumption
      <4>2. IsFiniteSet({"TCL_TIMER", "TCL_UTIMER"})
        <5>1. IsFiniteSet({"TCL_TIMER"}) /\ {"TCL_TIMER", "TCL_UTIMER"} = {"TCL_TIMER"} \cup {"TCL_UTIMER"}
          BY FS_Singleton
        <5> QED
          BY <5>1, FS_AddElement
      <4> QED
        BY <4>1, <4>2, FS_Subset
    <3>2. OneKind
      BY <3>1, OneAtMost DEF OneKind
    <3> QED
      BY <3>2 DEF WalkInv, RunsOnce
  <2>2. NoneLost
    BY DEF WalkInv, NoneLost
  <2>3. DueAreRun
    <3> SUFFICES ASSUME buf = NoCell, ~undefined, NEW id \in due, runs[id] = 0 PROVE id \in killed
      <4>1. \A id \in due : id \in TimerIds /\ runs[id] \in Nat
        BY TimersAssumption DEF WalkInv, TimerTypes, TimerIds, TimersAssumption
      <4> QED
        BY <4>1 DEF DueAreRun
    <3>1. id \in 0..(timerseq - 1)
      BY DEF WalkInv, TimerTypes
    <3>2. id \in Listed \cup killed
      BY <3>1 DEF WalkInv, NoneLost
    <3>3. \A k \in DOMAIN timers : held[timers[k]].id # id
      BY DEF WalkInv, DueAhead, Comes
    <3> QED
      BY <3>2, <3>3 DEF Listed
  <2> QED
    BY <2>1, <2>2, <2>3 DEF EachTimerRuns
<1>3. TimersInit => WalkInv
  BY TimersStart, TimersAssumption
<1> QED
  BY <1>1, <1>2, <1>3, PTL DEF TimersSpec

==================================================================================
