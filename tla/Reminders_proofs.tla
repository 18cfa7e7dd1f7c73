-------------------------- MODULE Reminders_proofs --------------------------
(***************************************************************************)
(* Theorems about Reminders for any reminders, times and bounds: that the  *)
(* map of cancel functions never holds one of a goroutine that has gone,   *)
(* with any number of servers; with one server and until a snooze, that    *)
(* records and goroutines agree; and, again with any number, that what is  *)
(* stored is waited for. And about Dates, for any phrases and moments:     *)
(* that what a user writes is resolved to what its words mean, and when    *)
(* the command remind sets a reminder for that.                            *)
(***************************************************************************)
EXTENDS Reminders, Dates, FiniteSetTheorems, SequenceTheorems, TLAPS

LEMMA Constants ==
    /\ MaxTime \in Nat /\ MaxTimer \in Nat /\ MaxConnects \in Nat
    /\ MaxSnoozes \in Nat /\ MaxRestarts \in Nat
BY RemindersAssumption

\* What a goroutine is: free, or a record of a reminder.
LEMMA TimerIs ==
    ASSUME TypeOK, NEW k \in Timer
    PROVE  /\ timer[k] = Free <=> timer[k].pc = "free"
           /\ timer[k] # Free => timer[k].id \in Reminder /\ timer[k].at \in Time
           /\ timer[k].pc \in {"free", "wait", "due", "said", "push", "forget"}
BY RemindersAssumption DEF TypeOK, Free

-----------------------------------------------------------------------------
(* Any number of servers. *)

RInv == TypeOK /\ NoStaleCancel

LEMMA InitRInv == Init => RInv
<1> SUFFICES ASSUME Init PROVE RInv
  OBVIOUS
<1>1. TypeOK
  BY Constants, RemindersAssumption DEF Init, TypeOK, Time, Timer, Idle, Free
<1>2. NoStaleCancel
  BY DEF Init, NoStaleCancel
<1> QED BY <1>1, <1>2 DEF RInv

LEMMA HandlerType ==
    ASSUME TypeOK, NEW c \in Conn,
           \/ Connected(c) \/ Disconnected(c) \/ Set(c) \/ Snooze(c) \/ List(c) \/ Del(c)
           \/ Handle(c)
    PROVE  TypeOK'
<1> USE Constants, RemindersAssumption
<1>1. CASE Connected(c)
  <2>1. Stored \in SUBSET (Reminder \X Time)
    BY DEF Stored, TypeOK
  <2>2. left' \in [connects : Nat, snoozes : Nat, restarts : Nat] /\ left'.snoozes <= MaxSnoozes
    BY <1>1 DEF TypeOK, Connected
  <2>3. handler' \in [Conn -> [pc : {"idle", "prune", "remind", "forget"},
                               todo : SUBSET (Reminder \X Time), nick : Nick \cup {None}]]
    BY <1>1, <2>1 DEF Reminding, Connected, TypeOK
  <2> QED BY <1>1, <2>2, <2>3 DEF TypeOK, Connected, memory, Time
<1>2. CASE Disconnected(c)
  BY <1>2 DEF TypeOK, Disconnected, Cancel
<1>3. ASSUME NEW id \in Reminder, NEW at \in now .. MaxTime, NEW by \in Nick, Put(c, id, at, by),
             unused' \subseteq unused, left' \in [connects : Nat, snoozes : Nat, restarts : Nat],
             left'.snoozes <= left.snoozes
      PROVE  TypeOK'
  <2>1. at \in Time
    BY DEF TypeOK, Time
  <2>2. DOMAIN db' \subseteq Reminder /\ \A i \in DOMAIN db' : db'[i] \in Time
    BY <1>3, <2>1 DEF With, Put, TypeOK
  <2>3. handler' \in [Conn -> [pc : {"idle", "prune", "remind", "forget"},
                               todo : SUBSET (Reminder \X Time), nick : Nick \cup {None}]]
    BY <1>3, <2>1 DEF Reminding, Put, TypeOK
  <2>4. left'.snoozes <= MaxSnoozes
    BY <1>3 DEF TypeOK
  <2> QED BY <1>3, <2>2, <2>3, <2>4 DEF Put, TypeOK
<1>4. CASE Set(c)
  <2>1. PICK id \in unused, at \in now .. MaxTime :
             Put(c, id, at, From[id]) /\ unused' = unused \ {id}
    BY <1>4 DEF Set
  <2>2. id \in Reminder /\ From[id] \in Nick /\ left' = left
    BY <1>4 DEF Set, TypeOK
  <2> QED BY <1>3, <2>1, <2>2 DEF TypeOK
<1>5. CASE Snooze(c)
  <2>1. PICK n \in Nick, at \in now .. MaxTime : finished[n] # None /\ Put(c, finished[n], at, n)
    BY <1>5 DEF Snooze
  <2>2. finished[n] \in Reminder /\ unused' = unused
    BY <1>5, <2>1 DEF Snooze, TypeOK
  <2>3. left' \in [connects : Nat, snoozes : Nat, restarts : Nat] /\ left'.snoozes <= left.snoozes
    BY <1>5 DEF Snooze, TypeOK
  <2> QED BY <1>3, <2>1, <2>2, <2>3
<1>6. CASE List(c)
  BY <1>6 DEF TypeOK, List
<1>7. CASE Del(c)
  <2>0. PICK n \in Nick : \E id \in listed[n] :
          /\ Cancel(IF id \in DOMAIN running THEN {running[id]} ELSE {})
          /\ running' = Without(running, id)
          /\ handler' = [handler EXCEPT ![c] =
                           [pc |-> "forget", todo |-> {<<id, 0>>}, nick |-> n]]
    BY <1>7 DEF Del
  <2>1. PICK id \in listed[n] :
          /\ Cancel(IF id \in DOMAIN running THEN {running[id]} ELSE {})
          /\ running' = Without(running, id)
          /\ handler' = [handler EXCEPT ![c] =
                           [pc |-> "forget", todo |-> {<<id, 0>>}, nick |-> n]]
    BY <2>0
  <2>2. id \in Reminder /\ 0 \in Time
    BY DEF TypeOK, Time
  <2>3. DOMAIN running' \subseteq Reminder /\ \A i \in DOMAIN running' : running'[i] \in Timer
    BY <2>1 DEF Without, TypeOK
  <2>4. timer' \in [Timer -> {Free} \cup [pc : {"wait", "due", "said", "push", "forget"},
                                          id : Reminder, at : Time]]
    BY <2>1 DEF TypeOK, Cancel
  <2> QED BY <1>7, <2>1, <2>2, <2>3, <2>4 DEF TypeOK, Del
<1>8. CASE Prune(c)
  <2>1. /\ DOMAIN db' \subseteq DOMAIN db /\ \A id \in DOMAIN db' : db'[id] = db[id]
    BY <1>8 DEF Prune
  <2>2. handler' \in [Conn -> [pc : {"idle", "prune", "remind", "forget"},
                               todo : SUBSET (Reminder \X Time), nick : Nick \cup {None}]]
    BY <1>8 DEF Prune, Reminding, TypeOK
  <2> QED BY <1>8, <2>1, <2>2 DEF TypeOK, Prune, memory
<1>9. CASE Remind(c)
  <2>1. PICK e \in handler[c].todo, k \in Timer :
          /\ IF e[2] < now THEN UNCHANGED <<timer, running>>
             ELSE /\ timer' = [timer EXCEPT ![k] = [pc |-> "wait", id |-> e[1], at |-> e[2]]]
                  /\ running' = With(running, e[1], k)
          /\ handler' = [handler EXCEPT ![c].todo = @ \ {e}]
          /\ UNCHANGED <<now, db, up, finished, listed, said, unused, left>>
    BY <1>9 DEF Remind
  <2>2. e[1] \in Reminder /\ e[2] \in Time
    BY DEF TypeOK
  <2>3. timer' \in [Timer -> {Free} \cup [pc : {"wait", "due", "said", "push", "forget"},
                                          id : Reminder, at : Time]]
    BY <2>1, <2>2 DEF TypeOK
  <2>4. DOMAIN running' \subseteq Reminder /\ \A i \in DOMAIN running' : running'[i] \in Timer
    BY <2>1, <2>2 DEF With, TypeOK
  <2>5. handler' \in [Conn -> [pc : {"idle", "prune", "remind", "forget"},
                               todo : SUBSET (Reminder \X Time), nick : Nick \cup {None}]]
    <3>1. [handler[c] EXCEPT !.todo = @ \ {e}]
              \in [pc : {"idle", "prune", "remind", "forget"},
                   todo : SUBSET (Reminder \X Time), nick : Nick \cup {None}]
      BY DEF TypeOK
    <3> QED BY <2>1, <3>1 DEF TypeOK
  <2> QED BY <2>1, <2>3, <2>4, <2>5 DEF TypeOK
<1>10. CASE Reminded(c)
  BY <1>10 DEF TypeOK, Reminded, memory, Idle
<1>11. CASE Forget(c)
  <2>1. PICK e \in handler[c].todo : db' = Without(db, e[1])
    BY <1>11 DEF Forget
  <2>2. DOMAIN db' \subseteq Reminder /\ \A id \in DOMAIN db' : db'[id] \in Time
    BY <2>1 DEF Without, TypeOK
  <2> QED BY <1>11, <2>2 DEF TypeOK, Forget, Idle
<1> QED BY <1>1, <1>2, <1>4, <1>5, <1>6, <1>7, <1>8, <1>9, <1>10, <1>11 DEF Handle

LEMMA RunType == ASSUME TypeOK, NEW k \in Timer, Run(k) PROVE TypeOK'
<1> USE Constants, RemindersAssumption
<1>1. timer[k] # Free
  BY DEF Run, Expire, Say, Finish, ForgetRunning, ForgetRecord, At, Free
<1>2. timer[k] \in [pc : {"wait", "due", "said", "push", "forget"}, id : Reminder, at : Time]
  BY <1>1 DEF TypeOK
<1>3. CASE Expire(k)
  BY <1>2, <1>3 DEF TypeOK, Expire, Go
<1>4. CASE Say(k)
  BY <1>2, <1>4 DEF TypeOK, Say, Go
<1>5. CASE Finish(k)
  BY <1>2, <1>5 DEF TypeOK, Finish, Go
<1>6. CASE ForgetRunning(k)
  <2>1. DOMAIN running' \subseteq Reminder /\ \A i \in DOMAIN running' : running'[i] \in Timer
    BY <1>6 DEF Without, TypeOK, ForgetRunning
  <2> QED BY <1>2, <1>6, <2>1 DEF TypeOK, ForgetRunning, Go
<1>7. CASE ForgetRecord(k)
  <2>1. DOMAIN db' \subseteq Reminder /\ \A id \in DOMAIN db' : db'[id] \in Time
    BY <1>7 DEF Without, TypeOK, ForgetRecord
  <2> QED BY <1>7, <2>1 DEF TypeOK, ForgetRecord
<1> QED BY <1>3, <1>4, <1>5, <1>6, <1>7 DEF Run

LEMMA StepType == TypeOK /\ [Next]_vars => TypeOK'
<1> SUFFICES ASSUME TypeOK, [Next]_vars PROVE TypeOK'
  OBVIOUS
<1>1. CASE Tick
  BY <1>1, Constants DEF TypeOK, Tick, memory, Time
<1>2. CASE Restart
  <2>1. left' \in [connects : Nat, snoozes : Nat, restarts : Nat] /\ left'.snoozes <= MaxSnoozes
    BY <1>2 DEF TypeOK, Restart
  <2>2. /\ timer' \in [Timer -> {Free} \cup [pc : {"wait", "due", "said", "push", "forget"},
                                            id : Reminder, at : Time]]
        /\ handler' \in [Conn -> [pc : {"idle", "prune", "remind", "forget"},
                                  todo : SUBSET (Reminder \X Time), nick : Nick \cup {None}]]
    BY <1>2 DEF Restart, Idle
  <2> QED BY <1>2, <2>1, <2>2 DEF TypeOK, Restart
<1>3. CASE UNCHANGED vars
  BY <1>3 DEF TypeOK, vars
<1> QED BY <1>1, <1>2, <1>3, HandlerType, RunType DEF Next

LEMMA StepRInv == RInv /\ [Next]_vars => RInv'
<1> SUFFICES ASSUME RInv, [Next]_vars PROVE NoStaleCancel'
  BY StepType DEF RInv
<1> USE DEF RInv, NoStaleCancel
<1>1. ASSUME UNCHANGED <<timer, running>> PROVE NoStaleCancel'
  BY <1>1 DEF At
<1>2. ASSUME NEW c \in Conn, Disconnected(c) PROVE NoStaleCancel'
  BY <1>2 DEF Disconnected
<1>3. ASSUME NEW c \in Conn, Del(c) PROVE NoStaleCancel'
  <2>1. PICK n \in Nick : \E id \in listed[n] :
          /\ Cancel(IF id \in DOMAIN running THEN {running[id]} ELSE {})
          /\ running' = Without(running, id)
    BY <1>3 DEF Del
  <2>2. PICK id \in listed[n] :
          /\ Cancel(IF id \in DOMAIN running THEN {running[id]} ELSE {})
          /\ running' = Without(running, id)
    BY <2>1
  <2>3. ASSUME NEW i \in DOMAIN running' PROVE i \in DOMAIN running /\ i # id /\ running'[i] = running[i]
    BY <2>2, <2>3 DEF Without
  \* the goroutines of other entries are other goroutines
  <2>4. ASSUME NEW i \in DOMAIN running' PROVE timer'[running[i]] = timer[running[i]]
    <3>1. running[i] \in Timer /\ timer[running[i]].id = i
      BY <2>3 DEF TypeOK
    <3>2. id \in DOMAIN running => running[i] # running[id]
      BY <2>3, <3>1
    <3> QED BY <2>2, <3>1, <3>2 DEF Cancel
  <2> QED BY <2>3, <2>4 DEF At
<1>4. ASSUME NEW c \in Conn, Remind(c) PROVE NoStaleCancel'
  <2>1. PICK e \in handler[c].todo, k \in Timer :
          /\ timer[k] = Free
          /\ \/ UNCHANGED <<timer, running>>
             \/ /\ timer' = [timer EXCEPT ![k] = [pc |-> "wait", id |-> e[1], at |-> e[2]]]
                /\ running' = With(running, e[1], k)
    BY <1>4 DEF Remind
  <2>2. CASE UNCHANGED <<timer, running>>
    BY <1>1, <2>2
  <2>3. CASE /\ timer' = [timer EXCEPT ![k] = [pc |-> "wait", id |-> e[1], at |-> e[2]]]
             /\ running' = With(running, e[1], k)
    <3>1. timer'[k].id = e[1] /\ timer'[k].pc = "wait"
      BY <2>3 DEF TypeOK
    <3>2. ASSUME NEW i \in DOMAIN running PROVE running[i] # k
      BY <2>1, RemindersAssumption DEF TypeOK, Free
    <3>3. ASSUME NEW i \in DOMAIN running', i # e[1]
          PROVE  i \in DOMAIN running /\ running'[i] = running[i] /\ timer'[running[i]] = timer[running[i]]
      BY <2>3, <3>2, <3>3 DEF TypeOK, With
    <3>4. running'[e[1]] = k
      BY <2>3 DEF With
    <3> QED BY <3>1, <3>3, <3>4 DEF At
  <2> QED BY <2>1, <2>2, <2>3
<1>5. ASSUME Restart PROVE NoStaleCancel'
  BY <1>5 DEF Restart
<1>6. ASSUME NEW k \in Timer, Expire(k) \/ Say(k) \/ Finish(k) PROVE NoStaleCancel'
  <2>1. \A j \in Timer : timer'[j].id = timer[j].id /\ (timer'[j] # timer[j] => timer'[j].pc # "forget")
    <3>1. PICK pc \in {"due", "said", "push"} : timer' = [timer EXCEPT ![k].pc = pc]
      BY <1>6 DEF Expire, Say, Finish, Go
    <3>2. timer'[k] = [timer[k] EXCEPT !.pc = pc] /\ \A j \in Timer : j # k => timer'[j] = timer[j]
      BY <3>1 DEF TypeOK
    <3>3. timer'[k].id = timer[k].id /\ timer'[k].pc = pc
      BY <3>2 DEF TypeOK, Free
    <3> QED BY <3>2, <3>3
  <2> QED BY <1>6, <2>1 DEF Expire, Say, Finish, TypeOK, At
<1>7. ASSUME NEW k \in Timer, ForgetRunning(k) PROVE NoStaleCancel'
  <2>1. ASSUME NEW i \in DOMAIN running'
        PROVE  i \in DOMAIN running /\ i # timer[k].id /\ running'[i] = running[i] /\ running[i] # k
    BY <1>7, <2>1 DEF ForgetRunning, Without
  <2> QED BY <1>7, <2>1 DEF ForgetRunning, Go, TypeOK, At
<1>8. ASSUME NEW k \in Timer, ForgetRecord(k) PROVE NoStaleCancel'
  <2>1. ASSUME NEW i \in DOMAIN running PROVE running[i] # k
    BY <1>8, <2>1 DEF ForgetRecord
  <2> QED BY <1>8, <2>1 DEF ForgetRecord, TypeOK, At
<1>9. ASSUME NEW c \in Conn, Connected(c) \/ Set(c) \/ Snooze(c) \/ List(c) \/ Prune(c)
                              \/ Reminded(c) \/ Forget(c)
      PROVE  NoStaleCancel'
  BY <1>1, <1>9 DEF Connected, Set, Snooze, List, Prune, Reminded, Forget, Put, memory
<1>10. ASSUME Tick \/ UNCHANGED vars PROVE NoStaleCancel'
  BY <1>1, <1>10 DEF Tick, vars, memory
<1> QED BY <1>2, <1>3, <1>4, <1>5, <1>6, <1>7, <1>8, <1>9, <1>10 DEF Next, Handle, Run

\* Every variable keeps its type, and a goroutine there is waits for a reminder.
THEOREM TypeCorrect == Spec => []TypeOK
<1>1. RInv => TypeOK
  BY DEF RInv
<1> QED BY InitRInv, StepRInv, <1>1, PTL DEF Spec

\* The map running holds no cancel function of a goroutine that is over, or of another
\* reminder's: so "remind del" and a lost connection cancel what they mean to, and the map
\* does not grow, with any number of servers (reminddriver.go:29, handlers.go:26).
THEOREM CancelsItsOwn == Spec => []NoStaleCancel
<1>1. RInv => NoStaleCancel
  BY DEF RInv
<1> QED BY InitRInv, StepRInv, <1>1, PTL DEF Spec

-----------------------------------------------------------------------------
(***************************************************************************)
(* One server. With two, each CONNECTED starts goroutines for what is      *)
(* stored, also for what the other's already wait for.                     *)
(***************************************************************************)

Runs(k) == timer[k] # Free

\* No two goroutines are there for one reminder.
Once == \A j, k \in Timer : Runs(j) /\ Runs(k) /\ timer[j].id = timer[k].id => j = k

InMap == \A k \in Timer :
    At(k, "wait") => timer[k].id \in DOMAIN running /\ running[timer[k].id] = k

\* What is waited for is stored, with its time and not yet said; the time of a
\* goroutine that no longer waits has come.
AsStored == \A k \in Timer : Runs(k) =>
    /\ timer[k].id \notin unused
    /\ At(k, "wait") => timer[k].id \in DOMAIN db
    /\ timer[k].id \in DOMAIN db => db[timer[k].id] = timer[k].at
    /\ ~At(k, "wait") => timer[k].at <= now
    /\ At(k, "wait") \/ At(k, "due") => said[timer[k].id] = 0

\* The record of what was said may be there still, and is pruned then.
Records == \A id \in Reminder :
    /\ id \in unused => id \notin DOMAIN db
    /\ said[id] <= 1
    /\ id \in DOMAIN db /\ said[id] > 0 => db[id] <= now

\* What was read for load is stored as it was read, or will be pruned.
Pruning(c) == handler[c].pc = "prune" => \A e \in handler[c].todo :
    /\ e[1] \notin unused
    /\ \/ e[1] \in DOMAIN db /\ db[e[1]] = e[2]
       \/ e[2] <= now
    /\ \A k \in Timer : Runs(k) /\ timer[k].id = e[1] => timer[k].at = e[2]
    /\ said[e[1]] > 0 => e[2] <= now
    /\ \A f \in handler[c].todo : e[1] = f[1] => e[2] = f[2]

\* What is to be started is stored and has no goroutine, nor was it said.
Starting(c) == handler[c].pc = "remind" => \A e \in handler[c].todo :
    /\ e[1] \notin unused
    /\ e[1] \in DOMAIN db /\ db[e[1]] = e[2]
    /\ \A k \in Timer : Runs(k) => timer[k].id # e[1]
    /\ said[e[1]] = 0

Forgetting(c) == handler[c].pc = "forget" =>
    \A e \in handler[c].todo : \A k \in Timer : At(k, "wait") => timer[k].id # e[1]

\* Nothing waits while the server is away or load has started nothing yet.
Quiet(c) ==
    /\ c \notin up => handler[c].pc = "idle"
    /\ c \notin up \/ handler[c].pc = "prune" => \A k \in Timer : ~At(k, "wait")

Agree(c) == Once /\ InMap /\ AsStored /\ Records /\ Pruning(c) /\ Starting(c)
            /\ Forgetting(c) /\ Quiet(c)

LEMMA InitAgree == ASSUME NEW c \in Conn, Init PROVE Agree(c)
BY RemindersAssumption
   DEF Init, Agree, Once, InMap, AsStored, Records, Pruning, Starting, Forgetting, Quiet,
       Runs, At, Free, Idle

\* The goroutines that run are the ones that do something.
LEMMA RunsIs ==
    ASSUME TypeOK, NEW k \in Timer
    PROVE  /\ Runs(k) <=> timer[k].pc # "free"
           /\ Runs(k) => timer[k].id \in Reminder /\ timer[k].at \in Time
BY TimerIs DEF Runs

LEMMA TickAgree == ASSUME NEW c \in Conn, RInv, Agree(c), Tick PROVE Agree(c)'
<1>1. now \in Nat /\ now' = now + 1 /\ \A k \in Timer : Runs(k) => timer[k].at \in Nat
  BY Constants, RunsIs DEF RInv, TypeOK, Time, Tick
<1>2. \A id \in DOMAIN db : db[id] \in Nat
  BY Constants DEF RInv, TypeOK, Time
<1>3. \A e \in handler[c].todo : e[2] \in Nat
  BY Constants DEF RInv, TypeOK, Time
<1>4. UNCHANGED <<db, up, handler, memory, said, unused, left>>
  BY DEF Tick
<1>5. (Once /\ InMap /\ Starting(c) /\ Forgetting(c) /\ Quiet(c))'
  BY <1>4 DEF Agree, Once, InMap, Starting, Forgetting, Quiet, Runs, At, memory
<1>6. AsStored'
  BY <1>1, <1>4 DEF Agree, AsStored, Runs, At, memory
<1>7. Records'
  BY <1>1, <1>2, <1>4 DEF Agree, Records, RInv, TypeOK
<1>8. Pruning(c)'
  BY <1>1, <1>3, <1>4 DEF Agree, Pruning, Runs, memory
<1> QED BY <1>5, <1>6, <1>7, <1>8 DEF Agree

\* CONNECTED: the server was away, so nothing waits, and all that is stored is read.
LEMMA ConnectedAgree == ASSUME NEW c \in Conn, RInv, Agree(c), Connected(c) PROVE Agree(c)'
<1>1. /\ UNCHANGED <<now, db, memory, said, unused>>
      /\ up' = up \cup {c} /\ c \notin up
      /\ handler'[c] = [pc |-> "prune", todo |-> Stored, nick |-> None]
  BY DEF Connected, RInv, TypeOK
<1>2. (Once /\ InMap /\ AsStored /\ Records)'
  BY <1>1 DEF Agree, Once, InMap, AsStored, Records, Runs, At, memory
<1>3. \A e \in Stored : e[1] \in DOMAIN db /\ db[e[1]] = e[2]
  BY DEF Stored
<1>4. Pruning(c)'
  <2> SUFFICES ASSUME NEW e \in Stored
               PROVE  /\ e[1] \notin unused
                      /\ \A k \in Timer : Runs(k) /\ timer[k].id = e[1] => timer[k].at = e[2]
                      /\ said[e[1]] > 0 => e[2] <= now
                      /\ \A f \in Stored : e[1] = f[1] => e[2] = f[2]
    BY <1>1, <1>3 DEF Pruning, Runs, memory
  <2>1. e[1] \in DOMAIN db /\ db[e[1]] = e[2] /\ e[1] \in Reminder
    BY <1>3 DEF RInv, TypeOK
  <2> QED BY <1>3, <2>1 DEF Agree, AsStored, Records
<1>5. (Starting(c) /\ Forgetting(c))'
  BY <1>1 DEF Starting, Forgetting
<1>6. Quiet(c)'
  BY <1>1 DEF Agree, Quiet, At, memory
<1> QED BY <1>2, <1>4, <1>5, <1>6 DEF Agree

\* What load prunes has no goroutine that waits; what is left was stored for later.
LEMMA PruneAgree == ASSUME NEW c \in Conn, RInv, Agree(c), Prune(c) PROVE Agree(c)'
<1> DEFINE todo == handler[c].todo
           old == {e \in todo : e[2] <= now}
<1>1. /\ UNCHANGED <<now, up, memory, said, unused>>
      /\ db' = [id \in DOMAIN db \ {e[1] : e \in old} |-> db[id]]
      /\ handler'[c] = [pc |-> "remind", todo |-> todo \ old, nick |-> None]
      /\ handler[c].pc = "prune"
  BY DEF Prune, RInv, TypeOK, Reminding
<1>2. DOMAIN db' = DOMAIN db \ {e[1] : e \in old} /\ \A id \in DOMAIN db' : db'[id] = db[id]
  BY <1>1
<1>3. \A k \in Timer : ~At(k, "wait")
  BY <1>1 DEF Agree, Quiet
<1>4. now \in Nat /\ \A e \in todo : e[2] \in Nat
  BY Constants DEF RInv, TypeOK, Time
<1>5. (Once /\ InMap)'
  BY <1>1 DEF Agree, Once, InMap, Runs, At, memory
<1>6. (AsStored /\ Records)'
  BY <1>1, <1>2, <1>3 DEF Agree, AsStored, Records, Runs, At, memory
<1>7. Starting(c)'
  <2> SUFFICES ASSUME NEW e \in todo, e \notin old
               PROVE  /\ e[1] \notin unused
                      /\ e[1] \in DOMAIN db' /\ db'[e[1]] = e[2]
                      /\ \A k \in Timer : Runs(k) => timer[k].id # e[1]
                      /\ said[e[1]] = 0
    BY <1>1 DEF Starting, Runs, memory
  <2>1. /\ e[1] \notin unused
        /\ \/ e[1] \in DOMAIN db /\ db[e[1]] = e[2]
           \/ e[2] <= now
        /\ \A k \in Timer : Runs(k) /\ timer[k].id = e[1] => timer[k].at = e[2]
        /\ said[e[1]] > 0 => e[2] <= now
        /\ \A f \in todo : e[1] = f[1] => e[2] = f[2]
    BY <1>1 DEF Agree, Pruning
  <2>2. ~(e[2] <= now) /\ e[1] \in Reminder
    BY <1>4 DEF RInv, TypeOK
  <2>3. \A f \in old : f[1] # e[1]
    BY <2>1, <2>2
  <2>4. e[1] \in DOMAIN db' /\ db'[e[1]] = e[2]
    BY <1>2, <2>1, <2>2, <2>3
  <2>5. \A k \in Timer : Runs(k) => timer[k].id # e[1]
    BY <1>3, <2>1, <2>2 DEF Agree, AsStored
  <2>6. said[e[1]] = 0
    BY <2>1, <2>2 DEF RInv, TypeOK
  <2> QED BY <2>1, <2>4, <2>5, <2>6
<1>8. (Pruning(c) /\ Forgetting(c))'
  BY <1>1 DEF Pruning, Forgetting
<1>9. Quiet(c)'
  BY <1>1 DEF Agree, Quiet, At, memory, Idle
<1> QED BY <1>5, <1>6, <1>7, <1>8, <1>9 DEF Agree

\* The handler starts a goroutine for a reminder that has none, or none for a time that
\* has passed.
LEMMA RemindAgree == ASSUME NEW c \in Conn, RInv, Agree(c), Remind(c) PROVE Agree(c)'
<1> DEFINE todo == handler[c].todo
<1>1. PICK e \in todo, k \in Timer :
        /\ handler[c].pc = "remind" /\ timer[k] = Free
        /\ IF e[2] < now
           THEN UNCHANGED <<timer, running>>
           ELSE /\ timer' = [timer EXCEPT ![k] = [pc |-> "wait", id |-> e[1], at |-> e[2]]]
                /\ running' = With(running, e[1], k)
        /\ handler' = [handler EXCEPT ![c].todo = @ \ {e}]
        /\ UNCHANGED <<now, db, up, finished, listed, said, unused, left>>
  BY DEF Remind
<1>2. handler'[c].pc = "remind" /\ handler'[c].todo = todo \ {e}
  BY <1>1 DEF RInv, TypeOK
<1>3. \A f \in todo : f \in Reminder \X Time
  BY DEF RInv, TypeOK
<1>4. \A f \in todo : /\ f[1] \notin unused /\ f[1] \in DOMAIN db /\ db[f[1]] = f[2]
                      /\ \A j \in Timer : Runs(j) => timer[j].id # f[1]
                      /\ said[f[1]] = 0
  BY <1>1 DEF Agree, Starting
<1>5. \A f \in todo \ {e} : f[1] # e[1]
  BY <1>3, <1>4
<1>6. (Pruning(c) /\ Forgetting(c))'
  BY <1>2 DEF Pruning, Forgetting
<1>7. Records'
  BY <1>1 DEF Agree, Records
<1>8. Quiet(c)'
  BY <1>1, <1>2 DEF Agree, Quiet
<1>9. CASE e[2] < now
  <2>1. UNCHANGED <<timer, running>>
    BY <1>1, <1>9
  <2>2. (Once /\ InMap /\ AsStored)'
    BY <1>1, <2>1 DEF Agree, Once, InMap, AsStored, Runs, At
  <2>3. Starting(c)'
    BY <1>1, <1>2, <1>4, <2>1 DEF Starting, Runs
  <2> QED BY <1>6, <1>7, <1>8, <2>2, <2>3 DEF Agree
<1>10. CASE ~(e[2] < now)
  <2>1. /\ timer' = [timer EXCEPT ![k] = [pc |-> "wait", id |-> e[1], at |-> e[2]]]
        /\ running' = With(running, e[1], k)
    BY <1>1, <1>10
  <2>2. /\ timer'[k] = [pc |-> "wait", id |-> e[1], at |-> e[2]]
        /\ \A j \in Timer \ {k} : timer'[j] = timer[j]
    BY <2>1 DEF RInv, TypeOK
  <2>3. /\ running'[e[1]] = k /\ e[1] \in DOMAIN running'
        /\ \A id \in DOMAIN running \ {e[1]} : id \in DOMAIN running' /\ running'[id] = running[id]
    BY <2>1 DEF With
  <2>4. Once'
    BY <1>4, <2>2 DEF Agree, Once, Runs
  <2>5. InMap'
    <3> SUFFICES ASSUME NEW j \in Timer \ {k}, timer[j].pc = "wait"
                 PROVE  timer[j].id \in DOMAIN running' /\ running'[timer[j].id] = j
      BY <2>2, <2>3 DEF InMap, At
    <3>1. Runs(j)
      BY DEF Runs, Free
    <3>2. timer[j].id # e[1]
      BY <1>4, <3>1
    <3> QED BY <2>3, <3>2 DEF Agree, InMap, At
  <2>6. AsStored'
    BY <1>1, <1>4, <2>2 DEF Agree, AsStored, Runs, At
  <2>7. Starting(c)'
    BY <1>1, <1>2, <1>4, <1>5, <2>2 DEF Starting, Runs
  <2>8. Quiet(c)'
    BY <1>1, <1>2 DEF Agree, Quiet
  <2> QED BY <1>6, <1>7, <2>4, <2>5, <2>6, <2>7, <2>8 DEF Agree
<1> QED BY <1>9, <1>10

LEMMA RemindedAgree == ASSUME NEW c \in Conn, RInv, Agree(c), Reminded(c) PROVE Agree(c)'
<1>1. /\ handler[c].pc = "remind" /\ handler[c].todo = {}
      /\ handler'[c].pc = "idle"
      /\ UNCHANGED <<now, db, up, memory, said, unused, left>>
  BY DEF Reminded, Idle, RInv, TypeOK
<1>2. (Once /\ InMap /\ AsStored /\ Records)'
  BY <1>1 DEF Agree, Once, InMap, AsStored, Records, Runs, At, memory
<1>3. (Pruning(c) /\ Starting(c) /\ Forgetting(c))'
  BY <1>1 DEF Pruning, Starting, Forgetting
<1>4. Quiet(c)'
  BY <1>1 DEF Agree, Quiet, At, memory
<1> QED BY <1>2, <1>3, <1>4 DEF Agree

\* DISCONNECTED: what waits is in running, so nothing waits any more.
LEMMA DisconnectedAgree == ASSUME NEW c \in Conn, RInv, Agree(c), Disconnected(c) PROVE Agree(c)'
<1>1. /\ UNCHANGED <<now, db, handler, said, unused>>
      /\ up' = up \ {c}
      /\ handler[c].pc = "idle"
  BY DEF Disconnected, Ready
<1>2. \A k \in Timer : timer'[k] = Free \/ (timer'[k] = timer[k] /\ ~At(k, "wait"))
  <2> SUFFICES ASSUME NEW k \in Timer, At(k, "wait") PROVE timer'[k] = Free
    BY DEF Disconnected, Cancel
  <2>1. timer[k].id \in DOMAIN running /\ running[timer[k].id] = k
    BY DEF Agree, InMap
  <2> QED BY <2>1 DEF Disconnected, Cancel, At
<1>3. \A k \in Timer : timer'[k].pc # "wait"
  BY <1>2 DEF At, Free
<1>4. (Once /\ AsStored)'
  BY <1>1, <1>2, <1>3 DEF Agree, Once, AsStored, Runs, At
<1>5. (InMap /\ Quiet(c))'
  BY <1>1, <1>3 DEF InMap, Quiet, At
<1>6. Records'
  BY <1>1 DEF Agree, Records
<1>7. (Pruning(c) /\ Starting(c) /\ Forgetting(c))'
  BY <1>1 DEF Pruning, Starting, Forgetting
<1> QED BY <1>4, <1>5, <1>6, <1>7 DEF Agree

\* A new reminder: nothing runs for it, and it is the handler's to start.
LEMMA SetAgree == ASSUME NEW c \in Conn, RInv, Agree(c), Set(c) PROVE Agree(c)'
<1>1. PICK id \in unused, at \in now .. MaxTime :
        Put(c, id, at, From[id]) /\ unused' = unused \ {id}
  BY DEF Set
<1>2. /\ db' = With(db, id, at)
      /\ UNCHANGED <<now, up, timer, running>>
      /\ handler[c].pc = "idle" /\ c \in up
      /\ handler'[c].pc = "remind" /\ handler'[c].todo = {<<id, at>>}
  BY <1>1 DEF Set, Ready, Put, Reminding, RInv, TypeOK
<1>3. id \in Reminder /\ id \notin DOMAIN db
  BY DEF RInv, TypeOK, Agree, Records
<1>4. /\ DOMAIN db' = DOMAIN db \cup {id} /\ db'[id] = at
      /\ \A i \in DOMAIN db : db'[i] = db[i]
  BY <1>2, <1>3 DEF With
<1>5. said'[id] = 0 /\ \A i \in Reminder \ {id} : said'[i] = said[i]
  BY <1>1, <1>3 DEF Put, RInv, TypeOK
<1>6. \A k \in Timer : Runs(k) => timer[k].id # id /\ timer[k].id \in Reminder
  BY RunsIs DEF Agree, AsStored, RInv
<1>7. (Once /\ InMap)'
  BY <1>2 DEF Agree, Once, InMap, Runs, At
<1>8. AsStored'
  <2> SUFFICES ASSUME NEW k \in Timer, Runs(k)
               PROVE  /\ timer[k].id \notin unused'
                      /\ At(k, "wait") => timer[k].id \in DOMAIN db'
                      /\ timer[k].id \in DOMAIN db' => db'[timer[k].id] = timer[k].at
                      /\ ~At(k, "wait") => timer[k].at <= now
                      /\ At(k, "wait") \/ At(k, "due") => said'[timer[k].id] = 0
    BY <1>2 DEF AsStored, Runs, At
  <2> QED BY <1>1, <1>4, <1>5, <1>6 DEF Agree, AsStored
<1>9. Records'
  BY <1>1, <1>2, <1>4, <1>5 DEF Agree, Records
<1>10. Starting(c)'
  BY <1>1, <1>2, <1>4, <1>5, <1>6 DEF Starting, Runs
<1>11. (Pruning(c) /\ Forgetting(c) /\ Quiet(c))'
  BY <1>2 DEF Pruning, Forgetting, Quiet
<1> QED BY <1>7, <1>8, <1>9, <1>10, <1>11 DEF Agree

\* "remind del": the goroutine that waits, if there is one, is the one it cancels.
LEMMA DelAgree == ASSUME NEW c \in Conn, RInv, Agree(c), Del(c) PROVE Agree(c)'
<1>1. PICK n \in Nick : \E id \in listed[n] :
        /\ Cancel(IF id \in DOMAIN running THEN {running[id]} ELSE {})
        /\ running' = Without(running, id)
        /\ handler' = [handler EXCEPT ![c] = [pc |-> "forget", todo |-> {<<id, 0>>}, nick |-> n]]
  BY DEF Del
<1>2. PICK id \in listed[n] :
        /\ Cancel(IF id \in DOMAIN running THEN {running[id]} ELSE {})
        /\ running' = Without(running, id)
        /\ handler' = [handler EXCEPT ![c] = [pc |-> "forget", todo |-> {<<id, 0>>}, nick |-> n]]
  BY <1>1
<1>3. /\ UNCHANGED <<now, db, up, said, unused>>
      /\ handler[c].pc = "idle" /\ c \in up
      /\ handler'[c].pc = "forget" /\ handler'[c].todo = {<<id, 0>>}
  BY <1>2 DEF Del, Ready, RInv, TypeOK
<1>4. \A k \in Timer : At(k, "wait") /\ timer[k].id = id => timer'[k] = Free
  BY <1>2 DEF Agree, InMap, Cancel, At
<1>5. \A k \in Timer : timer'[k] = timer[k] \/ timer'[k] = Free
  BY <1>2 DEF Cancel
<1>6. \A k \in Timer : timer'[k].pc = "wait" => timer'[k] = timer[k] /\ timer[k].id # id
  BY <1>4, <1>5 DEF At, Free
<1>7. \A i \in DOMAIN running \ {id} : i \in DOMAIN running' /\ running'[i] = running[i]
  BY <1>2 DEF Without
<1>8. (Once /\ AsStored)'
  BY <1>3, <1>5 DEF Agree, Once, AsStored, Runs, At
<1>9. InMap'
  BY <1>6, <1>7 DEF Agree, InMap, At
<1>10. Records'
  BY <1>3 DEF Agree, Records
<1>11. (Pruning(c) /\ Starting(c) /\ Quiet(c))'
  BY <1>3 DEF Pruning, Starting, Quiet
<1>12. Forgetting(c)'
  BY <1>3, <1>6 DEF Forgetting, At
<1> QED BY <1>8, <1>9, <1>10, <1>11, <1>12 DEF Agree

LEMMA ForgetAgree == ASSUME NEW c \in Conn, RInv, Agree(c), Forget(c) PROVE Agree(c)'
<1>1. PICK e \in handler[c].todo : db' = Without(db, e[1])
  BY DEF Forget
<1>2. /\ UNCHANGED <<now, up, timer, running, said, unused>>
      /\ handler[c].pc = "forget" /\ handler'[c].pc = "idle"
  BY DEF Forget, Idle, RInv, TypeOK
<1>3. DOMAIN db' = DOMAIN db \ {e[1]} /\ \A id \in DOMAIN db' : db'[id] = db[id]
  BY <1>1 DEF Without
<1>4. \A k \in Timer : At(k, "wait") => timer[k].id # e[1]
  BY <1>2 DEF Agree, Forgetting
<1>5. (Once /\ InMap)'
  BY <1>2 DEF Agree, Once, InMap, Runs, At
<1>6. AsStored'
  BY <1>2, <1>3, <1>4 DEF Agree, AsStored, Runs, At
<1>7. Records'
  BY <1>2, <1>3 DEF Agree, Records
<1>8. (Pruning(c) /\ Starting(c) /\ Forgetting(c))'
  BY <1>2 DEF Pruning, Starting, Forgetting
<1>9. Quiet(c)'
  BY <1>2 DEF Agree, Quiet, At
<1> QED BY <1>5, <1>6, <1>7, <1>8, <1>9 DEF Agree

\* After a restart nothing waits, and nothing is connected.
LEMMA RestartAgree == ASSUME NEW c \in Conn, RInv, Agree(c), Restart PROVE Agree(c)'
<1>1. /\ UNCHANGED <<now, db, said, unused>>
      /\ up' = {} /\ handler'[c].pc = "idle"
      /\ \A k \in Timer : timer'[k] = Free
  BY DEF Restart, Idle
<1>2. Records'
  BY <1>1 DEF Agree, Records
<1>3. \A k \in Timer : timer'[k].pc # "wait"
  BY <1>1 DEF Free
<1> QED BY <1>1, <1>2, <1>3
        DEF Agree, Once, InMap, AsStored, Pruning, Starting, Forgetting, Quiet, Runs, At

\* What the steps of a goroutine that stays have in common.
LEMMA GoIs ==
    ASSUME TypeOK, NEW k \in Timer, NEW pc, pc # "free", Go(k, pc), timer[k].pc # "free"
    PROVE  /\ timer'[k].pc = pc
           /\ \A j \in Timer : /\ j # k => timer'[j] = timer[j]
                               /\ timer'[j].id = timer[j].id /\ timer'[j].at = timer[j].at
                               /\ timer'[j] # Free <=> Runs(j)
<1>1. timer[k] \in [pc : {"wait", "due", "said", "push", "forget"}, id : Reminder, at : Time]
  BY DEF TypeOK, Free
<1> QED BY <1>1, RunsIs DEF TypeOK, Go, Free, Runs

\* The deadline: the reminder that is no longer waited for is not for later.
LEMMA ExpireAgree ==
    ASSUME NEW c \in Conn, NEW k \in Timer, RInv, Agree(c), Expire(k) PROVE Agree(c)'
<1>1. /\ timer[k].pc = "wait" /\ timer[k].at <= now
      /\ UNCHANGED <<now, db, up, handler, running, said, unused>>
  BY DEF Expire, At
<1>2. /\ timer'[k].pc = "due"
      /\ \A j \in Timer : /\ j # k => timer'[j] = timer[j]
                          /\ timer'[j].id = timer[j].id /\ timer'[j].at = timer[j].at
                          /\ timer'[j] # Free <=> Runs(j)
  BY <1>1, GoIs DEF Expire, RInv
<1>3. Runs(k)
  BY <1>1, RunsIs DEF RInv
<1>4. (Once /\ InMap)'
  BY <1>1, <1>2 DEF Agree, Once, InMap, Runs, At
<1>5. AsStored'
  BY <1>1, <1>2 DEF Agree, AsStored, Runs, At
<1>6. Records'
  BY <1>1 DEF Agree, Records
<1>7. (Pruning(c) /\ Starting(c))'
  BY <1>1, <1>2 DEF Agree, Pruning, Starting, Runs
<1>8. (Forgetting(c) /\ Quiet(c))'
  BY <1>1, <1>2 DEF Agree, Forgetting, Quiet, At
<1> QED BY <1>4, <1>5, <1>6, <1>7, <1>8 DEF Agree

\* Said, for the first time, and its record is one of the past.
LEMMA SayAgree ==
    ASSUME NEW c \in Conn, NEW k \in Timer, RInv, Agree(c), Say(k) PROVE Agree(c)'
<1>1. /\ timer[k].pc = "due" /\ said' = [said EXCEPT ![timer[k].id] = @ + 1]
      /\ UNCHANGED <<now, db, up, handler, running, unused>>
  BY DEF Say, At
<1>2. /\ timer'[k].pc = "said"
      /\ \A j \in Timer : /\ j # k => timer'[j] = timer[j]
                          /\ timer'[j].id = timer[j].id /\ timer'[j].at = timer[j].at
                          /\ timer'[j] # Free <=> Runs(j)
  BY <1>1, GoIs DEF Say, RInv
<1>3. Runs(k) /\ timer[k].id \in Reminder
  BY <1>1, RunsIs DEF RInv
<1>4. /\ timer[k].at <= now /\ said[timer[k].id] = 0
      /\ timer[k].id \in DOMAIN db => db[timer[k].id] = timer[k].at
      /\ timer[k].id \notin unused
  BY <1>1, <1>3 DEF Agree, AsStored, At
<1>5. /\ said'[timer[k].id] = 1
      /\ \A id \in Reminder \ {timer[k].id} : said'[id] = said[id]
  BY <1>1, <1>3, <1>4 DEF RInv, TypeOK
<1>6. (Once /\ InMap)'
  BY <1>1, <1>2 DEF Agree, Once, InMap, Runs, At
<1>7. AsStored'
  <2> SUFFICES ASSUME NEW j \in Timer, Runs(j)
               PROVE  /\ timer'[j].id \notin unused
                      /\ timer'[j].pc = "wait" => timer'[j].id \in DOMAIN db
                      /\ timer'[j].id \in DOMAIN db => db[timer'[j].id] = timer'[j].at
                      /\ timer'[j].pc # "wait" => timer'[j].at <= now
                      /\ timer'[j].pc = "wait" \/ timer'[j].pc = "due" => said'[timer'[j].id] = 0
    BY <1>1, <1>2 DEF AsStored, Runs, At
  <2>1. CASE j = k
    BY <1>2, <1>4, <2>1
  <2>2. CASE j # k
    <3>1. timer[j].id # timer[k].id /\ timer[j].id \in Reminder
      BY <1>3, <2>2, RunsIs DEF Agree, Once, RInv
    <3> QED BY <1>2, <1>5, <2>2, <3>1 DEF Agree, AsStored, At
  <2> QED BY <2>1, <2>2
<1>8. Records'
  BY <1>1, <1>4, <1>5 DEF Agree, Records
<1>9. Pruning(c)'
  <2> SUFFICES ASSUME handler[c].pc = "prune", NEW e \in handler[c].todo, said'[e[1]] > 0
               PROVE  e[2] <= now
    BY <1>1, <1>2 DEF Agree, Pruning, Runs
  <2>1. e[1] \in Reminder
    BY DEF RInv, TypeOK
  <2> QED BY <1>3, <1>4, <1>5, <2>1 DEF Agree, Pruning
<1>10. Starting(c)'
  <2> SUFFICES ASSUME handler[c].pc = "remind", NEW e \in handler[c].todo
               PROVE  said'[e[1]] = 0
    BY <1>1, <1>2 DEF Agree, Starting, Runs
  <2>1. e[1] \in Reminder /\ e[1] # timer[k].id
    BY <1>3 DEF RInv, TypeOK, Agree, Starting
  <2> QED BY <1>5, <2>1 DEF Agree, Starting
<1>11. (Forgetting(c) /\ Quiet(c))'
  BY <1>1, <1>2 DEF Agree, Forgetting, Quiet, At
<1> QED BY <1>6, <1>7, <1>8, <1>9, <1>10, <1>11 DEF Agree

LEMMA FinishAgree ==
    ASSUME NEW c \in Conn, NEW k \in Timer, RInv, Agree(c), Finish(k) PROVE Agree(c)'
<1>1. /\ timer[k].pc = "said"
      /\ UNCHANGED <<now, db, up, handler, running, said, unused>>
  BY DEF Finish, At
<1>2. /\ timer'[k].pc = "push"
      /\ \A j \in Timer : /\ j # k => timer'[j] = timer[j]
                          /\ timer'[j].id = timer[j].id /\ timer'[j].at = timer[j].at
                          /\ timer'[j] # Free <=> Runs(j)
  BY <1>1, GoIs DEF Finish, RInv
<1>3. (Once /\ InMap)'
  BY <1>1, <1>2 DEF Agree, Once, InMap, Runs, At
<1>4. (AsStored /\ Records)'
  BY <1>1, <1>2 DEF Agree, AsStored, Records, Runs, At
<1>5. (Pruning(c) /\ Starting(c))'
  BY <1>1, <1>2 DEF Agree, Pruning, Starting, Runs
<1>6. (Forgetting(c) /\ Quiet(c))'
  BY <1>1, <1>2 DEF Agree, Forgetting, Quiet, At
<1> QED BY <1>3, <1>4, <1>5, <1>6 DEF Agree

\* The entry it takes out of running is that of no goroutine that waits.
LEMMA ForgetRunningAgree ==
    ASSUME NEW c \in Conn, NEW k \in Timer, RInv, Agree(c), ForgetRunning(k) PROVE Agree(c)'
<1>1. /\ timer[k].pc = "push" /\ running' = Without(running, timer[k].id)
      /\ UNCHANGED <<now, db, up, handler, said, unused>>
  BY DEF ForgetRunning, At
<1>2. /\ timer'[k].pc = "forget"
      /\ \A j \in Timer : /\ j # k => timer'[j] = timer[j]
                          /\ timer'[j].id = timer[j].id /\ timer'[j].at = timer[j].at
                          /\ timer'[j] # Free <=> Runs(j)
  BY <1>1, GoIs DEF ForgetRunning, RInv
<1>3. Once'
  BY <1>1, <1>2 DEF Agree, Once, Runs
<1>4. InMap'
  <2> SUFFICES ASSUME NEW j \in Timer, timer'[j].pc = "wait"
               PROVE  timer'[j].id \in DOMAIN running' /\ running'[timer'[j].id] = j
    BY DEF InMap, At
  <2>1. j # k /\ timer'[j] = timer[j]
    BY <1>2
  <2>2. timer[j].id # timer[k].id
    BY <1>1, <2>1, RunsIs DEF Agree, Once, RInv
  <2> QED BY <1>1, <2>1, <2>2 DEF Agree, InMap, At, Without
<1>5. (AsStored /\ Records)'
  BY <1>1, <1>2 DEF Agree, AsStored, Records, Runs, At
<1>6. (Pruning(c) /\ Starting(c))'
  BY <1>1, <1>2 DEF Agree, Pruning, Starting, Runs
<1>7. (Forgetting(c) /\ Quiet(c))'
  BY <1>1, <1>2 DEF Agree, Forgetting, Quiet, At
<1> QED BY <1>3, <1>4, <1>5, <1>6, <1>7 DEF Agree

\* The record it deletes is that of no other goroutine, nor one that load will start.
LEMMA ForgetRecordAgree ==
    ASSUME NEW c \in Conn, NEW k \in Timer, RInv, Agree(c), ForgetRecord(k) PROVE Agree(c)'
<1>1. /\ timer[k].pc = "forget" /\ db' = Without(db, timer[k].id)
      /\ UNCHANGED <<now, up, handler, running, said, unused>>
      /\ timer'[k] = Free /\ \A j \in Timer \ {k} : timer'[j] = timer[j]
  BY DEF ForgetRecord, At, RInv, TypeOK
<1>2. DOMAIN db' = DOMAIN db \ {timer[k].id} /\ \A id \in DOMAIN db' : db'[id] = db[id]
  BY <1>1 DEF Without
<1>3. Runs(k) /\ timer[k].at <= now
  BY <1>1, RunsIs DEF Agree, AsStored, At, RInv
<1>4. \A j \in Timer : timer'[j] # Free => j # k /\ Runs(j) /\ timer[j].id # timer[k].id
  BY <1>1, <1>3 DEF Agree, Once, Runs
<1>5. \A j \in Timer : timer'[j].pc = "wait" => timer'[j] # Free
  BY DEF Free
<1>6. (Once /\ InMap)'
  BY <1>1, <1>4, <1>5 DEF Agree, Once, InMap, Runs, At
<1>7. AsStored'
  BY <1>1, <1>2, <1>4 DEF Agree, AsStored, Runs, At
<1>8. Records'
  BY <1>1, <1>2 DEF Agree, Records
<1>9. Pruning(c)'
  BY <1>1, <1>2, <1>3, <1>4 DEF Agree, Pruning, Runs
<1>10. Starting(c)'
  BY <1>1, <1>2, <1>3, <1>4 DEF Agree, Starting, Runs
<1>11. (Forgetting(c) /\ Quiet(c))'
  BY <1>1, <1>4, <1>5 DEF Agree, Forgetting, Quiet, At
<1> QED BY <1>6, <1>7, <1>8, <1>9, <1>10, <1>11 DEF Agree

\* Records and goroutines agree until a snooze, which there is no way back from.
OneInv(c) == RInv /\ (Unsnoozed => Agree(c))

LEMMA StepUnsnoozed == TypeOK /\ [Next]_vars /\ Unsnoozed' =>
    Unsnoozed /\ \A c \in Conn : ~Snooze(c)
<1> SUFFICES ASSUME TypeOK, [Next]_vars, Unsnoozed'
             PROVE  Unsnoozed /\ \A c \in Conn : ~Snooze(c)
  OBVIOUS
<1> USE Constants
<1>1. left.snoozes \in Nat /\ left.snoozes <= MaxSnoozes
  BY DEF TypeOK
<1>2. ASSUME NEW c \in Conn, Snooze(c) PROVE FALSE
  BY <1>1, <1>2 DEF Snooze, Unsnoozed, TypeOK
<1>3. left'.snoozes = left.snoozes
  <2>1. ASSUME NEW c \in Conn, Connected(c) \/ Disconnected(c) \/ Set(c) \/ List(c) \/ Del(c) \/ Handle(c)
        PROVE  left'.snoozes = left.snoozes
    BY <2>1 DEF Connected, Disconnected, Set, List, Del, Handle, Prune, Remind, Reminded, Forget,
                TypeOK
  <2>2. ASSUME NEW k \in Timer, Run(k) PROVE left'.snoozes = left.snoozes
    BY <2>2 DEF Run, Expire, Say, Finish, ForgetRunning, ForgetRecord
  <2>3. CASE Tick \/ Restart \/ UNCHANGED vars
    BY <2>3 DEF Tick, Restart, vars, TypeOK
  <2> QED BY <1>2, <2>1, <2>2, <2>3 DEF Next
<1> QED BY <1>1, <1>2, <1>3 DEF Unsnoozed

LEMMA InitOneInv == ASSUME NEW c \in Conn PROVE Init => OneInv(c)
BY InitRInv, InitAgree DEF OneInv

LEMMA StepOneInv == ASSUME NEW c, Conn = {c} PROVE OneInv(c) /\ [Next]_vars => OneInv(c)'
<1> SUFFICES ASSUME OneInv(c), [Next]_vars, Unsnoozed' PROVE Agree(c)'
  BY StepRInv DEF OneInv
<1>1. RInv /\ Agree(c) /\ ~Snooze(c) /\ c \in Conn
  BY StepUnsnoozed DEF OneInv, RInv
<1>2. ASSUME Connected(c) \/ Disconnected(c) \/ Set(c) \/ Del(c) \/ Handle(c) PROVE Agree(c)'
  BY <1>1, <1>2, ConnectedAgree, DisconnectedAgree, SetAgree, DelAgree, PruneAgree, RemindAgree,
     RemindedAgree, ForgetAgree DEF Handle
<1>3. ASSUME NEW k \in Timer, Run(k) PROVE Agree(c)'
  BY <1>1, <1>3, ExpireAgree, SayAgree, FinishAgree, ForgetRunningAgree, ForgetRecordAgree DEF Run
<1>4. ASSUME List(c) \/ UNCHANGED vars PROVE Agree(c)'
  <2>1. UNCHANGED <<now, db, up, handler, timer, running, said, unused>>
    BY <1>4 DEF List, vars
  <2> QED BY <1>1, <2>1 DEF Agree, Once, InMap, AsStored, Records, Pruning, Starting, Forgetting,
                            Quiet, Runs, At
<1>5. CASE Tick \/ Restart
  BY <1>1, <1>5, TickAgree, RestartAgree
<1>6. Next \/ UNCHANGED vars
  OBVIOUS
<1> QED BY <1>1, <1>2, <1>3, <1>4, <1>5, <1>6 DEF Next

\* With one server and until a snooze, what running cancels is what waits: a goroutine that
\* "remind del" or a disconnect means is there to be cancelled (reminddriver.go:28-29).
THEOREM CanBeKilled == ASSUME NEW c, Conn = {c} PROVE Spec => []Killable
<1>1. Init => OneInv(c)
  BY InitOneInv
<1>2. OneInv(c) /\ [Next]_vars => OneInv(c)'
  BY StepOneInv
<1>3. OneInv(c) => Killable
  BY DEF OneInv, Agree, InMap, Killable, Waiting
<1> QED BY <1>1, <1>2, <1>3, PTL DEF Spec

\* With one server and until a snooze no reminder is said twice: not when the server is lost
\* and load starts the goroutines again, nor after a restart between saying it and
\* deleting its record (reminders.go:179-210, reminddriver.go:86-110).
THEOREM NeverTwice == ASSUME NEW c, Conn = {c} PROVE Spec => []SaidOnce
<1>1. Init => OneInv(c)
  BY InitOneInv
<1>2. OneInv(c) /\ [Next]_vars => OneInv(c)'
  BY StepOneInv
<1>3. OneInv(c) => SaidOnce
  BY DEF OneInv, Agree, Records, SaidOnce
<1> QED BY <1>1, <1>2, <1>3, PTL DEF Spec

\* With one server and until a snooze a goroutine's time comes only while its record is stored
\* with that time: a deleted reminder is never said unless it was due before the command.
THEOREM NoneComesLate == ASSUME NEW c, Conn = {c} PROVE Spec => DueIsStored
<1>1. Init => OneInv(c)
  BY InitOneInv
<1>2. OneInv(c) /\ [Next]_vars => OneInv(c)'
  BY StepOneInv
<1>3. OneInv(c) => \A k \in Timer : Unsnoozed /\ At(k, "wait") =>
                      timer[k].id \in DOMAIN db /\ db[timer[k].id] = timer[k].at
  <2> SUFFICES ASSUME OneInv(c), Unsnoozed, NEW k \in Timer, At(k, "wait")
               PROVE  timer[k].id \in DOMAIN db /\ db[timer[k].id] = timer[k].at
    OBVIOUS
  <2>1. Runs(k)
    BY RunsIs DEF OneInv, RInv, At
  <2> QED BY <2>1 DEF OneInv, Agree, AsStored
<1>4. OneInv(c) /\ [Next]_vars =>
        [\A k \in Timer : Unsnoozed /\ At(k, "wait") /\ timer'[k].pc = "due" =>
           timer[k].id \in DOMAIN db /\ db[timer[k].id] = timer[k].at]_vars
  BY <1>3
<1> QED BY <1>1, <1>2, <1>4, PTL DEF Spec, DueIsStored

-----------------------------------------------------------------------------
(***************************************************************************)
(* Any number of servers, until a snooze: while all are connected what is  *)
(* stored for later is waited for, or a handler is about to start it or to *)
(* delete it. A goroutine's end takes away no record's last one, since all *)
(* that was ever read or started for a reminder has the one time it has.   *)
(***************************************************************************)

Loading(c, id, at) == handler[c].pc \in {"prune", "remind"} /\ <<id, at>> \in handler[c].todo

\* Somewhere a reminder has this time.
Mark(id, at) ==
    \/ id \in DOMAIN db /\ db[id] = at
    \/ \E k \in Timer : Runs(k) /\ timer[k].id = id /\ timer[k].at = at
    \/ \E c \in Conn : Loading(c, id, at)

OneTime == \A id \in Reminder : \A at \in Time : Mark(id, at) =>
    id \notin unused /\ \A t \in Time : Mark(id, t) => t = at

Covered == up = Conn => \A id \in DOMAIN db : db[id] > now =>
    \/ \E k \in Timer : At(k, "wait") /\ timer[k].id = id
    \/ \E c \in Conn : Loading(c, id, db[id])
    \/ \E c \in Conn : handler[c].pc = "forget" /\ <<id, 0>> \in handler[c].todo

\* A handler deletes one reminder; and nobody stores one when there is no server.
OneToForget == \A c \in Conn : handler[c].pc = "forget" => \E id : handler[c].todo = {<<id, 0>>}
Bare == Conn = {} => DOMAIN db = {}

KInv == RInv /\ OneToForget /\ Bare /\ (Unsnoozed => OneTime /\ Covered)

LEMMA InitKInv == Init => KInv
<1> SUFFICES ASSUME Init PROVE OneToForget /\ Bare /\ OneTime /\ Covered
  BY InitRInv DEF KInv
<1> QED BY DEF Init, OneToForget, Bare, OneTime, Covered, Mark, Loading, Runs, Idle

\* What the handler of a connection has to do after each of its steps; those of the
\* others have what they had.
OthersStay(c) == \A d \in Conn \ {c} : handler'[d] = handler[d]

LEMMA HandlerIs ==
    ASSUME TypeOK, NEW c \in Conn
    PROVE  /\ Disconnected(c) \/ List(c) => handler' = handler
           /\ Connected(c) => handler'[c].pc = "prune" /\ handler'[c].todo = Stored
           /\ Prune(c) => /\ handler'[c].pc = "remind" /\ handler'[c].todo \subseteq handler[c].todo
                          /\ \A e \in handler[c].todo : ~(e[2] <= now) => e \in handler'[c].todo
           /\ Remind(c) => handler'[c].pc = "remind" /\ handler'[c].todo \subseteq handler[c].todo
           /\ Set(c) \/ Snooze(c) => handler'[c].pc = "remind"
           /\ Reminded(c) \/ Forget(c) => handler'[c].pc = "idle"
           /\ Del(c) => handler'[c].pc = "forget" /\ \E id : handler'[c].todo = {<<id, 0>>}
           /\ Connected(c) \/ Disconnected(c) => OthersStay(c)
           /\ Set(c) \/ Snooze(c) \/ List(c) \/ Del(c) => OthersStay(c)
           /\ Handle(c) => OthersStay(c)
<1> USE DEF TypeOK, OthersStay
<1>1. Disconnected(c) \/ List(c) => handler' = handler
  BY DEF Disconnected, List
<1>2. Connected(c) => handler'[c].pc = "prune" /\ handler'[c].todo = Stored /\ OthersStay(c)
  BY DEF Connected
<1>3. Prune(c) => /\ handler'[c].pc = "remind" /\ handler'[c].todo \subseteq handler[c].todo
                  /\ \A e \in handler[c].todo : ~(e[2] <= now) => e \in handler'[c].todo
                  /\ OthersStay(c)
  <2>1. Prune(c) => handler'[c] = Reminding(handler[c].todo \ {e \in handler[c].todo : e[2] <= now})
    BY DEF Prune
  <2>2. Prune(c) => OthersStay(c)
    BY DEF Prune
  <2> QED BY <2>1, <2>2 DEF Reminding
<1>4. Remind(c) => /\ handler'[c].pc = "remind" /\ handler'[c].todo \subseteq handler[c].todo
                   /\ OthersStay(c)
  <2> SUFFICES ASSUME Remind(c)
               PROVE  /\ handler'[c].pc = "remind" /\ handler'[c].todo \subseteq handler[c].todo
                      /\ OthersStay(c)
    OBVIOUS
  <2>1. PICK e \in handler[c].todo :
          handler[c].pc = "remind" /\ handler' = [handler EXCEPT ![c].todo = @ \ {e}]
    BY DEF Remind
  <2> QED BY <2>1
<1>5. ASSUME NEW id, NEW at, NEW by, Put(c, id, at, by) PROVE handler'[c].pc = "remind" /\ OthersStay(c)
  BY <1>5 DEF Put, Reminding
<1>6. Set(c) \/ Snooze(c) => handler'[c].pc = "remind" /\ OthersStay(c)
  BY <1>5 DEF Set, Snooze
<1>7. Reminded(c) \/ Forget(c) => handler'[c].pc = "idle" /\ OthersStay(c)
  BY DEF Reminded, Forget, Idle
<1>8. Del(c) => /\ handler'[c].pc = "forget" /\ \E id : handler'[c].todo = {<<id, 0>>}
                /\ OthersStay(c)
  <2> SUFFICES ASSUME Del(c)
               PROVE  /\ handler'[c].pc = "forget" /\ \E id : handler'[c].todo = {<<id, 0>>}
                      /\ OthersStay(c)
    OBVIOUS
  <2>1. PICK n \in Nick : \E id \in listed[n] :
          handler' = [handler EXCEPT ![c] = [pc |-> "forget", todo |-> {<<id, 0>>}, nick |-> n]]
    BY DEF Del
  <2>2. PICK id \in listed[n] :
          handler' = [handler EXCEPT ![c] = [pc |-> "forget", todo |-> {<<id, 0>>}, nick |-> n]]
    BY <2>1
  <2>3. handler'[c].pc = "forget" /\ handler'[c].todo = {<<id, 0>>} /\ OthersStay(c)
    BY <2>2
  <2> QED BY <2>3
<1> QED BY <1>1, <1>2, <1>3, <1>4, <1>6, <1>7, <1>8 DEF Handle

LEMMA StepShape ==
    ASSUME RInv, OneToForget, Bare, [Next]_vars PROVE OneToForget' /\ Bare'
<1> USE DEF OneToForget, Bare
<1>1. ASSUME NEW c \in Conn, \/ Connected(c) \/ Disconnected(c) \/ Set(c) \/ Snooze(c) \/ List(c)
                              \/ Del(c) \/ Handle(c)
      PROVE  OneToForget' /\ Bare'
  <2>0. TypeOK
    BY DEF RInv
  <2>1. OthersStay(c)
    BY <1>1, <2>0, HandlerIs
  <2>2. handler'[c].pc = "forget" => \E id : handler'[c].todo = {<<id, 0>>}
    <3>1. CASE Disconnected(c) \/ List(c)
      BY <3>1, HandlerIs DEF RInv
    <3>2. CASE Del(c)
      BY <3>2, HandlerIs DEF RInv
    <3> QED BY <1>1, <3>1, <3>2, HandlerIs DEF Handle, RInv
  <2> QED BY <2>1, <2>2 DEF OthersStay
<1>2. ASSUME NEW k \in Timer, Run(k) PROVE OneToForget' /\ Bare'
  <2>1. handler' = handler /\ DOMAIN db' \subseteq DOMAIN db
    BY <1>2 DEF Run, Expire, Say, Finish, ForgetRunning, ForgetRecord, Without
  <2> QED BY <2>1
<1>3. CASE Tick \/ Restart \/ UNCHANGED vars
  <2>1. db' = db /\ \A c \in Conn : handler'[c] = handler[c] \/ handler'[c].pc = "idle"
    BY <1>3 DEF Tick, Restart, vars, Idle
  <2> QED BY <2>1
<1> QED BY <1>1, <1>2, <1>3 DEF Next

\* Only the command remind gives a reminder a time.
LEMMA StepMark ==
    ASSUME RInv, [Next]_vars, NEW id, NEW at, Mark(id, at)', \A c \in Conn : ~Snooze(c),
           \A c \in Conn : ~Set(c)
    PROVE  Mark(id, at) /\ unused' = unused
<1> USE DEF Mark, Loading, RInv
<1>1. ASSUME NEW c \in Conn, Connected(c) PROVE Mark(id, at) /\ unused' = unused
  <2>1. UNCHANGED <<db, timer, unused>>
    BY <1>1 DEF Connected, memory
  <2>2. ASSUME NEW d \in Conn, Loading(d, id, at)'
        PROVE  Loading(d, id, at) \/ (id \in DOMAIN db /\ db[id] = at)
    <3>1. <<id, at>> \in Stored => id \in DOMAIN db /\ db[id] = at
      BY DEF Stored
    <3>2. handler'[c].todo = Stored /\ OthersStay(c)
      BY <1>1, HandlerIs
    <3> QED BY <2>2, <3>1, <3>2 DEF OthersStay
  <2> QED BY <2>1, <2>2 DEF Runs
<1>2. ASSUME NEW c \in Conn, Disconnected(c) \/ List(c) \/ Del(c)
      PROVE  Mark(id, at) /\ unused' = unused
  <2>1. /\ UNCHANGED <<db, unused>>
        /\ \A k \in Timer : timer'[k] = timer[k] \/ timer'[k] = Free
    BY <1>2 DEF Disconnected, List, Del, Cancel
  <2>2. \A d \in Conn : Loading(d, id, at)' => Loading(d, id, at)
    BY <1>2, HandlerIs DEF OthersStay
  <2> QED BY <2>1, <2>2 DEF Runs
<1>3. ASSUME NEW c \in Conn, Prune(c) \/ Reminded(c) \/ Forget(c)
      PROVE  Mark(id, at) /\ unused' = unused
  <2>1. /\ UNCHANGED <<timer, unused>>
        /\ DOMAIN db' \subseteq DOMAIN db /\ \A i \in DOMAIN db' : db'[i] = db[i]
    BY <1>3 DEF Prune, Reminded, Forget, Without, memory
  <2>2. \A d \in Conn : Loading(d, id, at)' => Loading(d, id, at)
    BY <1>3, HandlerIs DEF OthersStay, Reminding, Idle, Handle, Prune
  <2> QED BY <2>1, <2>2 DEF Runs
<1>4. ASSUME NEW c \in Conn, Remind(c) PROVE Mark(id, at) /\ unused' = unused
  <2>1. PICK e \in handler[c].todo, k \in Timer :
          /\ handler[c].pc = "remind"
          /\ \/ UNCHANGED timer
             \/ timer' = [timer EXCEPT ![k] = [pc |-> "wait", id |-> e[1], at |-> e[2]]]
          /\ UNCHANGED <<db, unused>>
    BY <1>4 DEF Remind
  <2>2. \A d \in Conn : Loading(d, id, at)' => Loading(d, id, at)
    BY <1>4, <2>1, HandlerIs DEF OthersStay, Handle
  <2>3. e = <<e[1], e[2]>>
    BY DEF TypeOK
  <2>4. Loading(c, e[1], e[2])
    BY <2>1, <2>3
  <2>5. \A j \in Timer : timer'[j] = timer[j] \/ (timer'[j].id = e[1] /\ timer'[j].at = e[2])
    BY <2>1 DEF TypeOK
  <2> QED BY <2>1, <2>2, <2>4, <2>5 DEF Runs
<1>5. ASSUME NEW k \in Timer, Run(k) PROVE Mark(id, at) /\ unused' = unused
  <2>1. timer[k].pc # "free"
    BY <1>5 DEF Run, Expire, Say, Finish, ForgetRunning, ForgetRecord, At
  <2>2. \A j \in Timer : timer'[j] # Free =>
          Runs(j) /\ timer'[j].id = timer[j].id /\ timer'[j].at = timer[j].at
    <3>1. CASE ForgetRecord(k)
      BY <3>1 DEF ForgetRecord, TypeOK, Runs
    <3>2. CASE ~ForgetRecord(k)
      BY <1>5, <2>1, <3>2, GoIs DEF Run, Expire, Say, Finish, ForgetRunning
    <3> QED BY <3>1, <3>2
  <2>3. /\ UNCHANGED <<handler, unused>>
        /\ DOMAIN db' \subseteq DOMAIN db /\ \A i \in DOMAIN db' : db'[i] = db[i]
    BY <1>5 DEF Run, Expire, Say, Finish, ForgetRunning, ForgetRecord, Without
  <2> QED BY <2>2, <2>3 DEF Runs
<1>6. CASE Tick \/ Restart \/ UNCHANGED vars
  BY <1>6 DEF Tick, Restart, vars, memory, Idle, Runs
<1> QED BY <1>1, <1>2, <1>3, <1>4, <1>5, <1>6 DEF Next, Handle

LEMMA StepOneTime == ASSUME KInv, [Next]_vars, Unsnoozed' PROVE OneTime'
<1>1. TypeOK /\ RInv /\ OneTime /\ \A c \in Conn : ~Snooze(c)
  BY StepUnsnoozed DEF KInv, RInv
<1>2. CASE \A c \in Conn : ~Set(c)
  <2> SUFFICES ASSUME NEW id \in Reminder, NEW at \in Time, Mark(id, at)'
               PROVE  id \notin unused' /\ \A t \in Time : Mark(id, t)' => t = at
    BY DEF OneTime
  <2>1. Mark(id, at) /\ unused' = unused
    BY <1>1, <1>2, StepMark
  <2>2. \A t \in Time : Mark(id, t)' => Mark(id, t)
    BY <1>1, <1>2, StepMark
  <2> QED BY <1>1, <2>1, <2>2 DEF OneTime
<1>3. ASSUME NEW c \in Conn, Set(c) PROVE OneTime'
  <2>1. PICK id \in unused, at \in now .. MaxTime :
          Put(c, id, at, From[id]) /\ unused' = unused \ {id}
    BY <1>3 DEF Set
  <2>2. id \in Reminder /\ at \in Time
    BY <1>1, Constants DEF TypeOK, Time
  <2>3. \A t \in Time : ~Mark(id, t)
    BY <1>1, <2>2 DEF OneTime
  <2>4. /\ timer' = timer /\ db' = With(db, id, at)
        /\ handler'[c].todo = {<<id, at>>}
    BY <1>1, <2>1 DEF Put, Reminding, TypeOK
  <2>5. OthersStay(c)
    BY <1>1, <1>3, HandlerIs
  <2>6. ASSUME NEW i, NEW t, Mark(i, t)' PROVE Mark(i, t) \/ (i = id /\ t = at)
    <3>1. CASE i \in DOMAIN db' /\ db'[i] = t
      BY <2>4, <3>1 DEF With, Mark
    <3>2. CASE \E k \in Timer : Runs(k)' /\ timer'[k].id = i /\ timer'[k].at = t
      BY <2>4, <3>2 DEF Mark, Runs
    <3>3. CASE \E d \in Conn : Loading(d, i, t)'
      BY <2>4, <2>5, <3>3 DEF Mark, Loading, OthersStay
    <3> QED BY <2>6, <3>1, <3>2, <3>3 DEF Mark
  <2>7. ASSUME NEW i \in Reminder, NEW u \in Time, Mark(i, u)',
               NEW t \in Time, Mark(i, t)'
        PROVE  i \notin unused' /\ t = u
    <3>1. Mark(i, u) \/ (i = id /\ u = at)
      BY <2>6, <2>7
    <3>2. Mark(i, t) \/ (i = id /\ t = at)
      BY <2>6, <2>7
    <3> QED BY <1>1, <2>1, <2>3, <3>1, <3>2 DEF OneTime
  <2> QED BY <2>7 DEF OneTime
<1> QED BY <1>2, <1>3

LEMMA StepCovered == ASSUME KInv, [Next]_vars, Unsnoozed' PROVE Covered'
<1>1. /\ TypeOK /\ RInv /\ OneTime /\ Covered /\ OneToForget /\ Bare
      /\ \A c \in Conn : ~Snooze(c)
  BY StepUnsnoozed DEF KInv, RInv
<1> DEFINE Waits(k, i) == timer[k].pc = "wait" /\ timer[k].id = i
           ToForget(c, i) == handler[c].pc = "forget" /\ <<i, 0>> \in handler[c].todo
<1> SUFFICES ASSUME up' = Conn, NEW id \in DOMAIN db', db'[id] > now'
             PROVE  \/ \E k \in Timer : Waits(k, id)'
                    \/ \E c \in Conn : Loading(c, id, db[id])'
                    \/ \E c \in Conn : ToForget(c, id)'
  BY DEF Covered, At
<1>2. id \in DOMAIN db /\ up = Conn /\ db[id] > now =>
         \/ \E k \in Timer : Waits(k, id)
         \/ \E c \in Conn : Loading(c, id, db[id])
         \/ \E c \in Conn : ToForget(c, id)
  BY <1>1 DEF Covered, At
<1>3. /\ now \in Nat /\ \A i \in DOMAIN db : db[i] \in Nat /\ db[i] \in Time
      /\ DOMAIN db \subseteq Reminder
      /\ \A k \in Timer : Runs(k) => timer[k].at \in Time
  BY <1>1, Constants, RunsIs DEF TypeOK, Time
<1>4. ASSUME NEW c \in Conn, Connected(c) PROVE Loading(c, id, db[id])'
  <2>1. db' = db /\ handler'[c].pc = "prune" /\ handler'[c].todo = Stored
    BY <1>1, <1>4, HandlerIs DEF Connected
  <2> QED BY <2>1 DEF Loading, Stored
<1>5. ASSUME NEW c \in Conn, Disconnected(c) PROVE FALSE
  BY <1>5 DEF Disconnected
<1>6. ASSUME NEW c \in Conn, Set(c)
      PROVE  \/ \E k \in Timer : Waits(k, id)'
             \/ \E d \in Conn : Loading(d, id, db[id])' \/ ToForget(d, id)'
  <2>1. PICK new \in unused, at \in now .. MaxTime :
          Put(c, new, at, From[new]) /\ unused' = unused \ {new}
    BY <1>6 DEF Set
  <2>2. /\ timer' = timer /\ db' = With(db, new, at) /\ now' = now /\ up' = up
        /\ handler[c].pc = "idle" /\ handler'[c].pc = "remind"
        /\ handler'[c].todo = {<<new, at>>}
    BY <1>1, <1>6, <2>1 DEF Set, Ready, Put, Reminding, TypeOK
  <2>3. OthersStay(c)
    BY <1>1, <1>6, HandlerIs
  <2>4. CASE id = new
    BY <2>2, <2>4 DEF Loading, With
  <2>5. CASE id # new
    <3>1. id \in DOMAIN db /\ db'[id] = db[id]
      BY <2>2, <2>5 DEF With
    <3> QED BY <1>2, <2>2, <2>3, <3>1 DEF OthersStay, Loading
  <2> QED BY <2>4, <2>5
<1>7. ASSUME NEW c \in Conn, List(c)
      PROVE  \/ \E k \in Timer : Waits(k, id)'
             \/ \E d \in Conn : Loading(d, id, db[id])' \/ ToForget(d, id)'
  BY <1>2, <1>7 DEF List, Loading
\* What it cancels is a goroutine of the reminder it is to delete.
<1>8. ASSUME NEW c \in Conn, Del(c)
      PROVE  \/ \E k \in Timer : Waits(k, id)'
             \/ \E d \in Conn : Loading(d, id, db[id])' \/ ToForget(d, id)'
  <2>1. PICK n \in Nick : \E i \in listed[n] :
          /\ Cancel(IF i \in DOMAIN running THEN {running[i]} ELSE {})
          /\ handler' = [handler EXCEPT ![c] = [pc |-> "forget", todo |-> {<<i, 0>>}, nick |-> n]]
    BY <1>8 DEF Del
  <2>2. PICK i \in listed[n] :
          /\ Cancel(IF i \in DOMAIN running THEN {running[i]} ELSE {})
          /\ handler' = [handler EXCEPT ![c] = [pc |-> "forget", todo |-> {<<i, 0>>}, nick |-> n]]
    BY <2>1
  <2>3. /\ db' = db /\ now' = now /\ up' = up /\ handler[c].pc = "idle"
    BY <1>8 DEF Del, Ready
  <2>4. handler'[c].pc = "forget" /\ handler'[c].todo = {<<i, 0>>} /\ OthersStay(c)
    BY <1>1, <2>2 DEF TypeOK, OthersStay
  <2>5. \A k \in Timer : timer[k].id # i => timer'[k] = timer[k]
    BY <1>1, <2>2 DEF RInv, NoStaleCancel, TypeOK, Cancel
  <2>6. CASE id = i
    BY <2>4, <2>6
  <2>7. CASE id # i
    BY <1>2, <2>3, <2>4, <2>5, <2>7 DEF OthersStay, Loading
  <2> QED BY <2>6, <2>7
<1>9. ASSUME NEW c \in Conn, Prune(c) \/ Reminded(c) \/ Forget(c)
      PROVE  \/ \E k \in Timer : Waits(k, id)'
             \/ \E d \in Conn : Loading(d, id, db[id])' \/ ToForget(d, id)'
  <2>1. /\ timer' = timer /\ now' = now /\ up' = up
        /\ DOMAIN db' \subseteq DOMAIN db /\ \A i \in DOMAIN db' : db'[i] = db[i]
    BY <1>9 DEF Prune, Reminded, Forget, Without, memory
  <2>2. OthersStay(c)
    BY <1>1, <1>9, HandlerIs DEF Handle
  <2>3. Loading(c, id, db[id]) => Loading(c, id, db[id])'
    <3>1. CASE Prune(c)
      BY <1>1, <1>3, <2>1, <3>1, HandlerIs DEF Loading, Prune
    <3>2. CASE Reminded(c) \/ Forget(c)
      BY <3>2 DEF Reminded, Forget, Loading
    <3> QED BY <1>9, <3>1, <3>2
  <2>4. ~ToForget(c, id)
    <3>1. CASE Forget(c)
      BY <1>1, <3>1 DEF Forget, OneToForget, Without
    <3>2. CASE Prune(c) \/ Reminded(c)
      BY <3>2 DEF Prune, Reminded
    <3> QED BY <1>9, <3>1, <3>2
  <2> QED BY <1>2, <2>1, <2>2, <2>3, <2>4 DEF OthersStay, Loading
<1>10. ASSUME NEW c \in Conn, Remind(c)
       PROVE  \/ \E k \in Timer : Waits(k, id)'
              \/ \E d \in Conn : Loading(d, id, db[id])' \/ ToForget(d, id)'
  <2>1. PICK e \in handler[c].todo, k \in Timer :
          /\ handler[c].pc = "remind" /\ timer[k] = Free
          /\ IF e[2] < now
             THEN UNCHANGED timer
             ELSE timer' = [timer EXCEPT ![k] = [pc |-> "wait", id |-> e[1], at |-> e[2]]]
          /\ handler' = [handler EXCEPT ![c].todo = @ \ {e}]
          /\ UNCHANGED <<now, db, up>>
    BY <1>10 DEF Remind
  <2>2. OthersStay(c) /\ handler'[c].pc = "remind" /\ handler'[c].todo = handler[c].todo \ {e}
    BY <1>1, <2>1 DEF TypeOK, OthersStay
  <2>3. \A j \in Timer : timer[j].pc = "wait" => timer'[j] = timer[j]
    BY <1>1, <2>1 DEF TypeOK, Free
  <2>4. CASE e = <<id, db[id]>>
    BY <1>1, <1>3, <2>1, <2>4 DEF TypeOK
  <2>5. CASE e # <<id, db[id]>>
    BY <1>2, <2>1, <2>2, <2>3, <2>5 DEF OthersStay, Loading
  <2> QED BY <2>4, <2>5
\* The time of a goroutine that is told is that of its record.
<1>11. ASSUME NEW k \in Timer, Run(k)
       PROVE  \/ \E j \in Timer : Waits(j, id)'
              \/ \E d \in Conn : Loading(d, id, db[id])' \/ ToForget(d, id)'
  <2>1. /\ UNCHANGED <<handler, now, up>>
        /\ DOMAIN db' \subseteq DOMAIN db /\ \A i \in DOMAIN db' : db'[i] = db[i]
    BY <1>11 DEF Run, Expire, Say, Finish, ForgetRunning, ForgetRecord, Without
  <2>2. \A j \in Timer \ {k} : timer'[j] = timer[j]
    BY <1>1, <1>11 DEF Run, Expire, Say, Finish, ForgetRunning, ForgetRecord, Go, TypeOK
  <2>3. ~Waits(k, id)
    <3>1. CASE Expire(k)
      <4>1. timer[k].at <= now /\ timer[k].pc = "wait"
        BY <3>1 DEF Expire, At
      <4>2. Runs(k)
        BY <1>1, <4>1, RunsIs
      <4>3. id \in Reminder /\ Mark(id, db[id]) /\ (timer[k].id = id => Mark(id, timer[k].at))
        BY <1>3, <2>1, <4>2 DEF Mark
      <4>4. timer[k].id = id => timer[k].at = db[id]
        BY <1>1, <1>3, <2>1, <4>2, <4>3 DEF OneTime
      <4> QED BY <1>3, <2>1, <4>1, <4>4
    <3>2. CASE ~Expire(k)
      BY <1>11, <3>2 DEF Run, Say, Finish, ForgetRunning, ForgetRecord, At
    <3> QED BY <3>1, <3>2
  <2> QED BY <1>2, <2>1, <2>2, <2>3 DEF Loading
<1>12. CASE Restart
  BY <1>1, <1>12 DEF Restart, Bare
<1>13. CASE Tick \/ UNCHANGED vars
  <2>1. UNCHANGED <<db, up, handler, timer>> /\ db[id] > now
    BY <1>3, <1>13 DEF Tick, vars, memory
  <2> QED BY <1>2, <2>1 DEF Loading
<1> QED BY <1>1, <1>4, <1>5, <1>6, <1>7, <1>8, <1>9, <1>10, <1>11, <1>12, <1>13 DEF Next, Handle

LEMMA StepKInv == KInv /\ [Next]_vars => KInv'
<1> SUFFICES ASSUME KInv, [Next]_vars PROVE KInv'
  OBVIOUS
<1>1. Unsnoozed' => OneTime' /\ Covered'
  BY StepOneTime, StepCovered
<1>2. (RInv /\ OneToForget /\ Bare)'
  BY StepRInv, StepShape DEF KInv
<1> QED BY <1>1, <1>2 DEF KInv

\* With any number of servers, until a snooze: when all are connected and no handler has
\* anything left to do, every reminder stored for later is waited for. So what a DISCONNECTED
\* of one server stops, of all of them, is started again when it is back (handlers.go:10-27).
THEOREM NoneIsMissed == Spec => []Kept
<1>1. KInv => Kept
  <2> SUFFICES ASSUME KInv, Unsnoozed, up = Conn, \A d \in Conn : handler[d].pc = "idle",
                      NEW id \in DOMAIN db, db[id] > now
               PROVE  Waiting(id) # {}
    BY DEF Kept
  <2>1. \E k \in Timer : At(k, "wait") /\ timer[k].id = id
    BY DEF KInv, Covered, Loading
  <2> QED BY <2>1 DEF Waiting
<1> QED BY InitKInv, StepKInv, <1>1, PTL DEF Spec

-----------------------------------------------------------------------------
(* Dates. The calendar.                                                        *)

\* Years are of 365 or 366 days, one after the other.
LEMMA YearsFollow ==
    ASSUME NEW y \in Int
    PROVE  /\ YearStart(y) \in Int
           /\ YearStart(y + 1) = YearStart(y) + (IF Leap(y) THEN 366 ELSE 365)
           /\ \A z \in Int : y < z => YearStart(y + 1) <= YearStart(z)
BY SMT DEF YearStart, Leap

LEMMA YearsAreLong ==
    ASSUME NEW y \in Int
    PROVE  400 * YearStart(y) \in 146097 * (y - 1) - 699 .. 146097 * (y - 1) + 396
BY SMT DEF YearStart

\* The first day of a month, and how many it has. Months are counted from year 0.
First(x) == FirstOf(x \div 12, (x % 12) + 1)
DaysOf(y, m) == IF m = 2 THEN IF Leap(y) THEN 29 ELSE 28 ELSE IF m \in {4, 6, 9, 11} THEN 30 ELSE 31

LEMMA MonthStarts ==
    ASSUME NEW m \in 1 .. 12
    PROVE  /\ MonthStart[1] = 0 /\ MonthStart[12] = 334
           /\ MonthStart[m] \in 31 * m - 38 .. 31 * m - (IF m > 2 THEN 32 ELSE 31)
           /\ m < 12 => MonthStart[m + 1] = MonthStart[m] + (IF m = 2 THEN 28 ELSE IF m \in {4, 6, 9, 11} THEN 30 ELSE 31)
           /\ \A z \in 1 .. 12 : m < z => MonthStart[m] + (IF m = 2 THEN 28 ELSE IF m \in {4, 6, 9, 11} THEN 30 ELSE 31) <= MonthStart[z]
<1>1. /\ MonthStart[1] = 0 /\ MonthStart[2] = 31 /\ MonthStart[3] = 59 /\ MonthStart[4] = 90
      /\ MonthStart[5] = 120 /\ MonthStart[6] = 151 /\ MonthStart[7] = 181 /\ MonthStart[8] = 212
      /\ MonthStart[9] = 243 /\ MonthStart[10] = 273 /\ MonthStart[11] = 304 /\ MonthStart[12] = 334
  BY DEF MonthStart
<1>2. \A k \in 1 .. 12 : k = 1 \/ k = 2 \/ k = 3 \/ k = 4 \/ k = 5 \/ k = 6 \/ k = 7 \/ k = 8 \/ k = 9
                        \/ k = 10 \/ k = 11 \/ k = 12
  OBVIOUS
<1>3. MonthStart[m] \in 31 * m - 38 .. 31 * m - (IF m > 2 THEN 32 ELSE 31)
  BY <1>1, <1>2
<1>4. m < 12 => MonthStart[m + 1] = MonthStart[m] + (IF m = 2 THEN 28 ELSE IF m \in {4, 6, 9, 11} THEN 30 ELSE 31)
  BY <1>1, <1>2
<1>5. ASSUME NEW z \in 1 .. 12, m < z
      PROVE  MonthStart[m] + (IF m = 2 THEN 28 ELSE IF m \in {4, 6, 9, 11} THEN 30 ELSE 31) <= MonthStart[z]
  BY <1>1, <1>2, <1>5
<1> QED BY <1>1, <1>3, <1>4, <1>5

LEMMA FirstsAre ==
    ASSUME NEW y \in Int, NEW m \in 1 .. 12
    PROVE  /\ FirstOf(y, m) \in Int
           /\ FirstOf(y, 1) = YearStart(y)
           /\ m < 12 => FirstOf(y, m + 1) = FirstOf(y, m) + DaysOf(y, m)
           /\ m = 12 => YearStart(y + 1) = FirstOf(y, m) + DaysOf(y, m)
           /\ FirstOf(y, m) - YearStart(y) \in 31 * m - 38 .. 31 * m - 31
<1>1. YearStart(y) \in Int /\ YearStart(y + 1) = YearStart(y) + (IF Leap(y) THEN 366 ELSE 365)
  BY YearsFollow
<1>2. \A k \in 1 .. 12 : MonthStart[k] \in Int
  BY MonthStarts
<1>3. FirstOf(y, m) \in Int /\ FirstOf(y, 1) = YearStart(y)
  BY <1>1, <1>2, MonthStarts DEF FirstOf
<1>4. ASSUME m < 12 PROVE FirstOf(y, m + 1) = FirstOf(y, m) + DaysOf(y, m)
  BY <1>1, <1>2, <1>4, MonthStarts DEF FirstOf, DaysOf
<1>5. ASSUME m = 12 PROVE YearStart(y + 1) = FirstOf(y, m) + DaysOf(y, m)
  BY <1>1, <1>2, <1>5, MonthStarts DEF FirstOf, DaysOf
<1>7. FirstOf(y, m) - YearStart(y) \in 31 * m - 38 .. 31 * m - 31
  BY <1>1, MonthStarts DEF FirstOf
<1> QED BY <1>3, <1>4, <1>5, <1>7

LEMMA MonthsOfYear ==
    ASSUME NEW y \in Int, NEW m \in 1 .. 12, NEW z \in 1 .. 12, m < z
    PROVE  FirstOf(y, m) + DaysOf(y, m) <= FirstOf(y, z)
<1>1. YearStart(y) \in Int
  BY YearsFollow
<1>2. \A k \in 1 .. 12 : MonthStart[k] \in Int
  BY MonthStarts
<1>3. MonthStart[m] + (IF m = 2 THEN 28 ELSE IF m \in {4, 6, 9, 11} THEN 30 ELSE 31) <= MonthStart[z]
  BY MonthStarts
<1> QED BY <1>1, <1>2, <1>3 DEF FirstOf, DaysOf

LEMMA MonthsApart ==
    ASSUME NEW y \in Int, NEW m \in 1 .. 12, NEW y2 \in Int, NEW m2 \in 1 .. 12,
           12 * y + m < 12 * y2 + m2
    PROVE  FirstOf(y, m) + DaysOf(y, m) <= FirstOf(y2, m2)
<1>1. DaysOf(y, m) \in 28 .. 31 /\ DaysOf(y, 12) = 31 /\ DaysOf(y2, 1) = 31
  BY DEF DaysOf
<1>2. CASE y2 = y
  <2>1. m < m2
    BY <1>2
  <2> QED BY <1>2, <2>1, MonthsOfYear
<1>3. CASE y2 # y
  <2>1. y < y2
    BY <1>3
  <2>2. YearStart(y + 1) <= YearStart(y2) /\ YearStart(y2) \in Int
    BY <2>1, YearsFollow
  <2>3. YearStart(y + 1) = FirstOf(y, 12) + DaysOf(y, 12) /\ FirstOf(y, 12) \in Int
    BY FirstsAre
  <2>4. FirstOf(y2, 1) = YearStart(y2) /\ FirstOf(y2, m2) \in Int /\ FirstOf(y, m) \in Int
    BY FirstsAre
  <2>5. m < 12 => FirstOf(y, m) + DaysOf(y, m) <= FirstOf(y, 12)
    BY MonthsOfYear
  <2>6. m2 > 1 => FirstOf(y2, 1) + DaysOf(y2, 1) <= FirstOf(y2, m2)
    BY MonthsOfYear
  <2> QED BY <1>1, <2>2, <2>3, <2>4, <2>5, <2>6
<1> QED BY <1>2, <1>3

\* Months follow one another, and none begins before the end of one before it.
LEMMA MonthsFollow ==
    ASSUME NEW x \in Int
    PROVE  /\ First(x) \in Int
           /\ First(x + 1) = First(x) + DaysOf(x \div 12, (x % 12) + 1)
           /\ DaysOf(x \div 12, (x % 12) + 1) \in 28 .. 31
           /\ \A z \in Int : x < z => First(x + 1) <= First(z)
<1> DEFINE y == x \div 12
           m == (x % 12) + 1
<1>1. y \in Int /\ m \in 1 .. 12 /\ x = 12 * y + m - 1
  BY SMT
<1>2. First(x) = FirstOf(y, m)
  BY DEF First
<1>3. First(x + 1) = FirstOf(y, m) + DaysOf(y, m)
  <2>1. CASE m < 12
    <3>1. (x + 1) \div 12 = y /\ (x + 1) % 12 = m
      BY <1>1, <2>1, SMT
    <3> QED BY <1>1, <2>1, <3>1, FirstsAre DEF First
  <2>2. CASE m = 12
    <3>1. (x + 1) \div 12 = y + 1 /\ (x + 1) % 12 = 0
      BY <1>1, <2>2, SMT
    <3>2. First(x + 1) = FirstOf(y + 1, 1)
      BY <3>1 DEF First
    <3>3. FirstOf(y + 1, 1) = YearStart(y + 1)
      BY <1>1, FirstsAre
    <3> QED BY <1>1, <2>2, <3>2, <3>3, FirstsAre
  <2> QED BY <1>1, <2>1, <2>2
<1>4. DaysOf(y, m) \in 28 .. 31
  BY DEF DaysOf
<1>5. ASSUME NEW z \in Int, x < z PROVE First(x + 1) <= First(z)
  <2> DEFINE y2 == z \div 12
             m2 == (z % 12) + 1
  <2>1. y2 \in Int /\ m2 \in 1 .. 12 /\ z = 12 * y2 + m2 - 1
    BY SMT
  <2>2. First(z) = FirstOf(y2, m2)
    BY DEF First
  <2>3. FirstOf(y, m) + DaysOf(y, m) <= FirstOf(y2, m2)
    <3> HIDE DEF y, m, y2, m2
    <3>1. 12 * y + m < 12 * y2 + m2
      BY <1>1, <1>5, <2>1
    <3> QED BY <1>1, <2>1, <3>1, MonthsApart
  <2> QED BY <1>3, <2>2, <2>3
<1> HIDE DEF y, m
<1>6. FirstOf(y, m) \in Int
  BY <1>1, FirstsAre
<1>7. First(x) \in Int
  BY <1>2, <1>6
<1> QED BY <1>2, <1>3, <1>4, <1>5, <1>7 DEF y, m

\* time.Date, whatever month and day it is asked for, in terms of the firsts of months.
LEMMA DayIs ==
    ASSUME NEW y \in Int, NEW m \in Int, NEW d \in Int
    PROVE  DayOf(y, m, d) = First(12 * y + m - 1) + d - 1 /\ DayOf(y, m, d) \in Int
<1>1. (12 * y + m - 1) \div 12 = y + (m - 1) \div 12 /\ (12 * y + m - 1) % 12 = (m - 1) % 12
  BY SMT
<1>2. First(12 * y + m - 1) \in Int
  BY MonthsFollow
<1> QED BY <1>1, <1>2 DEF DayOf, First

\* What is a date of Go: the day is of its month.
IsDateOf(e, n) ==
    /\ e = [year |-> e.year, month |-> e.month, day |-> e.day]
    /\ e.year \in Int /\ e.month \in 1 .. 12 /\ e.day \in 1 .. 31
    /\ First(MonthIndex(e)) + e.day - 1 = n
    /\ n < First(MonthIndex(e) + 1)

\* The date of a day is the only one that time.Date takes to it: DateOf is its inverse.
LEMMA DateIs ==
    ASSUME NEW n \in Int
    PROVE  IsDateOf(DateOf(n), n)
<1> DEFINE about == (400 * n) \div 146097 + 1
           Of(k) == YearStart(k) <= n /\ n < YearStart(k + 1)
           y == CHOOSE k \in about - 1 .. about + 1 : Of(k)
           m0 == (n - YearStart(y)) \div 31 + 1
           m == IF m0 < 12 /\ FirstOf(y, m0 + 1) <= n THEN m0 + 1 ELSE m0
           e == [year |-> y, month |-> m, day |-> n - FirstOf(y, m) + 1]
<1>1. about \in Int /\ 146097 * (about - 1) <= 400 * n /\ 400 * n < 146097 * about
  BY SMT
<1>2. \E k \in about - 1 .. about + 1 : Of(k)
  <2> HIDE DEF about
  <2>1. YearStart(about - 1) \in Int /\ 400 * YearStart(about - 1) <= 146097 * (about - 2) + 396
    BY <1>1, YearsAreLong, YearsFollow
  <2>2. YearStart(about + 2) \in Int /\ 400 * YearStart(about + 2) >= 146097 * (about + 1) - 699
    BY <1>1, YearsAreLong, YearsFollow
  <2>3. YearStart(about - 1) <= n /\ n < YearStart(about + 2)
    BY <1>1, <2>1, <2>2
  <2>4. YearStart(about) \in Int /\ YearStart(about + 1) \in Int
    BY <1>1, YearsFollow
  <2>5. (about - 1) + 1 = about /\ (about + 1) + 1 = about + 2
    BY <1>1
  <2>6. CASE n < YearStart(about)
    BY <1>1, <2>3, <2>4, <2>5, <2>6
  <2>7. CASE YearStart(about) <= n /\ n < YearStart(about + 1)
    BY <1>1, <2>7
  <2>8. CASE YearStart(about + 1) <= n
    BY <1>1, <2>3, <2>5, <2>8
  <2> QED BY <2>4, <2>6, <2>7, <2>8
<1>3. y \in about - 1 .. about + 1 /\ Of(y)
  BY <1>2
<1>4. DateOf(n) = e
  BY DEF DateOf
<1> HIDE DEF about, y
<1>5. /\ y \in Int /\ YearStart(y) \in Int /\ YearStart(y + 1) \in Int
      /\ YearStart(y + 1) = YearStart(y) + (IF Leap(y) THEN 366 ELSE 365)
  BY <1>1, <1>3, YearsFollow
<1>6. m0 \in 1 .. 12 /\ YearStart(y) + 31 * (m0 - 1) <= n /\ n < YearStart(y) + 31 * m0
  BY <1>3, <1>5, SMT
<1> HIDE DEF m0
<1>7. \A k \in 1 .. 12 : FirstOf(y, k) \in Int /\ FirstOf(y, k) - YearStart(y) \in 31 * k - 38 .. 31 * k - 31
  BY <1>5, FirstsAre
<1>8. m \in 1 .. 12 /\ FirstOf(y, m) <= n
  <2>1. FirstOf(y, m0) <= n
    BY <1>5, <1>6, <1>7
  <2>2. CASE m0 < 12 /\ FirstOf(y, m0 + 1) <= n
    BY <1>6, <2>2
  <2>3. CASE ~(m0 < 12 /\ FirstOf(y, m0 + 1) <= n)
    BY <1>6, <2>1, <2>3
  <2> QED BY <2>2, <2>3
<1>9. m < 12 => n < FirstOf(y, m + 1)
  <2>1. CASE m0 < 12 /\ FirstOf(y, m0 + 1) <= n
    <3>1. m = m0 + 1
      BY <2>1
    <3>2. ASSUME m < 12 PROVE n < FirstOf(y, m + 1)
      <4>1. m0 + 2 \in 1 .. 12 /\ m + 1 = m0 + 2
        BY <1>6, <3>1, <3>2
      <4>2. FirstOf(y, m0 + 2) \in Int /\ FirstOf(y, m0 + 2) - YearStart(y) >= 31 * (m0 + 2) - 38
        BY <1>7, <4>1
      <4> QED BY <1>5, <1>6, <4>1, <4>2
    <3> QED BY <3>2
  <2>2. CASE ~(m0 < 12 /\ FirstOf(y, m0 + 1) <= n)
    <3>1. m = m0
      BY <2>2
    <3>2. ASSUME m0 < 12 PROVE n < FirstOf(y, m0 + 1)
      <4>1. m0 + 1 \in 1 .. 12
        BY <1>6, <3>2
      <4>2. FirstOf(y, m0 + 1) \in Int
        BY <1>7, <4>1
      <4> QED BY <2>2, <3>2, <4>2
    <3> QED BY <3>1, <3>2
  <2> QED BY <2>1, <2>2
<1> HIDE DEF m
<1>10. /\ (12 * y + m - 1) \div 12 = y /\ ((12 * y + m - 1) % 12) + 1 = m
       /\ 12 * y + m - 1 \in Int
  BY <1>5, <1>8, SMT
<1>11. First(12 * y + m - 1) = FirstOf(y, m)
  BY <1>10 DEF First
<1>12. First((12 * y + m - 1) + 1) = FirstOf(y, m) + DaysOf(y, m) /\ DaysOf(y, m) \in 28 .. 31
  BY <1>10, <1>11, MonthsFollow
<1>13. n < FirstOf(y, m) + DaysOf(y, m)
  <2>1. CASE m < 12
    BY <1>5, <1>8, <1>9, <2>1, FirstsAre
  <2>2. CASE m = 12
    BY <1>3, <1>5, <1>8, <2>2, FirstsAre
  <2> QED BY <1>8, <2>1, <2>2
<1>14. FirstOf(y, m) \in Int
  BY <1>7, <1>8
<1>15. e.year = y /\ e.month = m /\ e.day = n - FirstOf(y, m) + 1
  OBVIOUS
<1>16. e.day \in 1 .. 31
  BY <1>8, <1>12, <1>13, <1>14, <1>15
<1>17. MonthIndex(e) = 12 * y + m - 1
  BY <1>5, <1>8, <1>15 DEF MonthIndex
<1> QED BY <1>4, <1>5, <1>8, <1>11, <1>12, <1>13, <1>14, <1>15, <1>16, <1>17 DEF IsDateOf

\* The date of a day of month x.
LEMMA LandsIn ==
    ASSUME NEW n \in Int, NEW x \in Int, First(x) <= n, n < First(x + 1)
    PROVE  /\ DateOf(n) = [year |-> x \div 12, month |-> (x % 12) + 1, day |-> n - First(x) + 1]
           /\ MonthIndex(DateOf(n)) = x
<1> DEFINE e == DateOf(n)
           z == MonthIndex(e)
<1>1. IsDateOf(e, n)
  BY DateIs
<1> HIDE DEF e
<1>2. z \in Int /\ z \div 12 = e.year /\ z % 12 = e.month - 1
  BY <1>1, SMT DEF IsDateOf, MonthIndex
<1>3. First(z) <= n /\ n < First(z + 1) /\ First(z) \in Int /\ e.day = n - First(z) + 1
  <2>1. First(z) \in Int
    BY <1>2, MonthsFollow
  <2> QED BY <1>1, <2>1 DEF IsDateOf
<1> HIDE DEF z
<1>4. First(x) \in Int /\ First(x + 1) \in Int /\ First(z + 1) \in Int
  BY <1>2, MonthsFollow
<1>5. ~(x < z)
  <2> SUFFICES ASSUME x < z PROVE FALSE
    OBVIOUS
  <2>1. First(x + 1) <= First(z)
    BY <1>2, MonthsFollow
  <2> QED BY <1>3, <1>4, <2>1
<1>6. ~(z < x)
  <2> SUFFICES ASSUME z < x PROVE FALSE
    OBVIOUS
  <2>1. First(z + 1) <= First(x)
    BY <1>2, MonthsFollow
  <2> QED BY <1>3, <1>4, <2>1
<1>7. z = x
  BY <1>2, <1>5, <1>6
<1>8. e.year = x \div 12 /\ e.month = (x % 12) + 1 /\ e.day = n - First(x) + 1
  BY <1>1, <1>2, <1>3, <1>7 DEF IsDateOf
<1>9. e = [year |-> x \div 12, month |-> (x % 12) + 1, day |-> n - First(x) + 1]
  BY <1>1, <1>8 DEF IsDateOf
<1> QED BY <1>7, <1>9 DEF e, z

-----------------------------------------------------------------------------
(* Counting days of the week and months.                                       *)

LEMMA Numbering ==
    ASSUME NEW S, NEW n \in Nat, NEW f \in [1 .. n -> S],
           \A i, j \in 1 .. n : i # j => f[i] # f[j],
           \A s \in S : \E i \in 1 .. n : f[i] = s
    PROVE  Cardinality(S) = n
<1>1. f \in Bijection(1 .. n, S)
  BY DEF Bijection, Injection, Surjection, IsInjective
<1>2. IsFiniteSet(1 .. n) /\ Cardinality(1 .. n) = n
  BY FS_Interval
<1>3. ExistsBijection(1 .. n, S)
  BY <1>1 DEF ExistsBijection
<1> QED BY <1>2, <1>3, FS_Bijection

Congruent(M, a, b, r) == {k \in a .. b : k % M = r % M}

\* n of them lie M apart, from one end of an interval on, and no more.
LEMMA EveryMth ==
    ASSUME NEW M \in {7, 12}, NEW a \in Int, NEW b \in Int, NEW r \in Int, NEW n \in Nat,
           \/ r = b /\ a <= r - M * (n - 1) /\ r - M * n < a
           \/ r = a /\ r + M * (n - 1) <= b /\ b < r + M * n
    PROVE  Cardinality(Congruent(M, a, b, r)) = n
<1> DEFINE S == {k \in a .. b : k % M = r % M}
           back == r = b /\ a <= r - M * (n - 1) /\ r - M * n < a
           f == [i \in 1 .. n |-> IF back THEN r - M * (i - 1) ELSE r + M * (i - 1)]
<1>1. f \in [1 .. n -> S]
  <2> SUFFICES ASSUME NEW i \in 1 .. n
               PROVE  (IF back THEN r - M * (i - 1) ELSE r + M * (i - 1)) \in S
    OBVIOUS
  <2>1. CASE M = 7
    BY <2>1, SMT
  <2>2. CASE M = 12
    BY <2>2, SMT
  <2> QED BY <2>1, <2>2
<1>2. ASSUME NEW i \in 1 .. n, NEW j \in 1 .. n, i # j PROVE f[i] # f[j]
  <2>1. CASE M = 7
    BY <1>2, <2>1
  <2>2. CASE M = 12
    BY <1>2, <2>2
  <2> QED BY <2>1, <2>2
<1>3. ASSUME NEW s \in S PROVE \E i \in 1 .. n : f[i] = s
  <2> DEFINE i == IF back THEN (r - s) \div M + 1 ELSE (s - r) \div M + 1
  <2>1. i \in 1 .. n /\ s = IF back THEN r - M * (i - 1) ELSE r + M * (i - 1)
    <3>1. CASE M = 7
      BY <3>1, SMT
    <3>2. CASE M = 12
      BY <3>2, SMT
    <3> QED BY <3>1, <3>2
  <2> HIDE DEF i
  <2>2. f[i] = s
    BY <2>1
  <2> QED BY <2>1, <2>2
<1> HIDE DEF f, S
<1>4. Cardinality(S) = n
  BY <1>1, <1>2, <1>3, Numbering
<1> QED BY <1>4 DEF S, Congruent

\* dayOffset finds the day of the week that is meant.
LEMMA NthDay ==
    ASSUME NEW n \in Int, NEW num \in Int, NEW w \in 0 .. 6,
           NEW r, r = n + WeeksFrom(num, w - Weekday(n)) * 7 + (w - Weekday(n))
    PROVE  /\ r \in Int
           /\ Nth(num, n, r, LAMBDA k : Weekday(k) = w)
           /\ num = 0 => r \in n .. n + 6
<1>1. Weekday(n) \in 0 .. 6
  BY SMT DEF Weekday
<1> DEFINE diff == w - Weekday(n)
<1>2. diff \in -6 .. 6
  BY <1>1
<1>3. r = n + WeeksFrom(num, diff) * 7 + diff /\ r \in Int
  BY <1>2 DEF WeeksFrom
<1>4. Weekday(r) = w
  <2>1. w = ((n + 1) % 7) + diff
    BY <1>1 DEF Weekday
  <2>2. PICK z \in Int : WeeksFrom(num, diff) = z
    <3>1. WeeksFrom(num, diff) \in Int
      BY DEF WeeksFrom
    <3> QED BY <3>1
  <2> HIDE DEF diff
  <2>3. (n + z * 7 + diff + 1) % 7 = w
    BY <1>2, <2>1, SMT
  <2> QED BY <1>2, <1>3, <2>2, <2>3 DEF Weekday
<1>5. num = 0 => r \in n .. n + 6
  BY <1>2, <1>3 DEF WeeksFrom
<1>6. \A k \in Int : Weekday(k) = w <=> k % 7 = r % 7
  BY <1>3, <1>4, SMT DEF Weekday
<1> HIDE DEF diff
<1>7. ASSUME num > 0 PROVE Cardinality({k \in n + 1 .. r : Weekday(k) = w}) = num
  <2>1. n + 1 <= r - 7 * (num - 1) /\ r - 7 * num < n + 1
    BY <1>2, <1>3, <1>7 DEF WeeksFrom
  <2>2. Cardinality(Congruent(7, n + 1, r, r)) = num
    BY <1>3, <1>7, <2>1, EveryMth
  <2>3. {k \in n + 1 .. r : Weekday(k) = w} = Congruent(7, n + 1, r, r)
    BY <1>3, <1>6 DEF Congruent
  <2> QED BY <2>2, <2>3
<1>8. ASSUME num < 0 PROVE Cardinality({k \in r .. n - 1 : Weekday(k) = w}) = -num
  <2>1. r + 7 * (-num - 1) <= n - 1 /\ n - 1 < r + 7 * (-num)
    BY <1>2, <1>3, <1>8 DEF WeeksFrom
  <2>2. Cardinality(Congruent(7, r, n - 1, r)) = -num
    BY <1>3, <1>8, <2>1, EveryMth
  <2>3. {k \in r .. n - 1 : Weekday(k) = w} = Congruent(7, r, n - 1, r)
    BY <1>3, <1>6 DEF Congruent
  <2> QED BY <2>2, <2>3
<1> QED BY <1>3, <1>4, <1>5, <1>7, <1>8 DEF Nth

\* monthOffset, of the months since the year 0.
MonthsOn(month, num, x) ==
    LET diff == month - ((x % 12) + 1)
    IN IF num = 0 THEN Rem(diff + 5, 12) - 5 ELSE YearsFrom(num, diff) * 12 + diff

\* MonthOffset finds the month that is meant.
LEMMA NthMonth ==
    ASSUME NEW x \in Int, NEW num \in Int, NEW month \in 1 .. 12,
           NEW r, r = x + MonthsOn(month, num, x)
    PROVE  r \in Int /\ MeansMonth(month, num, x, r)
<1> DEFINE diff == month - ((x % 12) + 1)
<1>1. diff \in -11 .. 11 /\ x % 12 \in 0 .. 11
  BY SMT
<1>2. r = x + (IF num = 0 THEN Rem(diff + 5, 12) - 5 ELSE YearsFrom(num, diff) * 12 + diff)
  BY DEF MonthsOn
<1>3. PICK z \in Int : r = x + z * 12 + diff
  <2>1. CASE num = 0
    <3>1. PICK y \in Int : Rem(diff + 5, 12) - 5 = y * 12 + diff
      <4>1. CASE diff + 5 < 0
        <5>1. Rem(diff + 5, 12) - 5 = 0 * 12 + diff
          BY <1>1, <4>1, SMT DEF Rem
        <5> QED BY <5>1
      <4>2. CASE diff + 5 \in 0 .. 11
        <5>1. Rem(diff + 5, 12) - 5 = 0 * 12 + diff
          BY <1>1, <4>2, SMT DEF Rem
        <5> QED BY <5>1
      <4>3. CASE diff + 5 >= 12
        <5>1. Rem(diff + 5, 12) - 5 = (-1) * 12 + diff
          BY <1>1, <4>3, SMT DEF Rem
        <5> QED BY <5>1
      <4> QED BY <1>1, <4>1, <4>2, <4>3
    <3> HIDE DEF diff
    <3> QED BY <1>1, <1>2, <2>1, <3>1
  <2>2. CASE num # 0
    <3>1. YearsFrom(num, diff) \in Int
      BY DEF YearsFrom
    <3> QED BY <1>1, <1>2, <2>2, <3>1
  <2> QED BY <2>1, <2>2
<1>4. r \in Int
  BY <1>1, <1>3
<1>5. r % 12 = month - 1
  BY <1>3, SMT
<1>6. \A k \in Int : (k % 12) + 1 = month <=> k % 12 = r % 12
  BY <1>5, SMT
<1>7. num = 0 => r - x \in -5 .. 6 \/ (r \div 12 = x \div 12 /\ x - r > 5)
  <2> SUFFICES ASSUME num = 0 PROVE r - x \in -5 .. 6 \/ (r \div 12 = x \div 12 /\ x - r > 5)
    OBVIOUS
  <2>1. CASE diff + 5 < 0
    <3>1. r = x + diff
      BY <1>1, <1>2, <2>1, SMT DEF Rem
    <3>2. r \div 12 = x \div 12
      BY <1>1, <2>1, <3>1, SMT
    <3> QED BY <1>1, <2>1, <3>1, <3>2
  <2>2. CASE diff + 5 >= 0
    <3>1. Rem(diff + 5, 12) \in 0 .. 11
      BY <1>1, <2>2, SMT DEF Rem
    <3> QED BY <1>2, <1>4, <3>1
  <2> QED BY <1>1, <2>1, <2>2
<1> HIDE DEF diff
<1>8. ASSUME num > 0 PROVE Cardinality({k \in x + 1 .. r : (k % 12) + 1 = month}) = num
  <2>1. x + 1 <= r - 12 * (num - 1) /\ r - 12 * num < x + 1
    BY <1>1, <1>2, <1>8 DEF YearsFrom
  <2>2. Cardinality(Congruent(12, x + 1, r, r)) = num
    BY <1>4, <1>8, <2>1, EveryMth
  <2>3. {k \in x + 1 .. r : (k % 12) + 1 = month} = Congruent(12, x + 1, r, r)
    BY <1>4, <1>6 DEF Congruent
  <2> QED BY <2>2, <2>3
<1>9. ASSUME num < 0 PROVE Cardinality({k \in r .. x - 1 : (k % 12) + 1 = month}) = -num
  <2>1. r + 12 * (-num - 1) <= x - 1 /\ x - 1 < r + 12 * (-num)
    BY <1>1, <1>2, <1>9 DEF YearsFrom
  <2>2. Cardinality(Congruent(12, r, x - 1, r)) = -num
    BY <1>4, <1>9, <2>1, EveryMth
  <2>3. {k \in r .. x - 1 : (k % 12) + 1 = month} = Congruent(12, r, x - 1, r)
    BY <1>4, <1>6 DEF Congruent
  <2> QED BY <2>2, <2>3
<1>10. Nth(num, x, r, LAMBDA k : (k % 12) + 1 = month)
  BY <1>5, <1>8, <1>9 DEF Nth
<1> QED BY <1>4, <1>7, <1>10 DEF MeansMonth

-----------------------------------------------------------------------------
(* The lexer.                                                                  *)

States == {"time", "date", "day", "offset", "ago"} \cup DMY
StateSets == SUBSET States
Offsets == [Units -> Int]
DaysSet == [weekday : 0 .. 6, num : Int, year : Int]
MonthsSet == [month : 0 .. 12, num : Int, year : Int]
Lexers == [time : 0 .. 23, date : Int, day : Int, offsets : Offsets,
           days : DaysSet, months : MonthsSet, states : StateSets]

LEMMA StatesGrow ==
    /\ \A s \in StateSets : \A x \in States : s \cup {x} \in StateSets
    /\ States = {"time", "date", "day", "offset", "ago", "days", "months", "day-year", "month-year"}
BY DEF StateSets, States, DMY

\* What the fields of a lexer are.
Fields(l, t, d, n, off, ds, ms, s) ==
    /\ l \in Lexers
    /\ l.time = t /\ l.date = d /\ l.day = n /\ l.offsets = off /\ l.days = ds /\ l.months = ms
    /\ l.states = s

LEMMA BlankIs ==
    Fields(DateLexer, 0, 0, 0, [x \in Units |-> 0], [weekday |-> 0, num |-> 0, year |-> 0],
           [month |-> 0, num |-> 0, year |-> 0], {})
<1> DEFINE o == [x \in Units |-> 0]
           ds == [weekday |-> 0, num |-> 0, year |-> 0]
           ms == [month |-> 0, num |-> 0, year |-> 0]
           s == {}
<1>1. o \in Offsets /\ ds \in DaysSet /\ ms \in MonthsSet /\ s \in StateSets
  BY DEF Offsets, DaysSet, MonthsSet, StateSets
<1>2. DateLexer = [time |-> 0, date |-> 0, day |-> 0, offsets |-> o, days |-> ds, months |-> ms, states |-> s]
  BY DEF DateLexer
<1> HIDE DEF o, ds, ms, s
<1>3. Fields(DateLexer, 0, 0, 0, o, ds, ms, s)
  BY <1>1, <1>2 DEF Fields, Lexers
<1> QED BY <1>3 DEF o, ds, ms, s

\* Every setter gives a lexer that there is, and only its own fields change.
LEMMA SetTimeIs ==
    ASSUME NEW l \in Lexers, NEW h \in Int
    PROVE  IF Have(l, "time") THEN SetTime(l, h) = l
           ELSE Fields(SetTime(l, h), h % 24, l.date, l.day, l.offsets, l.days, l.months, l.states \cup {"time"})
<1> DEFINE s == l.states \cup {"time"}
           x == h % 24
<1>1. s \in StateSets /\ x \in 0 .. 23
  <2>1. s \in StateSets
    BY StatesGrow DEF Lexers
  <2>2. x \in 0 .. 23
    BY SMT
  <2> QED BY <2>1, <2>2
<1>2. SetTime(l, h) = IF Have(l, "time") THEN l ELSE [l EXCEPT !.time = x, !.states = s]
  BY DEF SetTime
<1> HIDE DEF s, x
<1>3. ~Have(l, "time") => Fields(SetTime(l, h), x, l.date, l.day, l.offsets, l.days, l.months, s)
  BY <1>1, <1>2 DEF Fields, Lexers
<1> QED BY <1>2, <1>3 DEF s, x

LEMMA SetDateIs ==
    ASSUME NEW l \in Lexers, NEW y \in Int, NEW m \in Int, NEW d \in Int
    PROVE  IF Have(l, "date") THEN SetDate(l, y, m, d) = l
           ELSE Fields(SetDate(l, y, m, d), l.time, DayOf(y, m, d), l.day, l.offsets, l.days, l.months,
                       l.states \cup {"date"})
<1> DEFINE s == l.states \cup {"date"}
           x == DayOf(y, m, d)
<1>1. s \in StateSets /\ x \in Int
  BY StatesGrow, DayIs DEF Lexers
<1>2. SetDate(l, y, m, d) = IF Have(l, "date") THEN l ELSE [l EXCEPT !.date = x, !.states = s]
  BY DEF SetDate
<1> HIDE DEF s, x
<1>3. ~Have(l, "date") => Fields(SetDate(l, y, m, d), l.time, x, l.day, l.offsets, l.days, l.months, s)
  BY <1>1, <1>2 DEF Fields, Lexers
<1> QED BY <1>2, <1>3 DEF s, x

LEMMA SetDayIs ==
    ASSUME NEW l \in Lexers, NEW d \in Int
    PROVE  IF Have(l, "day") THEN SetDay(l, d) = l
           ELSE Fields(SetDay(l, d), l.time, l.date, d, l.offsets, l.days, l.months, l.states \cup {"day"})
<1> DEFINE s == l.states \cup {"day"}
<1>1. s \in StateSets
  BY StatesGrow DEF Lexers
<1>2. SetDay(l, d) = IF Have(l, "day") THEN l ELSE [l EXCEPT !.day = d, !.states = s]
  BY DEF SetDay
<1> HIDE DEF s
<1>3. ~Have(l, "day") => Fields(SetDay(l, d), l.time, l.date, d, l.offsets, l.days, l.months, s)
  BY <1>1, <1>2 DEF Fields, Lexers
<1> QED BY <1>2, <1>3 DEF s

LEMMA SetDaysIs ==
    ASSUME NEW l \in Lexers, NEW d \in 0 .. 6, NEW n \in Int, NEW y \in Int
    PROVE  Fields(SetDays(l, d, n, y), l.time, l.date, l.day, l.offsets, [weekday |-> d, num |-> n, year |-> y],
                  l.months, l.states \cup {"days"} \cup AbsYear(y, "day-year"))
<1> DEFINE s == l.states \cup {"days"} \cup AbsYear(y, "day-year")
           x == [weekday |-> d, num |-> n, year |-> y]
<1>1. s \in StateSets
  <2>1. l.states \cup {"days"} \in StateSets /\ l.states \cup {"days"} \cup {"day-year"} \in StateSets
    BY StatesGrow DEF Lexers
  <2>2. s = l.states \cup {"days"} \/ s = l.states \cup {"days"} \cup {"day-year"}
    BY DEF AbsYear
  <2> QED BY <2>1, <2>2
<1>2. x \in DaysSet
  BY DEF DaysSet
<1>3. SetDays(l, d, n, y) = [l EXCEPT !.days = x, !.states = s]
  BY DEF SetDays
<1> HIDE DEF s, x
<1>4. Fields(SetDays(l, d, n, y), l.time, l.date, l.day, l.offsets, x, l.months, s)
  BY <1>1, <1>2, <1>3 DEF Fields, Lexers
<1> QED BY <1>4 DEF s, x

LEMMA SetMonthsIs ==
    ASSUME NEW l \in Lexers, NEW m \in 0 .. 12, NEW n \in Int, NEW y \in Int
    PROVE  IF Have(l, "months") THEN SetMonths(l, m, n, y) = l
           ELSE Fields(SetMonths(l, m, n, y), l.time, l.date, l.day, l.offsets, l.days,
                       [month |-> m, num |-> n, year |-> y],
                       l.states \cup {"months"} \cup AbsYear(y, "month-year"))
<1> DEFINE s == l.states \cup {"months"} \cup AbsYear(y, "month-year")
           x == [month |-> m, num |-> n, year |-> y]
<1>1. s \in StateSets
  <2>1. l.states \cup {"months"} \in StateSets /\ l.states \cup {"months"} \cup {"month-year"} \in StateSets
    BY StatesGrow DEF Lexers
  <2>2. s = l.states \cup {"months"} \/ s = l.states \cup {"months"} \cup {"month-year"}
    BY DEF AbsYear
  <2> QED BY <2>1, <2>2
<1>2. x \in MonthsSet
  BY DEF MonthsSet
<1>3. SetMonths(l, m, n, y) = IF Have(l, "months") THEN l ELSE [l EXCEPT !.months = x, !.states = s]
  BY DEF SetMonths
<1> HIDE DEF s, x
<1>4. ~Have(l, "months") => Fields(SetMonths(l, m, n, y), l.time, l.date, l.day, l.offsets, l.days, x, s)
  BY <1>1, <1>2, <1>3 DEF Fields, Lexers
<1> QED BY <1>3, <1>4 DEF s, x

LEMMA SetYearIs ==
    ASSUME NEW l \in Lexers, NEW y \in Int
    PROVE  /\ SetYear(l, y) \in Lexers
           /\ Have(l, "date") =>
                Fields(SetYear(l, y), l.time, DayOf(y, DateOf(l.date).month, DateOf(l.date).day), l.day,
                       l.offsets, l.days, l.months, l.states)
           /\ ~Have(l, "date") /\ Have(l, "months") =>
                Fields(SetYear(l, y), l.time, l.date, l.day, l.offsets, l.days,
                       [l.months EXCEPT !.year = y], l.states \cup {"month-year"})
           /\ ~Have(l, "date") /\ ~Have(l, "months") =>
                Fields(SetYear(l, y), l.time, l.date, l.day, l.offsets, [l.days EXCEPT !.year = y],
                       l.months, l.states \cup {"day-year"})
<1>1. ASSUME Have(l, "date")
      PROVE  Fields(SetYear(l, y), l.time, DayOf(y, DateOf(l.date).month, DateOf(l.date).day), l.day,
                    l.offsets, l.days, l.months, l.states)
  <2> DEFINE x == DayOf(y, DateOf(l.date).month, DateOf(l.date).day)
  <2>1. IsDateOf(DateOf(l.date), l.date)
    BY DateIs DEF Lexers
  <2>2. x \in Int
    <3>1. DateOf(l.date).month \in Int /\ DateOf(l.date).day \in Int
      BY <2>1 DEF IsDateOf
    <3> QED BY <3>1, DayIs
  <2>3. SetYear(l, y) = [l EXCEPT !.date = x]
    BY <1>1 DEF SetYear
  <2> HIDE DEF x
  <2>4. Fields(SetYear(l, y), l.time, x, l.day, l.offsets, l.days, l.months, l.states)
    BY <2>2, <2>3 DEF Fields, Lexers
  <2> QED BY <2>4 DEF x
<1>2. ASSUME ~Have(l, "date"), Have(l, "months")
      PROVE  Fields(SetYear(l, y), l.time, l.date, l.day, l.offsets, l.days,
                    [l.months EXCEPT !.year = y], l.states \cup {"month-year"})
  <2> DEFINE x == [l.months EXCEPT !.year = y]
             s == l.states \cup {"month-year"}
  <2>1. s \in StateSets
    BY StatesGrow DEF Lexers
  <2>2. x \in MonthsSet
    BY DEF Lexers, MonthsSet
  <2>3. SetYear(l, y) = [l EXCEPT !.months = x, !.states = s]
    BY <1>2 DEF SetYear
  <2> HIDE DEF x, s
  <2>4. Fields(SetYear(l, y), l.time, l.date, l.day, l.offsets, l.days, x, s)
    BY <2>1, <2>2, <2>3 DEF Fields, Lexers
  <2> QED BY <2>4 DEF x, s
<1>3. ASSUME ~Have(l, "date"), ~Have(l, "months")
      PROVE  Fields(SetYear(l, y), l.time, l.date, l.day, l.offsets, [l.days EXCEPT !.year = y],
                    l.months, l.states \cup {"day-year"})
  <2> DEFINE x == [l.days EXCEPT !.year = y]
             s == l.states \cup {"day-year"}
  <2>1. s \in StateSets
    BY StatesGrow DEF Lexers
  <2>2. x \in DaysSet
    BY DEF Lexers, DaysSet
  <2>3. SetYear(l, y) = [l EXCEPT !.days = x, !.states = s]
    BY <1>3 DEF SetYear
  <2> HIDE DEF x, s
  <2>4. Fields(SetYear(l, y), l.time, l.date, l.day, l.offsets, x, l.months, s)
    BY <2>1, <2>2, <2>3 DEF Fields, Lexers
  <2> QED BY <2>4 DEF x, s
<1>4. SetYear(l, y) \in Lexers
  BY <1>1, <1>2, <1>3 DEF Fields
<1> QED BY <1>1, <1>2, <1>3, <1>4

LEMMA AddOffsetIs ==
    ASSUME NEW l \in Lexers, NEW u \in Units, NEW n \in Int
    PROVE  Fields(AddOffset(l, u, n), l.time, l.date, l.day, [l.offsets EXCEPT ![u] = l.offsets[u] + n],
                  l.days, l.months, l.states \cup {"offset"})
<1> DEFINE s == l.states \cup {"offset"}
           x == [l.offsets EXCEPT ![u] = l.offsets[u] + n]
<1>1. s \in StateSets
  BY StatesGrow DEF Lexers
<1>2. x \in Offsets
  BY DEF Lexers, Offsets
<1>3. AddOffset(l, u, n) = [l EXCEPT !.offsets = x, !.states = s]
  BY DEF AddOffset
<1> HIDE DEF s, x
<1>4. Fields(AddOffset(l, u, n), l.time, l.date, l.day, x, l.days, l.months, s)
  BY <1>1, <1>2, <1>3 DEF Fields, Lexers
<1> QED BY <1>4 DEF s, x

LEMMA SetAgoIs ==
    ASSUME NEW l \in Lexers
    PROVE  IF Have(l, "ago") THEN SetAgo(l) = l
           ELSE Fields(SetAgo(l), l.time, l.date, l.day, [x \in Units |-> -l.offsets[x]],
                       l.days, l.months, l.states \cup {"ago"})
<1> DEFINE s == l.states \cup {"ago"}
           o == [x \in Units |-> -l.offsets[x]]
<1>1. s \in StateSets
  BY StatesGrow DEF Lexers
<1>2. o \in Offsets
  BY DEF Lexers, Offsets
<1>3. SetAgo(l) = IF Have(l, "ago") THEN l ELSE [l EXCEPT !.offsets = o, !.states = s]
  BY DEF SetAgo
<1> HIDE DEF s, o
<1>4. ~Have(l, "ago") => Fields(SetAgo(l), l.time, l.date, l.day, o, l.days, l.months, s)
  BY <1>1, <1>2, <1>3 DEF Fields, Lexers
<1> QED BY <1>3, <1>4 DEF s, o

-----------------------------------------------------------------------------
(* What each phrase sets.                                                      *)

\* The fields of a phrase, by kind.
LEMMA PhraseIs ==
    ASSUME NEW p, IsPhrase(p)
    PROVE  /\ p.kind \in {"clock", "half", "minutes", "ansi", "date", "the", "week", "weekday",
                          "month", "nth", "offset"}
           /\ p.kind = "clock" => p.hour \in Nat
           /\ p.kind \in {"half", "minutes"} => p.hour \in Nat /\ p.half \in {0, 12}
           /\ p.kind = "ansi" => p.hour \in Nat /\ p.year \in Nat
           /\ p.kind = "date" => p.year \in Nat /\ p.month \in Nat /\ p.day \in Nat
           /\ p.kind = "the" => p.day \in Nat
           /\ p.kind = "week" => p.year \in Nat /\ p.week \in Nat /\ p.wday \in Nat
           /\ p.kind = "weekday" => p.num \in Int /\ p.weekday \in 0 .. 6
           /\ p.kind = "month" => p.num \in Int /\ p.month \in 1 .. 12
           /\ p.kind = "nth" => /\ p.nth \in Nat /\ p.weekday \in 0 .. 6
                                /\ p.month \in 0 .. 12 /\ p.num \in Int /\ p.year \in Nat
                                /\ p.month = 0 \/ p.year # 0 => p.num = 0
           /\ p.kind = "offset" => p.unit \in Units /\ p.num \in Int /\ p.ago \in BOOLEAN
BY DEF IsPhrase

LEMMA RankIs ==
    ASSUME NEW p, IsPhrase(p)
    PROVE  /\ Rank(p) \in 1 .. 6
           /\ Rank(p) = 1 <=> p.kind \in {"clock", "half", "minutes"}
           /\ Rank(p) = 2 <=> p.kind \in {"date", "week"}
           /\ Rank(p) = 3 <=> p.kind = "the"
           /\ Rank(p) = 4 <=> p.kind = "offset"
           /\ Rank(p) = 5 <=> p.kind \in {"weekday", "month", "nth"}
           /\ Rank(p) = 6 <=> p.kind = "ansi"
<1>1. p.kind \in {"clock", "half", "minutes", "ansi", "date", "the", "week", "weekday",
                  "month", "nth", "offset"}
  BY PhraseIs
<1> QED BY <1>1 DEF Rank, Hourly

LEMMA ReadsIs ==
    ASSUME NEW l, NEW p
    PROVE  /\ p.kind = "clock" => Reads(l, p) = SetTime(l, p.hour)
           /\ p.kind = "half" => Reads(l, p) = SetTime(l, AmPm(p.hour, p.half))
           /\ p.kind = "minutes" => Reads(l, p) = SetTime(l, p.hour + p.half)
           /\ p.kind = "ansi" => Reads(l, p) = SetYear(SetTime(l, p.hour), p.year)
           /\ p.kind = "date" => Reads(l, p) = SetDate(l, Century(p.year), p.month, p.day)
           /\ p.kind = "the" => Reads(l, p) = SetDay(l, p.day)
           /\ p.kind = "week" => Reads(l, p) = SetWeek(l, p.year, p.week, p.wday)
           /\ p.kind = "weekday" => Reads(l, p) = SetDays(l, p.weekday, p.num, 0)
           /\ p.kind = "month" => Reads(l, p) = SetMonths(l, p.month, p.num, 0)
           /\ p.kind = "nth" /\ p.month = 0 /\ p.year # 0 => Reads(l, p) = SetDays(l, p.weekday, p.nth, p.year)
           /\ p.kind = "nth" /\ ~(p.month = 0 /\ p.year # 0) =>
                Reads(l, p) = SetMonths(SetDays(l, p.weekday, p.nth, 0), p.month, p.num, p.year)
           /\ p.kind = "offset" => Reads(l, p) = IF p.ago THEN SetAgo(AddOffset(l, p.unit, p.num))
                                                 ELSE AddOffset(l, p.unit, p.num)
BY DEF Reads

HourSaid(p) == IF p.kind = "clock" THEN p.hour
               ELSE IF p.kind = "half" THEN AmPm(p.hour, p.half) ELSE p.hour + p.half

LEMMA ReadsTime ==
    ASSUME NEW l, NEW p, IsPhrase(p), Rank(p) = 1
    PROVE  Reads(l, p) = SetTime(l, HourSaid(p)) /\ HourSaid(p) \in Int
<1>1. p.kind \in {"clock", "half", "minutes"}
  BY RankIs
<1>2. CASE p.kind = "clock"
  BY <1>2, PhraseIs, ReadsIs DEF HourSaid
<1>3. CASE p.kind = "half"
  <2>1. Reads(l, p) = SetTime(l, HourSaid(p)) /\ HourSaid(p) = AmPm(p.hour, p.half)
    BY <1>3, ReadsIs DEF HourSaid
  <2>2. p.hour \in Nat /\ p.half \in {0, 12}
    BY <1>3, PhraseIs
  <2>3. AmPm(p.hour, p.half) \in Int
    BY <2>2 DEF AmPm
  <2> QED BY <2>1, <2>3
<1>4. CASE p.kind = "minutes"
  <2>1. Reads(l, p) = SetTime(l, HourSaid(p)) /\ HourSaid(p) = p.hour + p.half
    BY <1>4, ReadsIs DEF HourSaid
  <2>2. p.hour \in Nat /\ p.half \in {0, 12}
    BY <1>4, PhraseIs
  <2> QED BY <2>1, <2>2
<1> QED BY <1>1, <1>2, <1>3, <1>4

\* The year, month and day that a date or a week sets.
DaySaid(p) == IF p.kind = "date" THEN p.day
              ELSE p.week * 7 + p.wday - 3
                   - (IF Weekday(DayOf(p.year, 1, 4)) = 0 THEN 7 ELSE Weekday(DayOf(p.year, 1, 4)))
MonthSaid(p) == IF p.kind = "date" THEN p.month ELSE 1
YearSaid(p) == IF p.kind = "date" THEN Century(p.year) ELSE p.year

LEMMA ReadsDate ==
    ASSUME NEW l, NEW p, IsPhrase(p), Rank(p) = 2
    PROVE  /\ Reads(l, p) = SetDate(l, YearSaid(p), MonthSaid(p), DaySaid(p))
           /\ YearSaid(p) \in Int /\ MonthSaid(p) \in Int /\ DaySaid(p) \in Int
<1>1. p.kind = "date" \/ p.kind = "week"
  BY RankIs
<1>2. CASE p.kind = "date"
  <2>1. p.year \in Nat /\ p.month \in Nat /\ p.day \in Nat
    BY <1>2, PhraseIs
  <2>2. Century(p.year) \in Int
    BY <2>1 DEF Century
  <2> QED BY <1>2, <2>1, <2>2, ReadsIs DEF YearSaid, MonthSaid, DaySaid
<1>3. CASE p.kind = "week"
  <2>1. p.year \in Int /\ p.week \in Nat /\ p.wday \in Nat
    BY <1>3, PhraseIs
  <2>2. PICK j \in Int : j = IF Weekday(DayOf(p.year, 1, 4)) = 0 THEN 7 ELSE Weekday(DayOf(p.year, 1, 4))
    <3>1. \A y \in Int : DayOf(y, 1, 4) \in Int
      BY DayIs
    <3>2. DayOf(p.year, 1, 4) \in Int
      BY <2>1, <3>1
    <3>3. Weekday(DayOf(p.year, 1, 4)) \in Int
      BY <3>2 DEF Weekday
    <3> QED BY <3>3
  <2>3. SetWeek(l, p.year, p.week, p.wday) = SetDate(l, p.year, 1, p.week * 7 + p.wday - j - 3)
    BY <2>2, Zenon DEF SetWeek
  <2>4. p.week * 7 + p.wday - j - 3 = p.week * 7 + p.wday - 3 - j /\ p.week * 7 + p.wday - 3 - j \in Int
    BY <2>1, <2>2
  <2>5. DaySaid(p) = p.week * 7 + p.wday - 3 - j /\ MonthSaid(p) = 1 /\ YearSaid(p) = p.year
    BY <1>3, <2>2 DEF YearSaid, MonthSaid, DaySaid
  <2>6. Reads(l, p) = SetWeek(l, p.year, p.week, p.wday)
    BY <1>3, ReadsIs
  <2> QED BY <2>1, <2>3, <2>4, <2>5, <2>6
<1> QED BY <1>1, <1>2, <1>3

-----------------------------------------------------------------------------
(* A phrase sets what those of its rank set, and lets the others be.           *)

\* Two lexers agree on what the phrases of a rank set.
AsSet(k, l, m) ==
    /\ k = 1 => (Have(l, "time") <=> Have(m, "time")) /\ l.time = m.time
    /\ k = 2 => (Have(l, "date") <=> Have(m, "date")) /\ l.date = m.date
    /\ k = 3 => (Have(l, "day") <=> Have(m, "day")) /\ l.day = m.day
    /\ k = 4 => /\ Have(l, "offset") <=> Have(m, "offset")
                /\ Have(l, "ago") <=> Have(m, "ago")
                /\ l.offsets = m.offsets
    /\ k = 5 => /\ \A s \in DMY : Have(l, s) <=> Have(m, s)
                /\ l.days = m.days /\ l.months = m.months

Sets(k, l, m) == m \in Lexers /\ m.states # {} /\ \A j \in 1 .. 5 : j # k => AsSet(j, m, l)

\* What each setter leaves to the phrases of other ranks.
LEMMA TimeSets ==
    ASSUME NEW l \in Lexers, NEW h \in Int
    PROVE  Sets(1, l, SetTime(l, h)) /\ (~Have(l, "time") => SetTime(l, h).time = h % 24)
           /\ Have(SetTime(l, h), "time")
<1>1. CASE Have(l, "time")
  BY <1>1, SetTimeIs DEF Sets, AsSet, Have
<1>2. CASE ~Have(l, "time")
  <2>1. Fields(SetTime(l, h), h % 24, l.date, l.day, l.offsets, l.days, l.months, l.states \cup {"time"})
    BY <1>2, SetTimeIs
  <2> QED BY <1>2, <2>1 DEF Fields, Sets, AsSet, Have, DMY
<1> QED BY <1>1, <1>2

LEMMA DateSets ==
    ASSUME NEW l \in Lexers, NEW y \in Int, NEW m \in Int, NEW d \in Int
    PROVE  Sets(2, l, SetDate(l, y, m, d)) /\ (~Have(l, "date") => SetDate(l, y, m, d).date = DayOf(y, m, d))
           /\ Have(SetDate(l, y, m, d), "date")
<1>1. CASE Have(l, "date")
  BY <1>1, SetDateIs DEF Sets, AsSet, Have
<1>2. CASE ~Have(l, "date")
  <2>1. Fields(SetDate(l, y, m, d), l.time, DayOf(y, m, d), l.day, l.offsets, l.days, l.months, l.states \cup {"date"})
    BY <1>2, SetDateIs
  <2> QED BY <1>2, <2>1 DEF Fields, Sets, AsSet, Have, DMY
<1> QED BY <1>1, <1>2

LEMMA DaySets ==
    ASSUME NEW l \in Lexers, NEW d \in Int
    PROVE  Sets(3, l, SetDay(l, d)) /\ (~Have(l, "day") => SetDay(l, d).day = d) /\ Have(SetDay(l, d), "day")
<1>1. CASE Have(l, "day")
  BY <1>1, SetDayIs DEF Sets, AsSet, Have
<1>2. CASE ~Have(l, "day")
  <2>1. Fields(SetDay(l, d), l.time, l.date, d, l.offsets, l.days, l.months, l.states \cup {"day"})
    BY <1>2, SetDayIs
  <2> QED BY <1>2, <2>1 DEF Fields, Sets, AsSet, Have, DMY
<1> QED BY <1>1, <1>2

LEMMA OffsetSets ==
    ASSUME NEW l \in Lexers, NEW u \in Units, NEW n \in Int
    PROVE  /\ Sets(4, l, AddOffset(l, u, n)) /\ Have(AddOffset(l, u, n), "offset")
           /\ Have(AddOffset(l, u, n), "ago") <=> Have(l, "ago")
           /\ AddOffset(l, u, n).offsets = [l.offsets EXCEPT ![u] = l.offsets[u] + n]
<1>1. Fields(AddOffset(l, u, n), l.time, l.date, l.day, [l.offsets EXCEPT ![u] = l.offsets[u] + n],
             l.days, l.months, l.states \cup {"offset"})
  BY AddOffsetIs
<1> QED BY <1>1 DEF Fields, Sets, AsSet, Have, DMY

LEMMA AgoSets ==
    ASSUME NEW l \in Lexers
    PROVE  /\ Sets(4, l, SetAgo(l)) /\ Have(SetAgo(l), "ago")
           /\ Have(SetAgo(l), "offset") <=> Have(l, "offset")
           /\ ~Have(l, "ago") => SetAgo(l).offsets = [x \in Units |-> -l.offsets[x]]
<1>1. CASE Have(l, "ago")
  BY <1>1, SetAgoIs DEF Sets, AsSet, Have
<1>2. CASE ~Have(l, "ago")
  <2>1. Fields(SetAgo(l), l.time, l.date, l.day, [x \in Units |-> -l.offsets[x]], l.days, l.months,
               l.states \cup {"ago"})
    BY <1>2, SetAgoIs
  <2> QED BY <1>2, <2>1 DEF Fields, Sets, AsSet, Have, DMY
<1> QED BY <1>1, <1>2

LEMMA DaysSets ==
    ASSUME NEW l \in Lexers, NEW d \in 0 .. 6, NEW n \in Int, NEW y \in Int
    PROVE  /\ Sets(5, l, SetDays(l, d, n, y))
           /\ SetDays(l, d, n, y).days = [weekday |-> d, num |-> n, year |-> y]
           /\ SetDays(l, d, n, y).months = l.months
           /\ SetDays(l, d, n, y).states = l.states \cup {"days"} \cup AbsYear(y, "day-year")
<1>1. Fields(SetDays(l, d, n, y), l.time, l.date, l.day, l.offsets, [weekday |-> d, num |-> n, year |-> y],
             l.months, l.states \cup {"days"} \cup AbsYear(y, "day-year"))
  BY SetDaysIs
<1> QED BY <1>1 DEF Fields, Sets, AsSet, Have, DMY, AbsYear

LEMMA MonthsSets ==
    ASSUME NEW l \in Lexers, NEW m \in 0 .. 12, NEW n \in Int, NEW y \in Int
    PROVE  /\ Sets(5, l, SetMonths(l, m, n, y))
           /\ SetMonths(l, m, n, y).days = l.days
           /\ ~Have(l, "months") =>
                /\ SetMonths(l, m, n, y).months = [month |-> m, num |-> n, year |-> y]
                /\ SetMonths(l, m, n, y).states = l.states \cup {"months"} \cup AbsYear(y, "month-year")
           /\ Have(l, "months") => SetMonths(l, m, n, y) = l
<1>1. CASE Have(l, "months")
  BY <1>1, SetMonthsIs DEF Sets, AsSet, Have
<1>2. CASE ~Have(l, "months")
  <2>1. Fields(SetMonths(l, m, n, y), l.time, l.date, l.day, l.offsets, l.days,
               [month |-> m, num |-> n, year |-> y], l.states \cup {"months"} \cup AbsYear(y, "month-year"))
    BY <1>2, SetMonthsIs
  <2> QED BY <1>2, <2>1 DEF Fields, Sets, AsSet, Have, DMY, AbsYear
<1> QED BY <1>1, <1>2

LEMMA BlankHas ==
    /\ DateLexer \in Lexers
    /\ \A s \in States : ~Have(DateLexer, s)
    /\ DateLexer.offsets = [x \in Units |-> 0]
    /\ DateLexer.days = [weekday |-> 0, num |-> 0, year |-> 0]
    /\ DateLexer.months = [month |-> 0, num |-> 0, year |-> 0]
    /\ DateLexer.states = {}
BY BlankIs DEF Fields, Have

\* What a phrase sets does not depend on what those of other ranks have set.
Reading(l, p) ==
    /\ Sets(Rank(p), l, Reads(l, p))
    /\ AsSet(Rank(p), l, DateLexer) => AsSet(Rank(p), Reads(l, p), Reads(DateLexer, p))

LEMMA Reading1 ==
    ASSUME NEW l \in Lexers, NEW p, IsPhrase(p), Rank(p) = 1
    PROVE  Reading(l, p)
<1>1. HourSaid(p) \in Int /\ \A m : Reads(m, p) = SetTime(m, HourSaid(p))
  BY ReadsTime
<1>2. "time" \in States
  BY DEF States
<1> QED BY <1>1, <1>2, TimeSets, BlankHas DEF Reading, AsSet

LEMMA Reading2 ==
    ASSUME NEW l \in Lexers, NEW p, IsPhrase(p), Rank(p) = 2
    PROVE  Reading(l, p)
<1>1. /\ YearSaid(p) \in Int /\ MonthSaid(p) \in Int /\ DaySaid(p) \in Int
      /\ \A m : Reads(m, p) = SetDate(m, YearSaid(p), MonthSaid(p), DaySaid(p))
  BY ReadsDate
<1>2. "date" \in States
  BY DEF States
<1> QED BY <1>1, <1>2, DateSets, BlankHas DEF Reading, AsSet

LEMMA ReadsThe ==
    ASSUME NEW l, NEW p, IsPhrase(p), Rank(p) = 3
    PROVE  p.kind = "the" /\ Reads(l, p) = SetDay(l, p.day) /\ p.day \in Int
<1>1. p.kind = "the"
  BY RankIs
<1>2. Reads(l, p) = SetDay(l, p.day)
  BY <1>1, ReadsIs
<1>3. p.day \in Int
  BY <1>1, PhraseIs
<1> QED BY <1>1, <1>2, <1>3

LEMMA Reading3 ==
    ASSUME NEW l \in Lexers, NEW p, IsPhrase(p), Rank(p) = 3
    PROVE  Reading(l, p)
<1>1. p.day \in Int /\ \A m : Reads(m, p) = SetDay(m, p.day)
  BY ReadsThe
<1>2. "day" \in States
  BY DEF States
<1> QED BY <1>1, <1>2, DaySets, BlankHas DEF Reading, AsSet

LEMMA ReadsOffset ==
    ASSUME NEW l, NEW p, IsPhrase(p), Rank(p) = 4
    PROVE  /\ p.kind = "offset" /\ p.unit \in Units /\ p.num \in Int /\ p.ago \in BOOLEAN
           /\ p.ago => Reads(l, p) = SetAgo(AddOffset(l, p.unit, p.num))
           /\ ~p.ago => Reads(l, p) = AddOffset(l, p.unit, p.num)
<1>1. p.kind = "offset"
  BY RankIs
<1>2. Reads(l, p) = IF p.ago THEN SetAgo(AddOffset(l, p.unit, p.num)) ELSE AddOffset(l, p.unit, p.num)
  BY <1>1, ReadsIs
<1>3. p.unit \in Units /\ p.num \in Int /\ p.ago \in BOOLEAN
  BY <1>1, PhraseIs
<1> QED BY <1>1, <1>2, <1>3

LEMMA Reading4 ==
    ASSUME NEW l \in Lexers, NEW p, IsPhrase(p), Rank(p) = 4
    PROVE  Reading(l, p)
<1>1. p.unit \in Units /\ p.num \in Int /\ p.ago \in BOOLEAN
  BY ReadsOffset
<1> DEFINE A(m) == AddOffset(m, p.unit, p.num)
<1>2. /\ Sets(4, l, A(l)) /\ Have(A(l), "offset")
      /\ Have(A(l), "ago") <=> Have(l, "ago")
      /\ A(l).offsets = [l.offsets EXCEPT ![p.unit] = l.offsets[p.unit] + p.num]
  BY <1>1, OffsetSets
<1>3. /\ Sets(4, DateLexer, A(DateLexer)) /\ Have(A(DateLexer), "offset")
      /\ Have(A(DateLexer), "ago") <=> Have(DateLexer, "ago")
      /\ A(DateLexer).offsets = [DateLexer.offsets EXCEPT ![p.unit] = DateLexer.offsets[p.unit] + p.num]
  BY <1>1, OffsetSets, BlankHas
<1>4. "offset" \in States /\ "ago" \in States
  BY DEF States
<1>5. CASE ~p.ago
  <2>1. Reads(l, p) = A(l) /\ Reads(DateLexer, p) = A(DateLexer)
    BY <1>5, ReadsOffset
  <2> HIDE DEF A
  <2> QED BY <1>2, <1>3, <2>1 DEF Reading, AsSet
<1>6. CASE p.ago
  <2>1. Reads(l, p) = SetAgo(A(l)) /\ Reads(DateLexer, p) = SetAgo(A(DateLexer))
    BY <1>6, ReadsOffset
  <2> HIDE DEF A
  <2>2. A(l) \in Lexers /\ A(DateLexer) \in Lexers
    BY <1>2, <1>3 DEF Sets
  <2>3. /\ Sets(4, A(l), SetAgo(A(l))) /\ Have(SetAgo(A(l)), "ago")
        /\ Have(SetAgo(A(l)), "offset")
        /\ ~Have(l, "ago") => SetAgo(A(l)).offsets = [x \in Units |-> -A(l).offsets[x]]
    BY <1>2, <2>2, AgoSets
  <2>4. /\ Have(SetAgo(A(DateLexer)), "ago") /\ Have(SetAgo(A(DateLexer)), "offset")
        /\ ~Have(DateLexer, "ago") => SetAgo(A(DateLexer)).offsets = [x \in Units |-> -A(DateLexer).offsets[x]]
    BY <1>3, <2>2, AgoSets
  <2>5. Sets(4, l, SetAgo(A(l)))
    BY <1>2, <2>3 DEF Sets, AsSet
  <2>6. ASSUME AsSet(4, l, DateLexer)
        PROVE  AsSet(4, SetAgo(A(l)), SetAgo(A(DateLexer)))
    <3>1. l.offsets = DateLexer.offsets /\ ~Have(l, "ago") /\ ~Have(DateLexer, "ago")
      BY <2>6, <1>4, BlankHas DEF AsSet
    <3>2. A(l).offsets = A(DateLexer).offsets
      BY <3>1, <1>2, <1>3
    <3> QED BY <3>1, <3>2, <2>3, <2>4 DEF AsSet
  <2> QED BY <2>1, <2>5, <2>6 DEF Reading
<1> QED BY <1>1, <1>5, <1>6

LEMMA ReadsDMY ==
    ASSUME NEW l, NEW p, IsPhrase(p), Rank(p) = 5
    PROVE  \/ /\ p.kind = "weekday" /\ p.weekday \in 0 .. 6 /\ p.num \in Int
              /\ Reads(l, p) = SetDays(l, p.weekday, p.num, 0)
           \/ /\ p.kind = "month" /\ p.month \in 1 .. 12 /\ p.num \in Int
              /\ Reads(l, p) = SetMonths(l, p.month, p.num, 0)
           \/ /\ p.kind = "nth" /\ p.nth \in Nat /\ p.weekday \in 0 .. 6 /\ p.year \in Nat
              /\ p.month = 0 /\ p.year # 0 /\ p.num = 0
              /\ Reads(l, p) = SetDays(l, p.weekday, p.nth, p.year)
           \/ /\ p.kind = "nth" /\ p.nth \in Nat /\ p.weekday \in 0 .. 6 /\ p.year \in Nat
              /\ ~(p.month = 0 /\ p.year # 0) /\ p.month \in 0 .. 12 /\ p.num \in Int
              /\ p.month = 0 \/ p.year # 0 => p.num = 0
              /\ Reads(l, p) = SetMonths(SetDays(l, p.weekday, p.nth, 0), p.month, p.num, p.year)
<1>1. p.kind = "weekday" \/ p.kind = "month" \/ p.kind = "nth"
  BY RankIs
<1>2. CASE p.kind = "weekday"
  BY <1>2, PhraseIs, ReadsIs
<1>3. CASE p.kind = "month"
  BY <1>3, PhraseIs, ReadsIs
<1>4. CASE p.kind = "nth"
  <2>1. /\ p.nth \in Nat /\ p.weekday \in 0 .. 6
        /\ p.month \in 0 .. 12 /\ p.num \in Int /\ p.year \in Nat
        /\ p.month = 0 \/ p.year # 0 => p.num = 0
    BY <1>4, PhraseIs
  <2> QED BY <1>4, <2>1, ReadsIs
<1> QED BY <1>1, <1>2, <1>3, <1>4

\* What the phrases of rank 5 set.
LEMMA WeekdaySets ==
    ASSUME NEW p, IsPhrase(p), p.kind = "weekday", Rank(p) = 5
    PROVE  \A m \in Lexers : /\ Sets(5, m, Reads(m, p))
                             /\ Reads(m, p).days = [weekday |-> p.weekday, num |-> p.num, year |-> 0]
                             /\ Reads(m, p).months = m.months
                             /\ Reads(m, p).states = m.states \cup {"days"}
<1>1. /\ p.weekday \in 0 .. 6 /\ p.num \in Int
      /\ \A m : Reads(m, p) = SetDays(m, p.weekday, p.num, 0)
  BY ReadsDMY
<1>2. \A m \in Lexers : /\ Sets(5, m, Reads(m, p))
                        /\ Reads(m, p).days = [weekday |-> p.weekday, num |-> p.num, year |-> 0]
                        /\ Reads(m, p).months = m.months
                        /\ Reads(m, p).states = m.states \cup {"days"} \cup AbsYear(0, "day-year")
  BY <1>1, DaysSets
<1>3. AbsYear(0, "day-year") = {}
  BY DEF AbsYear
<1> QED BY <1>2, <1>3

LEMMA MonthSets ==
    ASSUME NEW p, IsPhrase(p), p.kind = "month", Rank(p) = 5
    PROVE  \A m \in Lexers : /\ Sets(5, m, Reads(m, p))
                             /\ Reads(m, p).days = m.days
                             /\ Have(m, "months") => Reads(m, p) = m
                             /\ ~Have(m, "months") =>
                                  /\ Reads(m, p).months = [month |-> p.month, num |-> p.num, year |-> 0]
                                  /\ Reads(m, p).states = m.states \cup {"months"}
<1>1. /\ p.month \in 0 .. 12 /\ p.num \in Int
      /\ \A m : Reads(m, p) = SetMonths(m, p.month, p.num, 0)
  BY ReadsDMY
<1>2. \A m \in Lexers : /\ Sets(5, m, Reads(m, p))
                        /\ Reads(m, p).days = m.days
                        /\ Have(m, "months") => Reads(m, p) = m
                        /\ ~Have(m, "months") =>
                             /\ Reads(m, p).months = [month |-> p.month, num |-> p.num, year |-> 0]
                             /\ Reads(m, p).states = m.states \cup {"months"} \cup AbsYear(0, "month-year")
  BY <1>1, MonthsSets
<1>3. AbsYear(0, "month-year") = {}
  BY DEF AbsYear
<1> QED BY <1>2, <1>3

LEMMA NthYearSets ==
    ASSUME NEW p, IsPhrase(p), p.kind = "nth", p.month = 0, p.year # 0, Rank(p) = 5
    PROVE  \A m \in Lexers : /\ Sets(5, m, Reads(m, p))
                             /\ Reads(m, p).days = [weekday |-> p.weekday, num |-> p.nth, year |-> p.year]
                             /\ Reads(m, p).months = m.months
                             /\ Reads(m, p).states = m.states \cup {"days"} \cup {"day-year"}
<1>1. /\ p.weekday \in 0 .. 6 /\ p.nth \in Int /\ p.year \in Int
      /\ \A m : Reads(m, p) = SetDays(m, p.weekday, p.nth, p.year)
  BY ReadsDMY
<1>2. \A m \in Lexers : /\ Sets(5, m, Reads(m, p))
                        /\ Reads(m, p).days = [weekday |-> p.weekday, num |-> p.nth, year |-> p.year]
                        /\ Reads(m, p).months = m.months
                        /\ Reads(m, p).states = m.states \cup {"days"} \cup AbsYear(p.year, "day-year")
  BY <1>1, DaysSets
<1>3. AbsYear(p.year, "day-year") = {"day-year"}
  BY DEF AbsYear
<1> QED BY <1>2, <1>3

LEMMA NthMonthSets ==
    ASSUME NEW p, IsPhrase(p), p.kind = "nth", ~(p.month = 0 /\ p.year # 0), Rank(p) = 5
    PROVE  \A m \in Lexers :
              /\ Sets(5, m, Reads(m, p))
              /\ Reads(m, p).days = [weekday |-> p.weekday, num |-> p.nth, year |-> 0]
              /\ Have(m, "months") => Reads(m, p).states = m.states \cup {"days"}
              /\ ~Have(m, "months") =>
                   /\ Reads(m, p).months = [month |-> p.month, num |-> p.num, year |-> p.year]
                   /\ Reads(m, p).states = m.states \cup {"days"} \cup {"months"} \cup AbsYear(p.year, "month-year")
<1>1. /\ p.weekday \in 0 .. 6 /\ p.nth \in Int /\ p.year \in Int /\ p.month \in 0 .. 12 /\ p.num \in Int
      /\ \A m : Reads(m, p) = SetMonths(SetDays(m, p.weekday, p.nth, 0), p.month, p.num, p.year)
  BY ReadsDMY
<1> DEFINE D(m) == SetDays(m, p.weekday, p.nth, 0)
<1>2. \A m \in Lexers : /\ Sets(5, m, D(m)) /\ D(m) \in Lexers
                        /\ D(m).days = [weekday |-> p.weekday, num |-> p.nth, year |-> 0]
                        /\ D(m).months = m.months /\ (Have(D(m), "months") <=> Have(m, "months"))
                        /\ D(m).states = m.states \cup {"days"}
  BY <1>1, DaysSets DEF Sets, AbsYear, Have
<1>3. \A m : Reads(m, p) = SetMonths(D(m), p.month, p.num, p.year)
  BY <1>1
<1> HIDE DEF D
<1>4. \A m \in Lexers :
         /\ Sets(5, D(m), Reads(m, p))
         /\ Reads(m, p).days = D(m).days
         /\ Have(D(m), "months") => Reads(m, p) = D(m)
         /\ ~Have(D(m), "months") =>
              /\ Reads(m, p).months = [month |-> p.month, num |-> p.num, year |-> p.year]
              /\ Reads(m, p).states = D(m).states \cup {"months"} \cup AbsYear(p.year, "month-year")
  BY <1>1, <1>2, <1>3, MonthsSets
<1>5. \A m \in Lexers : Sets(5, m, Reads(m, p))
  BY <1>2, <1>4 DEF Sets, AsSet
<1> QED BY <1>2, <1>4, <1>5

LEMMA Reading5 ==
    ASSUME NEW l \in Lexers, NEW p, IsPhrase(p), Rank(p) = 5
    PROVE  Reading(l, p)
<1>0. DateLexer \in Lexers
  BY BlankHas
<1>1. "months" \in DMY /\ DMY \subseteq States
  BY DEF States, DMY
<1>2. Sets(5, l, Reads(l, p))
  BY WeekdaySets, MonthSets, NthYearSets, NthMonthSets, ReadsDMY
<1>3. ASSUME AsSet(5, l, DateLexer)
      PROVE  AsSet(5, Reads(l, p), Reads(DateLexer, p))
  <2>1. ~Have(l, "months") /\ ~Have(DateLexer, "months") /\ l.days = DateLexer.days /\ l.months = DateLexer.months
        /\ \A s \in DMY : s \notin l.states /\ s \notin DateLexer.states
    BY <1>1, <1>3, BlankHas DEF AsSet, Have
  <2>2. CASE p.kind = "weekday"
    <3>1. \A m \in Lexers : /\ Reads(m, p).states = m.states \cup {"days"}
                            /\ Reads(m, p).days = [weekday |-> p.weekday, num |-> p.num, year |-> 0]
                            /\ Reads(m, p).months = m.months
      BY <2>2, WeekdaySets
    <3> QED BY <1>0, <2>1, <3>1 DEF AsSet, Have
  <2>3. CASE p.kind = "month"
    <3>1. \A m \in Lexers : ~Have(m, "months") => /\ Reads(m, p).states = m.states \cup {"months"}
                            /\ Reads(m, p).days = m.days
                            /\ Reads(m, p).months = [month |-> p.month, num |-> p.num, year |-> 0]
      BY <2>3, MonthSets
    <3> QED BY <1>0, <2>1, <3>1 DEF AsSet, Have
  <2>4. CASE p.kind = "nth" /\ p.month = 0 /\ p.year # 0
    <3>1. \A m \in Lexers : /\ Reads(m, p).states = m.states \cup {"days"} \cup {"day-year"}
                            /\ Reads(m, p).days = [weekday |-> p.weekday, num |-> p.nth, year |-> p.year]
                            /\ Reads(m, p).months = m.months
      BY <2>4, NthYearSets
    <3> QED BY <1>0, <2>1, <3>1 DEF AsSet, Have
  <2>5. CASE p.kind = "nth" /\ ~(p.month = 0 /\ p.year # 0)
    <3>1. \A m \in Lexers : ~Have(m, "months") => /\ Reads(m, p).states = m.states \cup {"days"} \cup {"months"} \cup AbsYear(p.year, "month-year")
                            /\ Reads(m, p).days = [weekday |-> p.weekday, num |-> p.nth, year |-> 0]
                            /\ Reads(m, p).months = [month |-> p.month, num |-> p.num, year |-> p.year]
      BY <2>5, NthMonthSets
    <3> QED BY <1>0, <2>1, <3>1 DEF AsSet, Have
  <2> QED BY <2>2, <2>3, <2>4, <2>5, ReadsDMY
<1> QED BY <1>2, <1>3 DEF Reading

-----------------------------------------------------------------------------
(* resolve goes from one rank to the next.                                     *)

Stage(k, l, t) == IF k = 1 THEN Timed(l, t) ELSE IF k = 2 THEN Dated(l, t)
                  ELSE IF k = 3 THEN OnDay(l, t) ELSE IF k = 4 THEN Moved(l, t) ELSE Counted(l, t)
Conflicting(l) ==
    /\ Have(l, "day-year") \/ Have(l, "month-year")
    /\ Have(l, "date") \/ (Have(l, "day-year") /\ Have(l, "month-year"))

\* resolve, stage by stage.
LEMMA ResolveIs ==
    ASSUME NEW l, NEW t
    PROVE  Resolve(l, t) = IF Conflicting(l) THEN Conflict
                           ELSE Counted(l, Moved(l, OnDay(l, Dated(l, Timed(l, t)))))
<1> DEFINE years == l.states \cap {"day-year", "month-year"}
<1>1. years # {} <=> Have(l, "day-year") \/ Have(l, "month-year")
  BY DEF Have
<1>2. Cardinality(years) = 2 <=> Have(l, "day-year") /\ Have(l, "month-year")
  <2>1. Cardinality({}) = 0 /\ IsFiniteSet({"day-year"}) /\ Cardinality({"day-year"}) = 1
        /\ Cardinality({"month-year"}) = 1
    BY FS_EmptySet, FS_Singleton
  <2>2. Cardinality({"day-year"} \cup {"month-year"}) = 2
    <3>1. "month-year" \notin {"day-year"}
      OBVIOUS
    <3> QED BY <2>1, <3>1, FS_AddElement
  <2>3. \/ years = {} /\ ~Have(l, "day-year") /\ ~Have(l, "month-year")
        \/ years = {"day-year"} /\ Have(l, "day-year") /\ ~Have(l, "month-year")
        \/ years = {"month-year"} /\ ~Have(l, "day-year") /\ Have(l, "month-year")
        \/ years = {"day-year"} \cup {"month-year"} /\ Have(l, "day-year") /\ Have(l, "month-year")
    BY DEF Have
  <2> HIDE DEF years
  <2> QED BY <2>1, <2>2, <2>3
<1> QED BY <1>1, <1>2 DEF Resolve, Conflicting

\* A stage reads nothing but what the phrases of its rank set.
LEMMA StagesAgree ==
    ASSUME NEW k \in 1 .. 5, NEW l, NEW m, AsSet(k, l, m), NEW t
    PROVE  Stage(k, l, t) = Stage(k, m, t)
<1>1. CASE k = 1
  BY <1>1 DEF AsSet, Stage, Timed, ResolveTime
<1>2. CASE k = 2
  BY <1>2 DEF AsSet, Stage, Dated, ResolveDate
<1>3. CASE k = 3
  BY <1>3 DEF AsSet, Stage, OnDay, ResolveDay
<1>4. CASE k = 4
  BY <1>4 DEF AsSet, Stage, Moved, ResolveOffset
<1>5. CASE k = 5
  <2>1. l.states \cap DMY = m.states \cap DMY /\ l.days = m.days /\ l.months = m.months
    BY <1>5 DEF AsSet, Have
  <2>2. Have(l, "days") <=> Have(m, "days")
    BY <2>1 DEF Have, DMY
  <2>3. \A n : DayOffset(l, n) = DayOffset(m, n)
    BY <2>1 DEF DayOffset
  <2>4. \A at : CountedFrom(l, at) = CountedFrom(m, at)
    BY <2>1 DEF CountedFrom, DMY
  <2>5. ResolveDMY(l, t) = ResolveDMY(m, t)
    BY <2>2, <2>3, <2>4 DEF ResolveDMY
  <2> QED BY <1>5, <2>1, <2>5 DEF Stage, Counted
<1> QED BY <1>1, <1>2, <1>3, <1>4, <1>5

-----------------------------------------------------------------------------
(* A text of one phrase of each rank.                                          *)

LEMMA BlankStages ==
    ASSUME NEW k \in 1 .. 5, NEW m, AsSet(k, m, DateLexer), NEW t
    PROVE  Stage(k, m, t) = t
<1>1. Stage(k, m, t) = Stage(k, DateLexer, t)
  BY StagesAgree
<1>2. \A s \in States : ~Have(DateLexer, s)
  BY BlankHas
<1>3. "time" \in States /\ "date" \in States /\ "day" \in States /\ "offset" \in States /\ DateLexer.states \cap DMY = {}
  BY BlankHas DEF States, DMY
<1> QED BY <1>1, <1>2, <1>3 DEF Stage, Timed, Dated, OnDay, Moved, Counted

\* It has one year at most.
LEMMA OneYear ==
    ASSUME NEW p, IsPhrase(p), Rank(p) \in 1 .. 5
    PROVE  LET m == Reads(DateLexer, p)
           IN /\ Sets(Rank(p), DateLexer, m)
              /\ Have(m, "day-year") \/ Have(m, "month-year") <=> HasYear(p)
              /\ ~(Have(m, "day-year") /\ Have(m, "month-year"))
<1> DEFINE m == Reads(DateLexer, p)
<1>0. DateLexer \in Lexers
  BY BlankHas
<1>1. Sets(Rank(p), DateLexer, m)
  BY Reading1, Reading2, Reading3, Reading4, Reading5, BlankHas DEF Reading
<1>2. /\ ~Have(DateLexer, "day-year") /\ ~Have(DateLexer, "month-year") /\ ~Have(DateLexer, "months")
      /\ DateLexer.states = {}
  BY BlankHas DEF States, DMY
<1>3. CASE Rank(p) # 5
  <2>1. AsSet(5, m, DateLexer)
    BY <1>1, <1>3 DEF Sets
  <2>2. ~Have(m, "day-year") /\ ~Have(m, "month-year")
    BY <2>1, <1>2 DEF AsSet, DMY
  <2>3. ~HasYear(p)
    <3>1. p.kind # "ansi" /\ p.kind # "nth"
      BY <1>3, RankIs
    <3> QED BY <3>1 DEF HasYear
  <2> QED BY <1>1, <2>2, <2>3
<1>4. CASE Rank(p) = 5
  <2>1. CASE p.kind = "weekday"
    <3>1. m.states = DateLexer.states \cup {"days"}
      BY <1>0, <1>4, <2>1, WeekdaySets
    <3> QED BY <1>1, <1>2, <2>1, <3>1 DEF Have, HasYear
  <2>2. CASE p.kind = "month"
    <3>1. m.states = DateLexer.states \cup {"months"}
      BY <1>0, <1>2, <1>4, <2>2, MonthSets
    <3> QED BY <1>1, <1>2, <2>2, <3>1 DEF Have, HasYear
  <2>3. CASE p.kind = "nth" /\ p.month = 0 /\ p.year # 0
    <3>0. \A l \in Lexers : /\ Sets(5, l, Reads(l, p))
                            /\ Reads(l, p).days = [weekday |-> p.weekday, num |-> p.nth, year |-> p.year]
                            /\ Reads(l, p).months = l.months
                            /\ Reads(l, p).states = l.states \cup {"days"} \cup {"day-year"}
      BY <1>4, <2>3, NthYearSets
    <3>1. \A l \in Lexers : Reads(l, p).states = l.states \cup {"days"} \cup {"day-year"}
      BY <3>0
    <3> QED BY <1>0, <1>1, <1>2, <2>3, <3>1 DEF Have, HasYear
  <2>4. CASE p.kind = "nth" /\ ~(p.month = 0 /\ p.year # 0)
    <3>1. m.states = DateLexer.states \cup {"days"} \cup {"months"} \cup AbsYear(p.year, "month-year")
      BY <1>0, <1>2, <1>4, <2>4, NthMonthSets
    <3> QED BY <1>1, <1>2, <2>4, <3>1 DEF Have, HasYear, AbsYear
  <2> QED BY <1>4, <2>1, <2>2, <2>3, <2>4, ReadsDMY
<1> QED BY <1>3, <1>4

\* A phrase alone is resolved by the stage of its rank.
LEMMA AloneIs ==
    ASSUME NEW p, IsPhrase(p), Rank(p) \in 1 .. 5, NEW t
    PROVE  Alone(p, t) = Stage(Rank(p), Reads(DateLexer, p), t)
<1> DEFINE m == Reads(DateLexer, p)
<1>1. Sets(Rank(p), DateLexer, m) /\ ~(Have(m, "day-year") /\ Have(m, "month-year"))
  BY OneYear
<1> HIDE DEF m
<1>2. \A j \in 1 .. 5 : j # Rank(p) => AsSet(j, m, DateLexer)
  BY <1>1 DEF Sets
<1>3. \A j \in 1 .. 5 : j # Rank(p) => \A u : Stage(j, m, u) = u
  BY <1>2, BlankStages
<1>4. ~Conflicting(m)
  <2>1. ~Have(DateLexer, "date") /\ ~Have(DateLexer, "day-year") /\ ~Have(DateLexer, "month-year")
    BY BlankHas DEF States, DMY
  <2>2. Rank(p) # 2 => ~Have(m, "date")
    BY <1>2, <2>1 DEF AsSet
  <2>3. Rank(p) # 5 => ~Have(m, "day-year") /\ ~Have(m, "month-year")
    BY <1>2, <2>1 DEF AsSet, DMY
  <2> QED BY <1>1, <2>2, <2>3 DEF Conflicting
<1>5. Resolve(m, t) = Stage(5, m, Stage(4, m, Stage(3, m, Stage(2, m, Stage(1, m, t)))))
  <2>1. Resolve(m, t) = Counted(m, Moved(m, OnDay(m, Dated(m, Timed(m, t)))))
    BY <1>4, ResolveIs
  <2>2. /\ \A u : Stage(1, m, u) = Timed(m, u) /\ Stage(2, m, u) = Dated(m, u)
        /\ \A u : Stage(3, m, u) = OnDay(m, u) /\ Stage(4, m, u) = Moved(m, u) /\ Stage(5, m, u) = Counted(m, u)
    BY DEF Stage
  <2> QED BY <2>1, <2>2
<1>6. Resolve(m, t) = Stage(Rank(p), m, t)
  BY <1>3, <1>5
<1> QED BY <1>6 DEF Alone, m

-----------------------------------------------------------------------------
(* The lexer of a text of any phrases.                                         *)

YearsAfter(l, p, m) ==
    /\ Have(m, "day-year") => Have(l, "day-year") \/ (HasYear(p) /\ ~SetsMonth(p))
    /\ Have(m, "months") => Have(l, "months") \/ SetsMonth(p)
    /\ (Have(l, "month-year") => Have(l, "months")) => (Have(m, "month-year") => Have(m, "months"))

\* A phrase sets something, and the years in it are those of YearsSaid.
LEMMA ReadsAny ==
    ASSUME NEW l \in Lexers, NEW p, IsPhrase(p)
    PROVE  Reads(l, p) \in Lexers /\ Reads(l, p).states # {} /\ YearsAfter(l, p, Reads(l, p))
<1> DEFINE m == Reads(l, p)
<1>1. CASE Rank(p) \in 1 .. 4
  <2>1. Sets(Rank(p), l, m)
    BY <1>1, Reading1, Reading2, Reading3, Reading4 DEF Reading
  <2>2. AsSet(5, m, l)
    BY <1>1, <2>1 DEF Sets
  <2> HIDE DEF m
  <2>3. YearsAfter(l, p, m)
    BY <2>2 DEF AsSet, DMY, YearsAfter
  <2> QED BY <2>1, <2>3 DEF Sets, m
<1>2. CASE Rank(p) = 5
  <2>1. Sets(5, l, m)
    BY <1>2, Reading5 DEF Reading
  <2>2. YearsAfter(l, p, m)
    <3>1. CASE p.kind = "weekday"
      <4>1. \A x \in Lexers : Reads(x, p).states = x.states \cup {"days"}
        BY <1>2, <3>1, WeekdaySets
      <4>2. m.states = l.states \cup {"days"}
        BY <4>1
      <4> HIDE DEF m
      <4> QED BY <4>2 DEF YearsAfter, Have
    <3>2. CASE p.kind = "month"
      <4>1. \A x \in Lexers : Have(x, "months") => Reads(x, p) = x
        BY <1>2, <3>2, MonthSets
      <4>2. \A x \in Lexers : ~Have(x, "months") => Reads(x, p).states = x.states \cup {"months"}
        BY <1>2, <3>2, MonthSets
      <4>3. m = l \/ m.states = l.states \cup {"months"}
        BY <4>1, <4>2
      <4>4. SetsMonth(p)
        BY <3>2 DEF SetsMonth
      <4> HIDE DEF m
      <4> QED BY <4>3, <4>4 DEF YearsAfter, Have
    <3>3. CASE p.kind = "nth" /\ p.month = 0 /\ p.year # 0
      <4>0. \A x \in Lexers : /\ Sets(5, x, Reads(x, p))
                              /\ Reads(x, p).days = [weekday |-> p.weekday, num |-> p.nth, year |-> p.year]
                              /\ Reads(x, p).months = x.months
                              /\ Reads(x, p).states = x.states \cup {"days"} \cup {"day-year"}
        BY <1>2, <3>3, NthYearSets
      <4>1. \A x \in Lexers : Reads(x, p).states = x.states \cup {"days"} \cup {"day-year"}
        BY <4>0
      <4>2. m.states = l.states \cup {"days"} \cup {"day-year"}
        BY <4>1
      <4>3. HasYear(p) /\ ~SetsMonth(p)
        BY <3>3 DEF SetsMonth, HasYear
      <4> HIDE DEF m
      <4> QED BY <4>2, <4>3 DEF YearsAfter, Have
    <3>4. CASE p.kind = "nth" /\ ~(p.month = 0 /\ p.year # 0)
      <4>0. \A x \in Lexers :
              /\ Sets(5, x, Reads(x, p))
              /\ Reads(x, p).days = [weekday |-> p.weekday, num |-> p.nth, year |-> 0]
              /\ Have(x, "months") => Reads(x, p).states = x.states \cup {"days"}
              /\ ~Have(x, "months") =>
                   /\ Reads(x, p).months = [month |-> p.month, num |-> p.num, year |-> p.year]
                   /\ Reads(x, p).states = x.states \cup {"days"} \cup {"months"} \cup AbsYear(p.year, "month-year")
        BY <1>2, <3>4, NthMonthSets
      <4>1. \A x \in Lexers : Have(x, "months") => Reads(x, p).states = x.states \cup {"days"}
        BY <4>0
      <4>2. \A x \in Lexers : ~Have(x, "months") =>
               Reads(x, p).states = x.states \cup {"days"} \cup {"months"} \cup AbsYear(p.year, "month-year")
        BY <4>0
      <4>3. \/ m.states = l.states \cup {"days"}
            \/ m.states = l.states \cup {"days"} \cup {"months"} \cup AbsYear(p.year, "month-year")
        BY <4>1, <4>2
      <4>4. SetsMonth(p)
        BY <3>4 DEF SetsMonth
      <4> HIDE DEF m
      <4> QED BY <4>3, <4>4 DEF YearsAfter, Have, AbsYear
    <3> QED BY <1>2, <3>1, <3>2, <3>3, <3>4, ReadsDMY
  <2> QED BY <2>1, <2>2 DEF Sets
<1>3. CASE Rank(p) = 6
  <2>1. p.kind = "ansi"
    BY <1>3, RankIs
  <2>2. p.hour \in Int /\ p.year \in Int
    BY <2>1, PhraseIs
  <2>3. \A x : Reads(x, p) = SetYear(SetTime(x, p.hour), p.year)
    BY <2>1, ReadsIs
  <2>4. HasYear(p) /\ ~SetsMonth(p)
    BY <2>1 DEF HasYear, SetsMonth
  <2>5. PICK h \in Int : h = p.hour
    BY <2>2
  <2>6. PICK y \in Int : y = p.year
    BY <2>2
  <2> DEFINE c == SetTime(l, h)
  <2>7. Sets(1, l, c)
    BY TimeSets
  <2>8. c \in Lexers /\ AsSet(5, c, l) /\ c.states # {}
    BY <2>7 DEF Sets
  <2>9. m = SetYear(c, y)
    BY <2>3, <2>5, <2>6
  <2> HIDE DEF c, m
  <2>10. /\ \A s \in {"months", "day-year", "month-year"} : Have(c, s) <=> Have(l, s)
         /\ m \in Lexers
    BY <2>8, <2>9, SetYearIs DEF AsSet, DMY
  <2>11. \/ m.states = c.states
         \/ m.states = c.states \cup {"month-year"} /\ Have(c, "months")
         \/ m.states = c.states \cup {"day-year"}
    BY <2>8, <2>9, SetYearIs DEF Fields
  <2> QED BY <2>4, <2>8, <2>10, <2>11 DEF YearsAfter, Have, m
<1> QED BY <1>1, <1>2, <1>3, RankIs

\* The lexer of the one phrase of a rank.
Source(k) == IF Ranked(k) = {} THEN DateLexer ELSE Reads(DateLexer, spoken[CHOOSE i \in Ranked(k) : TRUE])
Merged == OneOfEach => \A k \in 1 .. 5 : AsSet(k, lexer, Source(k))

Started == /\ spoken = <<>> => lexer = DateLexer
           /\ Len(spoken) = 1 => lexer = Reads(DateLexer, spoken[1])
           /\ spoken # <<>> => lexer.states # {}

YearsSaid == /\ Have(lexer, "day-year") => \E i \in DOMAIN spoken : HasYear(spoken[i]) /\ ~SetsMonth(spoken[i])
             /\ Have(lexer, "months") => \E i \in DOMAIN spoken : SetsMonth(spoken[i])
             /\ Have(lexer, "month-year") => Have(lexer, "months")

DatesType == today \in Moment /\ lexer \in Lexers /\ spoken \in Seq(Phrase)

DatesInv == DatesType /\ Started /\ YearsSaid /\ Merged

LEMMA PhraseSaid ==
    ASSUME NEW p \in Phrase, spoken \in Seq(Phrase), spoken' = Append(spoken, p)
    PROVE  /\ spoken' \in Seq(Phrase) /\ Len(spoken) \in Nat /\ Len(spoken') = Len(spoken) + 1
           /\ DOMAIN spoken = 1 .. Len(spoken) /\ DOMAIN spoken' = 1 .. Len(spoken) + 1
           /\ \A i \in 1 .. Len(spoken) : spoken'[i] = spoken[i] /\ spoken[i] \in Phrase
           /\ spoken'[Len(spoken) + 1] = p
           /\ spoken' # <<>>
<1>1. spoken' \in Seq(Phrase) /\ Len(spoken) \in Nat /\ Len(spoken') = Len(spoken) + 1
      /\ spoken'[Len(spoken) + 1] = p
      /\ \A i \in 1 .. Len(spoken) : spoken'[i] = spoken[i]
  BY AppendProperties, LenProperties
<1>2. DOMAIN spoken = 1 .. Len(spoken) /\ DOMAIN spoken' = 1 .. Len(spoken')
  BY <1>1, LenProperties
<1>3. \A i \in 1 .. Len(spoken) : spoken[i] \in Phrase
  BY ElementOfSeq
<1>4. spoken' # <<>>
  BY <1>1, EmptySeq
<1> QED BY <1>1, <1>2, <1>3, <1>4

\* What was read before, when another phrase is.
LEMMA Later ==
    ASSUME NEW p \in Phrase, spoken \in Seq(Phrase), spoken' = Append(spoken, p), OneOfEach'
    PROVE  /\ OneOfEach /\ Rank(p) \in 1 .. 5
           /\ Ranked(Rank(p)) = {} /\ Ranked(Rank(p))' = {Len(spoken) + 1}
           /\ \A k \in 1 .. 5 : k # Rank(p) => Ranked(k)' = Ranked(k)
<1>1. /\ \A i, j \in DOMAIN spoken' : Rank(spoken'[i]) = Rank(spoken'[j]) => i = j
      /\ \A i \in DOMAIN spoken' : spoken'[i].kind # "ansi"
  BY DEF OneOfEach
<1>2. /\ Len(spoken) \in Nat
      /\ DOMAIN spoken = 1 .. Len(spoken) /\ DOMAIN spoken' = 1 .. Len(spoken) + 1
      /\ \A i \in 1 .. Len(spoken) : spoken'[i] = spoken[i]
      /\ spoken'[Len(spoken) + 1] = p
  BY PhraseSaid
<1>3. OneOfEach
  BY <1>1, <1>2 DEF OneOfEach
<1>4. Rank(p) \in 1 .. 5
  <2>1. IsPhrase(p) /\ p.kind # "ansi"
    BY <1>1, <1>2, DatesAssumption
  <2> QED BY <2>1, RankIs
<1>5. /\ \A k : Ranked(k) = {i \in 1 .. Len(spoken) : Rank(spoken[i]) = k}
      /\ \A k : Ranked(k)' = {i \in 1 .. Len(spoken) + 1 : Rank(spoken'[i]) = k}
  BY <1>2 DEF Ranked
<1>6. Ranked(Rank(p)) = {}
  <2> SUFFICES ASSUME NEW i \in 1 .. Len(spoken), Rank(spoken[i]) = Rank(p)
               PROVE  FALSE
    BY <1>5
  <2> QED BY <1>1, <1>2
<1>7. Ranked(Rank(p))' = {Len(spoken) + 1}
  <2> DEFINE k == Rank(p)
  <2>1. \A i \in 1 .. Len(spoken) : Rank(spoken[i]) # k
    BY <1>5, <1>6
  <2>2. \A i \in 1 .. Len(spoken) + 1 : Rank(spoken'[i]) = k <=> i = Len(spoken) + 1
    BY <1>2, <2>1
  <2> HIDE DEF k
  <2>3. Ranked(k)' = {i \in 1 .. Len(spoken) + 1 : Rank(spoken'[i]) = k}
    BY <1>5
  <2>4. {i \in 1 .. Len(spoken) + 1 : Rank(spoken'[i]) = k} = {Len(spoken) + 1}
    BY <1>2, <2>2
  <2> QED BY <2>3, <2>4 DEF k
<1>8. ASSUME NEW k \in 1 .. 5, k # Rank(p)
      PROVE  Ranked(k)' = Ranked(k)
  <2>1. \A i \in 1 .. Len(spoken) + 1 :
           Rank(spoken'[i]) = k <=> i \in 1 .. Len(spoken) /\ Rank(spoken[i]) = k
    BY <1>2, <1>8
  <2>2. {i \in 1 .. Len(spoken) + 1 : Rank(spoken'[i]) = k} = {i \in 1 .. Len(spoken) : Rank(spoken[i]) = k}
    BY <1>2, <2>1
  <2> QED BY <1>5, <2>2
<1> QED BY <1>3, <1>4, <1>6, <1>7, <1>8

\* The lexer still agrees with the one phrase of each rank when a phrase is read.
LEMMA MergedStep ==
    ASSUME NEW p \in Phrase, DatesType, Merged, spoken' = Append(spoken, p), lexer' = Reads(lexer, p)
    PROVE  Merged'
<1> SUFFICES ASSUME OneOfEach', NEW k \in 1 .. 5
             PROVE  AsSet(k, lexer', Source(k)')
  BY DEF Merged
<1>1. lexer \in Lexers /\ spoken \in Seq(Phrase) /\ IsPhrase(p)
  BY DatesAssumption DEF DatesType
<1>2. /\ OneOfEach /\ Rank(p) \in 1 .. 5
      /\ Ranked(Rank(p)) = {} /\ Ranked(Rank(p))' = {Len(spoken) + 1}
      /\ \A j \in 1 .. 5 : j # Rank(p) => Ranked(j)' = Ranked(j)
  BY <1>1, Later
<1>3. AsSet(k, lexer, Source(k))
  BY <1>2 DEF Merged
<1>4. Reading(lexer, p)
  BY <1>1, <1>2, Reading1, Reading2, Reading3, Reading4, Reading5
<1>5. CASE k = Rank(p)
  <2>1. Source(k) = DateLexer
    BY <1>2, <1>5 DEF Source
  <2>2. AsSet(k, lexer', Reads(DateLexer, p))
    BY <1>3, <1>4, <1>5, <2>1 DEF Reading
  <2>3. (CHOOSE i \in {Len(spoken) + 1} : TRUE) = Len(spoken) + 1
    OBVIOUS
  <2>4. spoken'[CHOOSE i \in Ranked(k)' : TRUE] = p
    BY <1>1, <1>2, <1>5, <2>3, PhraseSaid
  <2>5. Source(k)' = Reads(DateLexer, p)
    BY <1>2, <1>5, <2>4 DEF Source
  <2> QED BY <2>2, <2>5
<1>6. CASE k # Rank(p)
  <2>1. Ranked(k)' = Ranked(k)
    BY <1>2, <1>6
  <2>2. Source(k)' = Source(k)
    <3>1. CASE Ranked(k) = {}
      BY <2>1, <3>1 DEF Source
    <3>2. CASE Ranked(k) # {}
      <4>1. PICK i : i = CHOOSE j \in Ranked(k) : TRUE
        OBVIOUS
      <4>2. i \in Ranked(k)
        BY <3>2, <4>1, Zenon
      <4>3. i \in 1 .. Len(spoken)
        BY <1>1, <4>2, PhraseSaid DEF Ranked
      <4>4. spoken'[i] = spoken[i]
        BY <1>1, <4>3, PhraseSaid
      <4>5. Source(k) = Reads(DateLexer, spoken[i])
        BY <3>2, <4>1, Zenon DEF Source
      <4>6. Source(k)' = Reads(DateLexer, spoken'[i])
        BY <2>1, <3>2, <4>1, Zenon DEF Source
      <4> QED BY <4>4, <4>5, <4>6
    <3> QED BY <3>1, <3>2
  <2>3. AsSet(k, lexer', lexer)
    BY <1>4, <1>6 DEF Reading, Sets
  <2>4. AsSet(k, lexer', Source(k))
    BY <1>3, <2>3 DEF AsSet
  <2> QED BY <2>2, <2>4
<1> QED BY <1>5, <1>6

\* The inductive invariant: at first, and with each phrase.
LEMMA DatesInvInit ==
    ASSUME DatesInit
    PROVE  DatesInv
<1>1. today \in Moment /\ lexer = DateLexer /\ spoken = <<>>
  BY DatesAssumption DEF DatesInit
<1>2. spoken \in Seq(Phrase) /\ Len(spoken) = 0 /\ DOMAIN spoken = {}
  BY <1>1, EmptySeq
<1>3. DatesType /\ Started
  BY <1>1, <1>2, BlankHas DEF DatesType, Started
<1>4. YearsSaid
  BY <1>1, BlankHas DEF YearsSaid, States, DMY
<1>5. Merged
  <2>1. \A k : Ranked(k) = {}
    BY <1>2 DEF Ranked
  <2>2. \A k : Source(k) = DateLexer
    BY <2>1 DEF Source
  <2>3. \A k : AsSet(k, lexer, DateLexer)
    BY <1>1 DEF AsSet
  <2> QED BY <2>2, <2>3 DEF Merged
<1> QED BY <1>3, <1>4, <1>5 DEF DatesInv

LEMMA DatesInvStep ==
    ASSUME DatesInv, [DatesNext]_datesVars
    PROVE  DatesInv'
<1>1. CASE UNCHANGED datesVars
  BY <1>1 DEF DatesInv, DatesType, Started, YearsSaid, Merged, OneOfEach, Source, Ranked, datesVars
<1>2. CASE DatesNext
  <2>1. PICK p \in Phrase : lexer' = Reads(lexer, p) /\ spoken' = Append(spoken, p) /\ today' = today
    BY <1>2 DEF DatesNext
  <2>2. today \in Moment /\ lexer \in Lexers /\ spoken \in Seq(Phrase) /\ IsPhrase(p)
    BY DatesAssumption DEF DatesInv, DatesType
  <2>3. lexer' \in Lexers /\ lexer'.states # {} /\ YearsAfter(lexer, p, lexer')
    BY <2>1, <2>2, ReadsAny
  <2>4. /\ spoken' \in Seq(Phrase) /\ Len(spoken) \in Nat /\ Len(spoken') = Len(spoken) + 1
        /\ DOMAIN spoken = 1 .. Len(spoken) /\ DOMAIN spoken' = 1 .. Len(spoken) + 1
        /\ \A i \in 1 .. Len(spoken) : spoken'[i] = spoken[i] /\ spoken[i] \in Phrase
        /\ spoken'[Len(spoken) + 1] = p
        /\ spoken' # <<>>
    BY <2>1, <2>2, PhraseSaid
  <2>5. DatesType'
    BY <2>1, <2>2, <2>3, <2>4 DEF DatesType
  <2>6. Started'
    <3>1. Len(spoken') = 1 => lexer' = Reads(DateLexer, spoken'[1])
      <4> SUFFICES ASSUME Len(spoken') = 1
                   PROVE  lexer' = Reads(DateLexer, spoken'[1])
        OBVIOUS
      <4>0. Len(spoken) \in Nat /\ Len(spoken') = Len(spoken) + 1
        BY <2>4
      <4>00. PICK n \in Nat : n = Len(spoken)
        BY <4>0
      <4>01. n + 1 = 1
        BY <4>0, <4>00, Zenon
      <4>1. Len(spoken) = 0
        BY <4>00, <4>01
      <4>2. spoken = <<>>
        BY <2>2, <4>1, EmptySeq
      <4>3. lexer = DateLexer
        <5>1. Started
          BY DEF DatesInv
        <5> QED BY <4>2, <5>1 DEF Started
      <4> QED BY <2>1, <2>4, <4>1, <4>3
    <3> QED BY <2>3, <2>4, <3>1 DEF Started
  <2>7. YearsSaid'
    <3>1. Len(spoken) + 1 \in DOMAIN spoken' /\ spoken'[Len(spoken) + 1] = p
      BY <2>4
    <3>2. \A i \in DOMAIN spoken : i \in DOMAIN spoken' /\ spoken'[i] = spoken[i]
      BY <2>4
    <3>3. /\ Have(lexer, "day-year") => \E i \in DOMAIN spoken : HasYear(spoken[i]) /\ ~SetsMonth(spoken[i])
          /\ Have(lexer, "months") => \E i \in DOMAIN spoken : SetsMonth(spoken[i])
          /\ Have(lexer, "month-year") => Have(lexer, "months")
      BY DEF DatesInv, YearsSaid
    <3>4. Have(lexer', "day-year") => \E i \in DOMAIN spoken' : HasYear(spoken'[i]) /\ ~SetsMonth(spoken'[i])
      BY <2>3, <3>1, <3>2, <3>3 DEF YearsAfter
    <3>5. Have(lexer', "months") => \E i \in DOMAIN spoken' : SetsMonth(spoken'[i])
      BY <2>3, <3>1, <3>2, <3>3 DEF YearsAfter
    <3>6. Have(lexer', "month-year") => Have(lexer', "months")
      BY <2>3, <3>3 DEF YearsAfter
    <3> QED BY <3>4, <3>5, <3>6 DEF YearsSaid
  <2>8. Merged'
    BY <2>1, MergedStep DEF DatesInv
  <2> QED BY <2>5, <2>6, <2>7, <2>8 DEF DatesInv
<1> QED BY <1>1, <1>2

-----------------------------------------------------------------------------
(* Texts are made of what their phrases mean.                                  *)

LEMMA SourceIs ==
    ASSUME NEW k \in 1 .. 5, spoken \in Seq(Phrase), NEW t
    PROVE  /\ Then(t, k) = Stage(k, Source(k), t)
           /\ Ranked(k) = {} => Source(k) = DateLexer
           /\ Ranked(k) # {} => \E i \in Ranked(k) : IsPhrase(spoken[i]) /\ Source(k) = Reads(DateLexer, spoken[i])
<1>1. CASE Ranked(k) = {}
  <2>1. Source(k) = DateLexer /\ Then(t, k) = t
    BY <1>1 DEF Source, Then
  <2>2. AsSet(k, DateLexer, DateLexer)
    BY DEF AsSet
  <2> QED BY <1>1, <2>1, <2>2, BlankStages
<1>2. CASE Ranked(k) # {}
  <2>1. PICK i : i = CHOOSE j \in Ranked(k) : TRUE
    OBVIOUS
  <2>2. i \in Ranked(k)
    BY <1>2, <2>1, Zenon
  <2>3. i \in DOMAIN spoken /\ Rank(spoken[i]) = k
    BY <2>2 DEF Ranked
  <2>4. spoken[i] \in Phrase
    BY <2>3, LenProperties, ElementOfSeq
  <2>5. IsPhrase(spoken[i])
    BY <2>4, DatesAssumption
  <2>6. Source(k) = Reads(DateLexer, spoken[i])
    BY <1>2, <2>1, Zenon DEF Source
  <2>7. Then(t, k) = Alone(spoken[i], t)
    BY <1>2, <2>1, Zenon DEF Then
  <2> QED BY <1>2, <2>2, <2>3, <2>5, <2>6, <2>7, AloneIs
<1> QED BY <1>1, <1>2

\* What resolve makes of a text is each phrase's own meaning, rank by rank.
LEMMA TextsAreComposed ==
    ASSUME DatesInv
    PROVE  Composed(Resolve(lexer, today))
<1> SUFFICES ASSUME OneOfEach
             PROVE  IF \E i, j \in DOMAIN spoken : HasYear(spoken[i]) /\ Rank(spoken[j]) = 2
                    THEN Resolve(lexer, today) = Conflict
                    ELSE Resolve(lexer, today) = Then(Then(Then(Then(Then(today, 1), 2), 3), 4), 5)
  BY DEF Composed
<1>1. spoken \in Seq(Phrase)
  BY DEF DatesInv, DatesType
<1>2. \A k \in 1 .. 5 : AsSet(k, lexer, Source(k))
  BY DEF DatesInv, Merged
<1>3. \A k \in 1 .. 5 : \A t : Then(t, k) = Stage(k, lexer, t)
  BY <1>1, <1>2, SourceIs, StagesAgree
<1>4. /\ \A t : Then(t, 1) = Timed(lexer, t) /\ Then(t, 2) = Dated(lexer, t)
      /\ \A t : Then(t, 3) = OnDay(lexer, t) /\ Then(t, 4) = Moved(lexer, t) /\ Then(t, 5) = Counted(lexer, t)
  BY <1>3 DEF Stage
<1>5. Counted(lexer, Moved(lexer, OnDay(lexer, Dated(lexer, Timed(lexer, today)))))
         = Then(Then(Then(Then(Then(today, 1), 2), 3), 4), 5)
  BY <1>4
<1>6. Conflicting(lexer) <=> \E i, j \in DOMAIN spoken : HasYear(spoken[i]) /\ Rank(spoken[j]) = 2
  <2>0. /\ ~Have(DateLexer, "date") /\ ~Have(DateLexer, "day-year") /\ ~Have(DateLexer, "month-year")
        /\ DateLexer \in Lexers
    BY BlankHas DEF States, DMY
  <2>1. Have(lexer, "date") <=> \E j \in DOMAIN spoken : Rank(spoken[j]) = 2
    <3>1. Have(lexer, "date") <=> Have(Source(2), "date")
      BY <1>2 DEF AsSet
    <3>2. CASE Ranked(2) = {}
      BY <1>1, <2>0, <3>1, <3>2, SourceIs DEF Ranked
    <3>3. CASE Ranked(2) # {}
      <4>1. PICK i \in Ranked(2) : IsPhrase(spoken[i]) /\ Source(2) = Reads(DateLexer, spoken[i])
        BY <1>1, <3>3, SourceIs
      <4> DEFINE p == spoken[i]
      <4>2. i \in DOMAIN spoken /\ Rank(p) = 2
        BY DEF Ranked
      <4>3. /\ YearSaid(p) \in Int /\ MonthSaid(p) \in Int /\ DaySaid(p) \in Int
            /\ Reads(DateLexer, p) = SetDate(DateLexer, YearSaid(p), MonthSaid(p), DaySaid(p))
        BY <4>1, <4>2, ReadsDate
      <4> HIDE DEF p
      <4>4. Have(SetDate(DateLexer, YearSaid(p), MonthSaid(p), DaySaid(p)), "date")
        BY <2>0, <4>3, DateSets
      <4>5. Source(2) = Reads(DateLexer, p)
        BY <4>1 DEF p
      <4>6. Have(Source(2), "date")
        BY <4>3, <4>4, <4>5
      <4> QED BY <3>1, <4>2, <4>6 DEF p
    <3> QED BY <3>2, <3>3
  <2>2. /\ Have(lexer, "day-year") <=> Have(Source(5), "day-year")
        /\ Have(lexer, "month-year") <=> Have(Source(5), "month-year")
    BY <1>2 DEF AsSet, DMY
  <2>3. ASSUME NEW i \in DOMAIN spoken, HasYear(spoken[i])
        PROVE  i \in Ranked(5)
    <3>1. spoken[i].kind = "nth"
      BY <2>3 DEF OneOfEach, HasYear
    <3>2. IsPhrase(spoken[i])
      BY <1>1, DatesAssumption, LenProperties, ElementOfSeq
    <3> QED BY <3>1, <3>2, RankIs DEF Ranked
  <2>4. /\ ~(Have(lexer, "day-year") /\ Have(lexer, "month-year"))
        /\ Have(lexer, "day-year") \/ Have(lexer, "month-year") <=> \E i \in DOMAIN spoken : HasYear(spoken[i])
    <3>1. CASE Ranked(5) = {}
      BY <1>1, <2>0, <2>2, <2>3, <3>1, SourceIs
    <3>2. CASE Ranked(5) # {}
      <4>1. PICK i \in Ranked(5) : IsPhrase(spoken[i]) /\ Source(5) = Reads(DateLexer, spoken[i])
        BY <1>1, <3>2, SourceIs
      <4>2. i \in DOMAIN spoken /\ Rank(spoken[i]) = 5
        BY DEF Ranked
      <4>3. \A j \in DOMAIN spoken : HasYear(spoken[j]) => j = i
        BY <2>3, <4>2 DEF Ranked, OneOfEach
      <4>4. /\ ~(Have(Source(5), "day-year") /\ Have(Source(5), "month-year"))
            /\ Have(Source(5), "day-year") \/ Have(Source(5), "month-year") <=> HasYear(spoken[i])
        BY <4>1, <4>2, OneYear
      <4> QED BY <2>2, <4>2, <4>3, <4>4
    <3> QED BY <3>1, <3>2
  <2> QED BY <2>1, <2>4 DEF Conflicting
<1> QED BY <1>5, <1>6, ResolveIs

-----------------------------------------------------------------------------
(* Which moments a lexer gives.                                                *)

LEMMA MomentIs ==
    ASSUME NEW t \in Moment
    PROVE  /\ t.day \in Int /\ t.hour \in 0 .. 23 /\ t.hour \in Int /\ t = [day |-> t.day, hour |-> t.hour]
           /\ t # Panic /\ t # Conflict
<1>1. t.day \in Int /\ t.hour \in 0 .. 23 /\ t = [day |-> t.day, hour |-> t.hour]
  BY DEF Moment
<1>2. t # Panic /\ t # Conflict
  <2>1. DOMAIN t = {"day", "hour"}
    BY <1>1
  <2>2. DOMAIN Panic = {"error"} /\ DOMAIN Conflict = {"error"}
    BY DEF Panic, Conflict
  <2> QED BY <2>1, <2>2
<1> QED BY <1>1, <1>2

LEMMA OnTheDay ==
    ASSUME NEW t \in Moment, NEW n \in Int
    PROVE  [t EXCEPT !.day = n] = [day |-> n, hour |-> t.hour] /\ [t EXCEPT !.day = n] \in Moment
<1>1. t.day \in Int /\ t.hour \in 0 .. 23 /\ t = [day |-> t.day, hour |-> t.hour]
  BY MomentIs
<1> QED BY <1>1 DEF Moment

LEMMA AtTheHour ==
    ASSUME NEW t \in Moment, NEW h \in 0 .. 23
    PROVE  [t EXCEPT !.hour = h] = [day |-> t.day, hour |-> h] /\ [t EXCEPT !.hour = h] \in Moment
<1>1. t.day \in Int /\ t.hour \in 0 .. 23 /\ t = [day |-> t.day, hour |-> t.hour]
  BY MomentIs
<1> QED BY <1>1 DEF Moment

On(y, m, d) == [year |-> y, month |-> m, day |-> d]
DateSet == [year : Int, month : Int, day : Int]
MonthHere(l, at) == IF l.months.month = 0 THEN at.month ELSE l.months.month
MovedTo(l, at) == DateOf(MonthOffset(MonthHere(l, at), l.months.num, at))

LEMMA CountedFromIs ==
    ASSUME NEW l, NEW at
    PROVE  LET D == Have(l, "days")
               M == Have(l, "months")
               DY == Have(l, "day-year")
               MY == Have(l, "month-year")
           IN /\ D /\ ~M /\ ~DY /\ ~MY => CountedFrom(l, at) = at
              /\ ~D /\ M /\ ~DY /\ ~MY => CountedFrom(l, at) = MovedTo(l, at)
              /\ D /\ M /\ ~DY /\ ~MY => CountedFrom(l, at) = On(MovedTo(l, at).year, MovedTo(l, at).month, 0)
              /\ ~D /\ ~M /\ DY /\ ~MY => CountedFrom(l, at) = On(l.days.year, at.month, at.day)
              /\ ~D /\ ~M /\ ~DY /\ MY => CountedFrom(l, at) = On(l.months.year, at.month, at.day)
              /\ ~D /\ M /\ ~DY /\ MY => CountedFrom(l, at) = On(l.months.year, l.months.month, at.day)
              /\ D /\ ~M /\ DY /\ ~MY => CountedFrom(l, at) = On(l.days.year, 1, 0)
              /\ D /\ M /\ ~DY /\ MY => CountedFrom(l, at) = On(l.months.year, l.months.month, 0)
              /\ M /\ DY => CountedFrom(l, at) = Panic
<1> DEFINE have == l.states \cap {"days", "day-year", "months", "month-year"}
           D == Have(l, "days")
           M == Have(l, "months")
           DY == Have(l, "day-year")
           MY == Have(l, "month-year")
<1>1. /\ have = {"month-year", "months"} <=> ~D /\ M /\ ~DY /\ MY
      /\ have = {"day-year", "days"} <=> D /\ ~M /\ DY /\ ~MY
      /\ have = {"month-year", "months", "days"} <=> D /\ M /\ ~DY /\ MY
      /\ have = {"days"} <=> D /\ ~M /\ ~DY /\ ~MY
  BY DEF Have
<1>2. /\ have = {"months"} <=> ~D /\ M /\ ~DY /\ ~MY
      /\ have = {"months", "days"} <=> D /\ M /\ ~DY /\ ~MY
      /\ have = {"month-year"} <=> ~D /\ ~M /\ ~DY /\ MY
      /\ have = {"day-year"} <=> ~D /\ ~M /\ DY /\ ~MY
  BY DEF Have
<1>3. CountedFrom(l, at) =
        CASE have = {"month-year", "months"} -> On(l.months.year, l.months.month, at.day)
          [] have = {"day-year", "days"} -> On(l.days.year, 1, 0)
          [] have = {"month-year", "months", "days"} -> On(l.months.year, l.months.month, 0)
          [] have = {"days"} -> at
          [] have = {"months"} -> MovedTo(l, at)
          [] have = {"months", "days"} -> On(MovedTo(l, at).year, MovedTo(l, at).month, 0)
          [] have = {"month-year"} -> On(l.months.year, at.month, at.day)
          [] have = {"day-year"} -> On(l.days.year, at.month, at.day)
          [] OTHER -> Panic
  BY DEF CountedFrom, On, MovedTo, MonthHere
<1> HIDE DEF have, D, M, DY, MY
<1>4. CASE D /\ ~M /\ ~DY /\ ~MY
  BY <1>1, <1>2, <1>3, <1>4 DEF D, M, DY, MY
<1>5. CASE ~(D /\ ~M /\ ~DY /\ ~MY)
  BY <1>1, <1>2, <1>3, <1>5 DEF D, M, DY, MY
<1> QED BY <1>4, <1>5

LEMMA LexerIs ==
    ASSUME NEW l \in Lexers
    PROVE  /\ l.time \in 0 .. 23 /\ l.date \in Int /\ l.day \in Int
           /\ \A u \in Units : l.offsets[u] \in Int
           /\ l.days.weekday \in 0 .. 6 /\ l.days.num \in Int /\ l.days.year \in Int
           /\ l.months.month \in 0 .. 12 /\ l.months.num \in Int /\ l.months.year \in Int
<1>1. l.time \in 0 .. 23 /\ l.date \in Int /\ l.day \in Int /\ l.offsets \in Offsets /\ l.days \in DaysSet /\ l.months \in MonthsSet
  BY DEF Lexers
<1> QED BY <1>1 DEF Offsets, DaysSet, MonthsSet

LEMMA DateIn ==
    ASSUME NEW n \in Int
    PROVE  LET d == DateOf(n)
           IN /\ d.year \in Int /\ d.month \in 1 .. 12 /\ d.day \in 1 .. 31
              /\ d = On(d.year, d.month, d.day) /\ d \in DateSet
<1>1. IsDateOf(DateOf(n), n)
  BY DateIs
<1> DEFINE d == DateOf(n)
<1>2. d = [year |-> d.year, month |-> d.month, day |-> d.day] /\ d.year \in Int /\ d.month \in 1 .. 12 /\ d.day \in 1 .. 31
  BY <1>1 DEF IsDateOf
<1> HIDE DEF d
<1> QED BY <1>2 DEF On, DateSet, d

LEMMA TimedIs ==
    ASSUME NEW l \in Lexers, NEW t \in Moment
    PROVE  /\ Timed(l, t) \in Moment
           /\ Have(l, "time") => Timed(l, t) = [day |-> t.day, hour |-> l.time]
           /\ ~Have(l, "time") => Timed(l, t) = t
BY LexerIs, AtTheHour DEF Timed, ResolveTime

LEMMA DatedIs ==
    ASSUME NEW l \in Lexers, NEW t \in Moment
    PROVE  LET at == DateOf(l.date)
           IN /\ Dated(l, t) \in Moment
              /\ Have(l, "date") => Dated(l, t) = [day |-> DayOf(IF at.year = 0 THEN DateOf(t.day).year ELSE at.year,
                                                                at.month, at.day), hour |-> t.hour]
              /\ ~Have(l, "date") => Dated(l, t) = t
<1> DEFINE at == DateOf(l.date)
           y == IF at.year = 0 THEN DateOf(t.day).year ELSE at.year
           n == DayOf(y, at.month, at.day)
<1>1. l.date \in Int /\ t.day \in Int
  BY LexerIs, MomentIs
<1>2. DateOf(t.day).year \in Int /\ at.year \in Int /\ at.month \in Int /\ at.day \in Int
  BY <1>1, DateIn
<1> HIDE DEF at
<1>3. y \in Int
  BY <1>2
<1> HIDE DEF y
<1>4. n \in Int
  BY <1>2, <1>3, DayIs
<1>5. Have(l, "date") => Dated(l, t) = [t EXCEPT !.day = n]
  BY DEF Dated, ResolveDate, n, y, at
<1> HIDE DEF n
<1>6. /\ Dated(l, t) \in Moment
      /\ Have(l, "date") => Dated(l, t) = [day |-> n, hour |-> t.hour]
      /\ ~Have(l, "date") => Dated(l, t) = t
  BY <1>4, <1>5, OnTheDay DEF Dated
<1> QED BY <1>6 DEF n, y, at

LEMMA OnDayIs ==
    ASSUME NEW l \in Lexers, NEW t \in Moment
    PROVE  LET d == DateOf(t.day)
           IN /\ OnDay(l, t) \in Moment
              /\ Have(l, "day") => OnDay(l, t) = [day |-> DayOf(d.year, d.month, l.day), hour |-> t.hour]
              /\ ~Have(l, "day") => OnDay(l, t) = t
<1> DEFINE d == DateOf(t.day)
           n == DayOf(d.year, d.month, l.day)
<1>1. l.day \in Int /\ t.day \in Int
  BY LexerIs, MomentIs
<1>2. d.year \in Int /\ d.month \in Int
  BY <1>1, DateIn
<1>3. Have(l, "day") => OnDay(l, t) = [t EXCEPT !.day = n]
  BY DEF OnDay, ResolveDay
<1> HIDE DEF d
<1>4. n \in Int
  BY <1>1, <1>2, DayIs
<1> HIDE DEF n
<1>5. /\ OnDay(l, t) \in Moment
      /\ Have(l, "day") => OnDay(l, t) = [day |-> n, hour |-> t.hour]
      /\ ~Have(l, "day") => OnDay(l, t) = t
  BY <1>3, <1>4, OnTheDay DEF OnDay
<1> QED BY <1>5 DEF n, d

LEMMA MovedIs ==
    ASSUME NEW l \in Lexers, NEW t \in Moment
    PROVE  LET d == DateOf(t.day)
               n == DayOf(d.year + l.offsets["year"], d.month + l.offsets["month"], d.day + l.offsets["day"])
               h == t.hour + l.offsets["hour"]
           IN /\ Moved(l, t) \in Moment
              /\ Have(l, "offset") => Moved(l, t) = [day |-> n + h \div 24, hour |-> h % 24]
              /\ ~Have(l, "offset") => Moved(l, t) = t
<1> DEFINE d == DateOf(t.day)
           n == DayOf(d.year + l.offsets["year"], d.month + l.offsets["month"], d.day + l.offsets["day"])
           h == t.hour + l.offsets["hour"]
<1>1. t.day \in Int /\ t.hour \in Int
  BY MomentIs
<1>2. d.year \in Int /\ d.month \in Int /\ d.day \in Int
  BY <1>1, DateIn
<1>3. l.offsets["year"] \in Int /\ l.offsets["month"] \in Int /\ l.offsets["day"] \in Int /\ l.offsets["hour"] \in Int
  BY LexerIs DEF Units
<1>4. Have(l, "offset") => Moved(l, t) = [day |-> n + h \div 24, hour |-> h % 24]
  BY DEF Moved, ResolveOffset, AddDate
<1> HIDE DEF d
<1>5. h \in Int
  BY <1>1, <1>3
<1>6. d.year + l.offsets["year"] \in Int /\ d.month + l.offsets["month"] \in Int /\ d.day + l.offsets["day"] \in Int
  BY <1>2, <1>3
<1>7. n \in Int
  BY <1>6, DayIs
<1> HIDE DEF n, h
<1>8. n + h \div 24 \in Int /\ h % 24 \in 0 .. 23
  BY <1>5, <1>7
<1>9. \A x \in Int : \A g \in 0 .. 23 : [day |-> x, hour |-> g] \in Moment
  BY DEF Moment
<1>10. /\ Moved(l, t) \in Moment
       /\ ~Have(l, "offset") => Moved(l, t) = t
  BY <1>4, <1>8, <1>9 DEF Moved
<1> QED BY <1>4, <1>10 DEF n, h, d

LEMMA MonthsOnIs ==
    ASSUME NEW x \in Int, NEW num \in Int, NEW month \in 1 .. 12
    PROVE  MonthsOn(month, num, x) \in Int
BY DEF MonthsOn, Rem, YearsFrom

\* Moving from a day to a month.
LEMMA MonthOffsetIs ==
    ASSUME NEW n \in Int, NEW month \in 1 .. 12, NEW num \in Int
    PROVE  LET at == DateOf(n)
               x == MonthIndex(at) + MonthsOn(month, num, MonthIndex(at))
           IN /\ MonthIndex(at) \in Int /\ x \in Int
              /\ MonthOffset(month, num, at) = First(x) + at.day - 1
              /\ MonthOffset(month, num, at) \in Int
<1> DEFINE at == DateOf(n)
           x0 == MonthIndex(at)
           k == MonthsOn(month, num, x0)
<1>1. at.year \in Int /\ at.month \in 1 .. 12 /\ at.day \in 1 .. 31
  BY DateIn
<1> HIDE DEF at
<1>2. x0 \in Int /\ (x0 % 12) + 1 = at.month /\ x0 = 12 * at.year + at.month - 1
  BY <1>1 DEF MonthIndex
<1>3. MonthOffset(month, num, at) = DayOf(at.year + 0, at.month + k, at.day + 0)
  <2>1. MonthOffset(month, num, at) =
          AddDate(at, 0, LET diff == month - at.month
                         IN IF num = 0 THEN Rem(diff + 5, 12) - 5 ELSE YearsFrom(num, diff) * 12 + diff, 0)
    BY DEF MonthOffset
  <2>2. k = LET diff == month - at.month
            IN IF num = 0 THEN Rem(diff + 5, 12) - 5 ELSE YearsFrom(num, diff) * 12 + diff
    BY <1>2 DEF MonthsOn
  <2> HIDE DEF k
  <2> QED BY <2>1, <2>2 DEF AddDate
<1> HIDE DEF x0
<1>4. k \in Int
  BY <1>2, MonthsOnIs
<1> HIDE DEF k
<1>5. PICK y \in Int, m \in Int, d \in Int, q \in Int :
         y = at.year /\ m = at.month /\ d = at.day /\ q = k
  BY <1>1, <1>4
<1>6. y + 0 = y /\ d + 0 = d /\ m + q \in Int
  OBVIOUS
<1>7. DayOf(y, m + q, d) = First(12 * y + (m + q) - 1) + d - 1 /\ DayOf(y, m + q, d) \in Int
  BY <1>6, DayIs
<1>8. x0 = 12 * y + m - 1
  BY <1>2, <1>5
<1>9. 12 * y + (m + q) - 1 = x0 + q /\ x0 + q \in Int
  BY <1>8
<1>10. MonthOffset(month, num, at) = DayOf(y, m + q, d)
  BY <1>3, <1>5, <1>6
<1> QED BY <1>2, <1>5, <1>7, <1>9, <1>10 DEF k, x0, at

LEMMA DayOffsetIs ==
    ASSUME NEW l \in Lexers, NEW n \in Int
    PROVE  DayOffset(l, n) \in Int
<1>1. l.days.weekday \in 0 .. 6 /\ l.days.num \in Int
  BY LexerIs
<1> QED BY <1>1 DEF DayOffset, WeeksFrom, Weekday

\* resolveDMY gives a moment but for a year and a month set apart.
LEMMA CountedIs ==
    ASSUME NEW l \in Lexers, NEW t \in Moment, ~(Have(l, "day-year") /\ Have(l, "month-year")),
           Have(l, "month-year") => Have(l, "months")
    PROVE  /\ Have(l, "day-year") /\ Have(l, "months") => Counted(l, t) = Panic
           /\ ~(Have(l, "day-year") /\ Have(l, "months")) => Counted(l, t) \in Moment
           /\ l.states \cap DMY # {} /\ ~(Have(l, "day-year") /\ Have(l, "months")) =>
                LET from == CountedFrom(l, DateOf(t.day))
                    n == DayOf(from.year, from.month, from.day)
                IN /\ from \in DateSet /\ n \in Int
                   /\ Counted(l, t) = [day |-> IF Have(l, "days") THEN DayOffset(l, n) ELSE n, hour |-> t.hour]
<1> DEFINE at == DateOf(t.day)
           from == CountedFrom(l, at)
           n == DayOf(from.year, from.month, from.day)
           r == IF Have(l, "days") THEN DayOffset(l, n) ELSE n
<1>1. t.day \in Int
  BY MomentIs
<1>2. at.year \in Int /\ at.month \in 1 .. 12 /\ at.day \in Int /\ at \in DateSet
  BY <1>1, DateIn
<1>3. /\ l.days.year \in Int /\ l.months.month \in 0 .. 12 /\ l.months.num \in Int /\ l.months.year \in Int
  BY LexerIs
<1>4. MovedTo(l, at).year \in Int /\ MovedTo(l, at).month \in Int /\ MovedTo(l, at) \in DateSet
  <2>1. PICK m \in 1 .. 12 : m = MonthHere(l, at)
    BY <1>2, <1>3 DEF MonthHere
  <2>2. MonthOffset(m, l.months.num, at) \in Int
    BY <1>1, <1>3, MonthOffsetIs
  <2> QED BY <2>1, <2>2, DateIn DEF MovedTo
<1>5. Counted(l, t) = IF l.states \cap DMY = {} THEN t ELSE IF from = Panic THEN Panic ELSE [t EXCEPT !.day = r]
  BY DEF Counted, ResolveDMY
<1>6. l.states \cap DMY # {} <=> Have(l, "days") \/ Have(l, "months") \/ Have(l, "day-year") \/ Have(l, "month-year")
  BY DEF Have, DMY
<1> HIDE DEF at, n
<1>7. Have(l, "day-year") /\ Have(l, "months") => from = Panic
  BY CountedFromIs
<1>8. ASSUME l.states \cap DMY # {}, ~(Have(l, "day-year") /\ Have(l, "months"))
      PROVE  from \in DateSet
  <2>1. \A y, m, d \in Int : On(y, m, d) \in DateSet
    BY DEF On, DateSet
  <2>2. l.months.month \in Int /\ at.month \in Int /\ 0 \in Int /\ 1 \in Int
    BY <1>2, <1>3
  <2>3. \/ from = at \/ from = MovedTo(l, at) \/ from = On(MovedTo(l, at).year, MovedTo(l, at).month, 0)
        \/ from = On(l.days.year, at.month, at.day) \/ from = On(l.months.year, l.months.month, at.day)
        \/ from = On(l.days.year, 1, 0) \/ from = On(l.months.year, l.months.month, 0)
    BY <1>6, <1>8, CountedFromIs
  <2> HIDE DEF from
  <2> QED BY <1>2, <1>3, <1>4, <2>1, <2>2, <2>3
<1> HIDE DEF from
<1>9. ASSUME l.states \cap DMY # {}, ~(Have(l, "day-year") /\ Have(l, "months"))
      PROVE  from \in DateSet /\ n \in Int /\ Counted(l, t) = [day |-> r, hour |-> t.hour] /\ Counted(l, t) \in Moment
  <2>1. from \in DateSet
    BY <1>8, <1>9
  <2>2. from.year \in Int /\ from.month \in Int /\ from.day \in Int
    BY <2>1 DEF DateSet
  <2>3. n \in Int
    BY <2>2, DayIs DEF n
  <2>4. r \in Int
    BY <2>3, DayOffsetIs
  <2>5. from # Panic
    <3>1. DOMAIN from = {"year", "month", "day"} /\ DOMAIN Panic = {"error"}
      BY <2>1 DEF DateSet, Panic
    <3> QED BY <3>1
  <2> HIDE DEF r
  <2>6. Counted(l, t) = [t EXCEPT !.day = r]
    BY <1>5, <1>9, <2>5
  <2> QED BY <2>1, <2>3, <2>4, <2>6, OnTheDay
<1>10. l.states \cap DMY = {} => Counted(l, t) \in Moment
  BY <1>5
<1>11. Have(l, "day-year") /\ Have(l, "months") => Counted(l, t) = Panic
  BY <1>5, <1>6, <1>7
<1> QED BY <1>9, <1>10, <1>11 DEF r, n, from, at

-----------------------------------------------------------------------------
(* A phrase alone means what it says.                                          *)

SaidAlone(p, t) == Means(p, t, Alone(p, t))

LEMMA FirstsGrow ==
    ASSUME NEW a \in Int, NEW b \in Int, a <= b
    PROVE  First(a) <= First(b) /\ First(a) \in Int /\ First(b) \in Int
<1>1. First(a) \in Int /\ First(b) \in Int
  BY MonthsFollow
<1>2. CASE a = b
  BY <1>1, <1>2
<1>3. CASE a < b
  <2>1. First(a + 1) <= First(b)
    BY <1>3, MonthsFollow
  <2>2. First(a + 1) = First(a) + DaysOf(a \div 12, (a % 12) + 1) /\ DaysOf(a \div 12, (a % 12) + 1) \in 28 .. 31
    BY MonthsFollow
  <2> QED BY <1>1, <2>1, <2>2
<1> QED BY <1>2, <1>3

LEMMA YearsFirst ==
    ASSUME NEW y \in Int
    PROVE  YearStart(y) = First(12 * y)
<1>1. (12 * y) \div 12 = y /\ (12 * y) % 12 = 0
  OBVIOUS
<1> QED BY <1>1, FirstsAre DEF First

LEMMA InYear ==
    ASSUME NEW y \in Int, NEW n \in Int, YearStart(y) <= n, n < YearStart(y + 1)
    PROVE  DateOf(n).year = y
<1> DEFINE e == DateOf(n)
<1>1. /\ e.year \in Int /\ e.month \in 1 .. 12 /\ e.day \in 1 .. 31
      /\ First(MonthIndex(e)) + e.day - 1 = n /\ n < First(MonthIndex(e) + 1)
  BY DateIs DEF IsDateOf
<1> HIDE DEF e
<1>2. PICK z \in Int, m \in 1 .. 12 : z = e.year /\ m = e.month
  BY <1>1
<1>3. PICK x \in Int : x = MonthIndex(e) /\ x = 12 * z + m - 1
  BY <1>2 DEF MonthIndex
<1>4. PICK a \in Int : a = First(x) /\ a <= n
  <2>1. First(x) \in Int
    BY MonthsFollow
  <2>2. First(x) + e.day - 1 = n
    BY <1>1, <1>3
  <2> QED BY <1>1, <2>1, <2>2
<1>5. n < First(x + 1)
  BY <1>1, <1>3
<1>6. PICK u \in Int, v \in Int : u = 12 * y /\ v = 12 * (y + 1)
  OBVIOUS
<1>7. First(u) <= n /\ n < First(v)
  BY <1>6, YearsFirst
<1>8. ~(z < y)
  <2> SUFFICES ASSUME z < y PROVE FALSE
    OBVIOUS
  <2>1. x + 1 <= u
    BY <1>3, <1>6
  <2>2. First(x + 1) <= First(u) /\ First(x + 1) \in Int /\ First(u) \in Int
    BY <2>1, FirstsGrow
  <2> QED BY <1>5, <1>7, <2>2
<1>9. ~(z > y)
  <2> SUFFICES ASSUME z > y PROVE FALSE
    OBVIOUS
  <2>1. v <= x
    BY <1>3, <1>6
  <2>2. First(v) <= First(x) /\ First(v) \in Int
    BY <2>1, FirstsGrow
  <2> QED BY <1>4, <1>7, <2>2
<1> QED BY <1>2, <1>8, <1>9 DEF e

\* A date that there is comes back from the day that time.Date takes it to.
LEMMA RealDate ==
    ASSUME NEW y \in Int, NEW m \in 1 .. 12, NEW d \in 1 .. 31, d <= DaysOf(y, m)
    PROVE  DateOf(DayOf(y, m, d)) = On(y, m, d)
<1> DEFINE x == 12 * y + m - 1
<1>1. x \in Int /\ x \div 12 = y /\ (x % 12) + 1 = m
  OBVIOUS
<1>2. DayOf(y, m, d) = First(x) + d - 1
  BY DayIs
<1> HIDE DEF x
<1>3. First(x) \in Int /\ First(x + 1) = First(x) + DaysOf(y, m) /\ DaysOf(y, m) \in 28 .. 31
  BY <1>1, MonthsFollow
<1> DEFINE n == First(x) + d - 1
<1>4. n \in Int /\ First(x) <= n /\ n < First(x + 1) /\ n - First(x) + 1 = d
  BY <1>3
<1> HIDE DEF n
<1>5. DateOf(n) = [year |-> x \div 12, month |-> (x % 12) + 1, day |-> n - First(x) + 1]
  BY <1>1, <1>4, LandsIn
<1>6. DateOf(n) = [year |-> y, month |-> m, day |-> d]
  BY <1>1, <1>4, <1>5
<1> QED BY <1>2, <1>6 DEF On, n

LEMMA BackToIt ==
    ASSUME NEW n \in Int
    PROVE  /\ DayOf(DateOf(n).year, DateOf(n).month, DateOf(n).day) = n
           /\ MonthIndex(DateOf(n)) \in Int /\ DateOf(n).day \in 1 .. 31
           /\ First(MonthIndex(DateOf(n))) + DateOf(n).day - 1 = n
<1> DEFINE e == DateOf(n)
<1>1. /\ e.year \in Int /\ e.month \in 1 .. 12 /\ e.day \in 1 .. 31
      /\ First(MonthIndex(e)) + e.day - 1 = n
  BY DateIs DEF IsDateOf
<1> HIDE DEF e
<1>2. PICK y \in Int, m \in Int, d \in 1 .. 31 : y = e.year /\ m = e.month /\ d = e.day
  BY <1>1
<1>3. DayOf(y, m, d) = First(12 * y + m - 1) + d - 1
  BY DayIs
<1>4. MonthIndex(e) = 12 * y + m - 1 /\ 12 * y + m - 1 \in Int
  BY <1>2 DEF MonthIndex
<1>5. First(MonthIndex(e)) = First(12 * y + m - 1)
  BY <1>4
<1> QED BY <1>1, <1>2, <1>3, <1>4, <1>5 DEF e

LEMMA AloneStage ==
    ASSUME NEW p, IsPhrase(p), Rank(p) \in 1 .. 5, NEW t
    PROVE  /\ Rank(p) = 1 => Alone(p, t) = Timed(Reads(DateLexer, p), t)
           /\ Rank(p) = 2 => Alone(p, t) = Dated(Reads(DateLexer, p), t)
           /\ Rank(p) = 3 => Alone(p, t) = OnDay(Reads(DateLexer, p), t)
           /\ Rank(p) = 4 => Alone(p, t) = Moved(Reads(DateLexer, p), t)
           /\ Rank(p) = 5 => Alone(p, t) = Counted(Reads(DateLexer, p), t)
           /\ Reads(DateLexer, p) \in Lexers
BY AloneIs, ReadsAny, BlankHas DEF Stage

LEMMA HourMeans ==
    ASSUME NEW p, IsPhrase(p), Rank(p) = 1, NEW t \in Moment
    PROVE  SaidAlone(p, t)
<1> DEFINE m == Reads(DateLexer, p)
           r == Alone(p, t)
<1>0. DateLexer \in Lexers /\ ~Have(DateLexer, "time")
  BY BlankHas DEF States
<1>1. HourSaid(p) \in Int /\ m = SetTime(DateLexer, HourSaid(p))
  BY ReadsTime
<1>2. m \in Lexers /\ Have(m, "time") /\ m.time = HourSaid(p) % 24
  BY <1>0, <1>1, TimeSets DEF Sets
<1>3. r = Timed(m, t)
  BY AloneStage
<1> HIDE DEF m
<1>4. r = [day |-> t.day, hour |-> HourSaid(p) % 24]
  BY <1>2, <1>3, TimedIs
<1> HIDE DEF r
<1>5. p.kind \in {"clock", "half", "minutes"}
  BY RankIs
<1>6. Twelve(p) => HourSaid(p) % 24 = HourMeant(p)
  <2>1. CASE p.kind = "clock"
    BY <2>1 DEF HourSaid, HourMeant
  <2>2. CASE p.kind = "half"
    <3>1. p.hour \in Nat /\ p.half \in {0, 12}
      BY <2>2, PhraseIs
    <3>2. Twelve(p) => p.hour \in 1 .. 12
      BY <2>2 DEF Twelve
    <3>3. HourSaid(p) = AmPm(p.hour, p.half) /\ HourMeant(p) = (p.hour % 12) + p.half
      BY <2>2 DEF HourSaid, HourMeant
    <3>4. \A h \in 1 .. 12 : \A f \in {0, 12} : AmPm(h, f) % 24 = (h % 12) + f
      BY DEF AmPm
    <3> QED BY <3>1, <3>2, <3>3, <3>4
  <2>3. CASE p.kind = "minutes"
    <3>1. p.hour \in Nat /\ p.half \in {0, 12}
      BY <2>3, PhraseIs
    <3>2. Twelve(p) => p.hour \in 1 .. 11
      BY <2>3 DEF Twelve
    <3>3. HourSaid(p) = p.hour + p.half /\ HourMeant(p) = (p.hour % 12) + p.half
      BY <2>3 DEF HourSaid, HourMeant
    <3>4. \A h \in 1 .. 11 : \A f \in {0, 12} : (h + f) % 24 = (h % 12) + f
      OBVIOUS
    <3> QED BY <3>1, <3>2, <3>3, <3>4
  <2> QED BY <1>5, <2>1, <2>2, <2>3
<1>7. IsHour(p, t, r)
  BY <1>4, <1>6 DEF IsHour
<1>8. p.kind \in Hourly
  BY <1>5 DEF Hourly
<1>9. Means(p, t, r)
  BY <1>5, <1>7, <1>8 DEF Means, Hourly
<1> QED BY <1>9 DEF SaidAlone, r

LEMMA DateAlone ==
    ASSUME NEW p, IsPhrase(p), Rank(p) = 2, NEW t \in Moment
    PROVE  LET n == DayOf(YearSaid(p), MonthSaid(p), DaySaid(p))
               at == DateOf(n)
           IN /\ n \in Int
              /\ Alone(p, t) = [day |-> DayOf(IF at.year = 0 THEN DateOf(t.day).year ELSE at.year, at.month, at.day),
                                hour |-> t.hour]
<1> DEFINE m == Reads(DateLexer, p)
           n == DayOf(YearSaid(p), MonthSaid(p), DaySaid(p))
<1>0. DateLexer \in Lexers /\ ~Have(DateLexer, "date")
  BY BlankHas DEF States
<1>1. /\ m = SetDate(DateLexer, YearSaid(p), MonthSaid(p), DaySaid(p))
      /\ YearSaid(p) \in Int /\ MonthSaid(p) \in Int /\ DaySaid(p) \in Int
  BY ReadsDate
<1>2. n \in Int
  BY <1>1, DayIs
<1>3. PICK y \in Int, k \in Int, d \in Int : y = YearSaid(p) /\ k = MonthSaid(p) /\ d = DaySaid(p)
  BY <1>1
<1>4. m = SetDate(DateLexer, y, k, d) /\ n = DayOf(y, k, d)
  BY <1>1, <1>3
<1>5. Alone(p, t) = Dated(m, t)
  BY AloneStage
<1> HIDE DEF m, n
<1>6. m \in Lexers /\ Have(m, "date") /\ m.date = n
  BY <1>0, <1>4, DateSets DEF Sets
<1>7. Alone(p, t) = [day |-> DayOf(IF DateOf(n).year = 0 THEN DateOf(t.day).year ELSE DateOf(n).year,
                                   DateOf(n).month, DateOf(n).day), hour |-> t.hour]
  BY <1>5, <1>6, DatedIs
<1> QED BY <1>2, <1>7 DEF n

LastDay(year, month) == CASE month = 2 -> (IF Leap(year) THEN 29 ELSE 28)
                          [] month \in {4, 6, 9, 11} -> 30 [] OTHER -> 31

LEMMA LastDayIs ==
    ASSUME NEW y \in Int, NEW m \in 1 .. 12
    PROVE  LastDay(y, m) = DaysOf(y, m)
BY DEF LastDay, DaysOf

LEMMA DateMeans ==
    ASSUME NEW p, IsPhrase(p), p.kind = "date", Rank(p) = 2, NEW t \in Moment
    PROVE  SaidAlone(p, t)
<1> DEFINE n == DayOf(YearSaid(p), MonthSaid(p), DaySaid(p))
           r == Alone(p, t)
           asked == DateOf(t.day)
           year == IF p.year = 0 THEN asked.year ELSE Century(p.year)
<1>1. p.year \in Nat /\ p.month \in Nat /\ p.day \in Nat
  BY PhraseIs
<1>2. YearSaid(p) = Century(p.year) /\ MonthSaid(p) = p.month /\ DaySaid(p) = p.day
  BY DEF YearSaid, MonthSaid, DaySaid
<1>3. Century(p.year) \in Int /\ (Century(p.year) = 0 <=> p.year = 0)
  BY <1>1 DEF Century
<1>4. asked.year \in Int
  BY MomentIs, DateIn
<1>5. r = [day |-> DayOf(IF DateOf(n).year = 0 THEN asked.year ELSE DateOf(n).year, DateOf(n).month, DateOf(n).day),
           hour |-> t.hour]
  BY DateAlone
<1> HIDE DEF r, asked, n
<1>6. ASSUME p.month \in 1 .. 12, p.day \in 1 .. LastDay(year, p.month)
      PROVE  DateOf(r.day) = On(year, p.month, p.day)
  <2>1. PICK y \in Int, m \in 1 .. 12, d \in Int, c \in Int :
           y = year /\ m = p.month /\ d = p.day /\ c = Century(p.year)
    BY <1>1, <1>3, <1>4, <1>6
  <2> HIDE DEF year
  <2>2. d \in 1 .. DaysOf(y, m) /\ DaysOf(y, m) \in 28 .. 31
    BY <1>6, <2>1, LastDayIs DEF DaysOf
  <2>3. d \in 1 .. 31 /\ d <= DaysOf(y, m)
    BY <2>2
  <2>4. n = DayOf(c, m, d)
    BY <1>2, <2>1 DEF n
  <2>5. d <= DaysOf(c, m)
    <3>1. CASE c = 0
      <4>1. DaysOf(y, m) <= DaysOf(0, m)
        <5>1. Leap(0)
          BY DEF Leap
        <5> QED BY <5>1 DEF DaysOf
      <4>2. DaysOf(0, m) \in Int
        BY DEF DaysOf
      <4> QED BY <2>2, <3>1, <4>1, <4>2
    <3>2. CASE c # 0
      <4>1. y = c
        BY <1>3, <2>1, <3>2 DEF year
      <4> QED BY <2>3, <4>1
    <3> QED BY <3>1, <3>2
  <2>6. DateOf(n) = On(c, m, d)
    BY <2>3, <2>4, <2>5, RealDate
  <2>7. DateOf(n).year = c /\ DateOf(n).month = m /\ DateOf(n).day = d
    BY <2>6 DEF On
  <2>8. (IF c = 0 THEN asked.year ELSE c) = y
    BY <1>3, <2>1 DEF year
  <2>9. r.day = DayOf(y, m, d)
    BY <1>5, <2>7, <2>8
  <2>10. DateOf(r.day) = On(y, m, d)
    BY <2>3, <2>9, RealDate
  <2> QED BY <2>1, <2>10
<1>7. IsDate(p, asked, DateOf(r.day))
  BY <1>6 DEF IsDate, LastDay, On
<1>8. r.hour = t.hour
  BY <1>5
<1>9. Means(p, t, r)
  BY <1>7, <1>8 DEF Means, Hourly, asked
<1> QED BY <1>9 DEF SaidAlone, r

LEMMA TheMeans ==
    ASSUME NEW p, IsPhrase(p), Rank(p) = 3, NEW t \in Moment
    PROVE  SaidAlone(p, t)
<1> DEFINE m == Reads(DateLexer, p)
           r == Alone(p, t)
           asked == DateOf(t.day)
<1>0. DateLexer \in Lexers /\ ~Have(DateLexer, "day")
  BY BlankHas DEF States
<1>1. p.kind = "the" /\ m = SetDay(DateLexer, p.day) /\ p.day \in Int
  BY ReadsThe
<1>2. m \in Lexers /\ Have(m, "day") /\ m.day = p.day
  BY <1>0, <1>1, DaySets DEF Sets
<1>3. r = OnDay(m, t)
  BY AloneStage
<1> HIDE DEF m
<1>4. r = [day |-> DayOf(asked.year, asked.month, p.day), hour |-> t.hour]
  BY <1>2, <1>3, OnDayIs
<1>5. asked.year \in Int /\ asked.month \in 1 .. 12 /\ asked.day \in 1 .. 31 /\ asked = On(asked.year, asked.month, asked.day)
  BY MomentIs, DateIn
<1> HIDE DEF r, asked
<1>6. ASSUME p.day \in 1 .. 28
      PROVE  DateOf(r.day) = On(asked.year, asked.month, p.day)
  <2>1. PICK y \in Int, k \in 1 .. 12, d \in 1 .. 28 : y = asked.year /\ k = asked.month /\ d = p.day
    BY <1>5, <1>6
  <2>2. d \in 1 .. 31 /\ d <= DaysOf(y, k)
    BY DEF DaysOf
  <2>3. DateOf(DayOf(y, k, d)) = On(y, k, d)
    BY <2>2, RealDate
  <2> QED BY <1>4, <2>1, <2>3
<1>7. \A d : [asked EXCEPT !.day = d] = On(asked.year, asked.month, d)
  BY <1>5 DEF On
<1>8. IsThe(p, asked, DateOf(r.day))
  BY <1>6, <1>7 DEF IsThe
<1>9. r.hour = t.hour
  BY <1>4
<1>10. Means(p, t, r)
  BY <1>1, <1>8, <1>9 DEF Means, Hourly, asked
<1> QED BY <1>10 DEF SaidAlone, r

\* The days of year 1 and after.
LEMMA SinceYearOne ==
    ASSUME NEW n \in Nat
    PROVE  DateOf(n).year # 0
<1> DEFINE e == DateOf(n)
<1>1. /\ e.year \in Int /\ e.month \in 1 .. 12
      /\ n < First(MonthIndex(e) + 1)
  BY DateIs DEF IsDateOf
<1> HIDE DEF e
<1>2. SUFFICES ASSUME e.year = 0 PROVE FALSE
  BY DEF e
<1>3. PICK x \in Int : x = MonthIndex(e) + 1 /\ x <= 12
  BY <1>1, <1>2 DEF MonthIndex
<1>4. First(x) <= First(12) /\ First(x) \in Int /\ First(12) \in Int
  BY <1>3, FirstsGrow
<1>5. First(12) = YearStart(1)
  <2>1. First(12 * 1) = YearStart(1)
    BY YearsFirst
  <2> QED BY <2>1
<1>6. YearStart(1) = 0
  BY DEF YearStart
<1> QED BY <1>1, <1>3, <1>4, <1>5, <1>6

OfWeek(y, w, d, j, n) ==
    /\ n \in Nat /\ Weekday(n) = d % 7
    /\ \E h \in Int : /\ h = n - d + 4 /\ YearStart(y) <= h /\ h < YearStart(y + 1)
                     /\ (h - YearStart(y)) \div 7 = w - 1

\* Monday of the week of a year's 4 January, and the last Thursday of it.
LEMMA Weeks ==
    ASSUME NEW y \in Nat, NEW w \in Nat, NEW d \in Nat, NEW j \in 1 .. 7, y # 0, w \in 1 .. 53, d \in 1 .. 7,
           j = IF Weekday(YearStart(y) + 3) = 0 THEN 7 ELSE Weekday(YearStart(y) + 3),
           NEW n, n = YearStart(y) + 7 * w + d - 4 - j,
           w = 53 => Thursday \in {Weekday(YearStart(y)), Weekday(YearStart(y + 1) - 1)}
    PROVE  OfWeek(y, w, d, j, n)
<1>1. PICK s \in Int : s = YearStart(y)
  BY YearsFollow
<1>2. PICK k \in {365, 366} : YearStart(y + 1) = s + k
  BY <1>1, YearsFollow
<1>3. (s + 4) % 7 = j % 7
  BY <1>1 DEF Weekday
<1>4. n = s + 7 * w + d - 4 - j
  BY <1>1
<1>5. Weekday(n) = d % 7
  <2>1. PICK q \in Int : s + 4 - j = 7 * q
    <3>1. s + 4 - j = 7 * ((s + 4) \div 7 - j \div 7)
      BY <1>3
    <3>2. (s + 4) \div 7 - j \div 7 \in Int
      OBVIOUS
    <3> QED BY <3>1, <3>2
  <2>2. n + 1 = 7 * (q + w - 1) + d
    BY <1>4, <2>1
  <2>3. PICK z \in Int : z = q + w - 1
    OBVIOUS
  <2>4. (7 * z + d) % 7 = d % 7
    OBVIOUS
  <2> QED BY <2>2, <2>3, <2>4 DEF Weekday
<1>6. n - d + 4 = s + 7 * (w - 1) + (7 - j)
  BY <1>4
<1>7. (n - d + 4 - s) \div 7 = w - 1
  BY <1>6
<1>8. s <= n - d + 4
  BY <1>6
<1>9. n - d + 4 < s + k
  <2>1. CASE w < 53
    BY <1>6, <2>1
  <2>2. CASE w = 53
    <3>1. (s + 1) % 7 = 4 \/ (s + k) % 7 = 4
      BY <1>1, <1>2, <2>2 DEF Weekday, Thursday
    <3>2. j = 7 \/ (j = 6 /\ k = 366)
      BY <1>3, <3>1
    <3> QED BY <1>6, <2>2, <3>2
  <2> QED BY <2>1, <2>2
<1>10. n \in Nat
  <2>1. CASE y = 1
    <3>1. s = 0
      BY <1>1, <2>1 DEF YearStart
    <3>2. j = 4
      BY <1>3, <3>1
    <3> QED BY <1>4, <3>1, <3>2
  <2>2. CASE y > 1
    <3>1. YearStart(1 + 1) <= YearStart(y)
      BY <2>2, YearsFollow
    <3>2. YearStart(1 + 1) = 365
      BY DEF YearStart
    <3>3. s >= 365
      BY <1>1, <3>1, <3>2
    <3> QED BY <1>4, <3>3
  <2> QED BY <2>1, <2>2
<1>11. PICK h \in Int : h = n - d + 4
  BY <1>6
<1>12. YearStart(y) <= h /\ h < YearStart(y + 1) /\ (h - YearStart(y)) \div 7 = w - 1
  BY <1>1, <1>2, <1>7, <1>8, <1>9, <1>11
<1> QED BY <1>5, <1>10, <1>11, <1>12 DEF OfWeek

LEMMA WeekMeans ==
    ASSUME NEW p, IsPhrase(p), p.kind = "week", Rank(p) = 2, NEW t \in Moment
    PROVE  SaidAlone(p, t)
<1> DEFINE n == DayOf(YearSaid(p), MonthSaid(p), DaySaid(p))
           r == Alone(p, t)
           asked == DateOf(t.day)
<1>1. p.year \in Nat /\ p.week \in Nat /\ p.wday \in Nat
  BY PhraseIs
<1>2. PICK y \in Nat, w \in Nat, d \in Nat : y = p.year /\ w = p.week /\ d = p.wday
  BY <1>1
<1>3. PICK s \in Int : s = YearStart(y)
  BY YearsFollow
<1>4. \A k \in Int : DayOf(y, 1, k) = s + k - 1
  <2>1. \A k \in Int : DayOf(y, 1, k) = First(12 * y + 1 - 1) + k - 1
    BY DayIs
  <2>2. 12 * y + 1 - 1 = 12 * y
    OBVIOUS
  <2>3. First(12 * y) = s
    BY <1>3, YearsFirst
  <2> QED BY <2>1, <2>2, <2>3
<1>5. DayOf(y, 1, 4) = s + 3
  BY <1>4
<1>6. PICK j \in 1 .. 7 : j = IF Weekday(s + 3) = 0 THEN 7 ELSE Weekday(s + 3)
  <2>1. Weekday(s + 3) \in 0 .. 6
    BY DEF Weekday
  <2> QED BY <2>1
<1>7. n = DayOf(y, 1, w * 7 + d - 3 - j)
  <2>1. YearSaid(p) = y /\ MonthSaid(p) = 1
    BY <1>2 DEF YearSaid, MonthSaid
  <2>2. DaySaid(p) = w * 7 + d - 3 - (IF Weekday(DayOf(y, 1, 4)) = 0 THEN 7 ELSE Weekday(DayOf(y, 1, 4)))
    BY <1>2 DEF DaySaid
  <2>3. DaySaid(p) = w * 7 + d - 3 - j
    BY <1>5, <1>6, <2>2
  <2> QED BY <2>1, <2>3
<1>8. n = s + 7 * w + d - 4 - j
  <2>1. w * 7 + d - 3 - j \in Int
    OBVIOUS
  <2>2. DayOf(y, 1, w * 7 + d - 3 - j) = s + (w * 7 + d - 3 - j) - 1
    BY <1>4, <2>1
  <2> QED BY <1>7, <2>2
<1>9. r = [day |-> DayOf(IF DateOf(n).year = 0 THEN asked.year ELSE DateOf(n).year, DateOf(n).month, DateOf(n).day),
           hour |-> t.hour]
  BY DateAlone
<1> HIDE DEF r, asked, n
<1>10. ASSUME p.year # 0, p.week \in 1 .. LastWeek(p.year), p.wday \in 1 .. 7
       PROVE  \E h : /\ h = r.day - p.wday + 4
                      /\ Weekday(r.day) = p.wday % 7 /\ DateOf(h).year = p.year
                      /\ (h - YearStart(p.year)) \div 7 = p.week - 1
  <2>1. y # 0 /\ w \in 1 .. 53 /\ d \in 1 .. 7
        /\ (w = 53 => Thursday \in {Weekday(YearStart(y)), Weekday(YearStart(y + 1) - 1)})
    <3>1. y # 0 /\ w \in 1 .. LastWeek(y) /\ d \in 1 .. 7
      BY <1>2, <1>10
    <3>2. w \in 1 .. 53 /\ (w = 53 => LastWeek(y) = 53)
      BY <3>1 DEF LastWeek
    <3>3. w = 53 => Thursday \in {Weekday(YearStart(y)), Weekday(YearStart(y + 1) - 1)}
      BY <3>2 DEF LastWeek
    <3> QED BY <3>1, <3>2, <3>3
  <2>2. PICK h \in Int : /\ n \in Nat /\ Weekday(n) = d % 7
                         /\ h = n - d + 4 /\ YearStart(y) <= h /\ h < YearStart(y + 1)
                         /\ (h - YearStart(y)) \div 7 = w - 1
    <3>1. j = IF Weekday(YearStart(y) + 3) = 0 THEN 7 ELSE Weekday(YearStart(y) + 3)
      BY <1>3, <1>6
    <3>2. n = YearStart(y) + 7 * w + d - 4 - j
      BY <1>3, <1>8
    <3>3. OfWeek(y, w, d, j, n)
      BY <2>1, <3>1, <3>2, Weeks
    <3> QED BY <3>3 DEF OfWeek
  <2>3. DateOf(n).year # 0
    BY <2>2, SinceYearOne
  <2>4. r.day = n
    BY <1>9, <2>2, <2>3, BackToIt
  <2>5. DateOf(h).year = y
    BY <2>2, InYear
  <2>6. h = r.day - p.wday + 4
    BY <1>2, <2>2, <2>4
  <2> QED BY <1>2, <2>2, <2>4, <2>5, <2>6
<1>11. IsWeek(p, r)
  <2>1. PICK h : h = r.day - p.wday + 4
    OBVIOUS
  <2>2. p.year # 0 /\ p.week \in 1 .. LastWeek(p.year) /\ p.wday \in 1 .. 7 =>
          /\ Weekday(r.day) = p.wday % 7 /\ DateOf(h).year = p.year
          /\ (h - YearStart(p.year)) \div 7 = p.week - 1
    BY <1>10, <2>1
  <2> QED BY <2>1, <2>2 DEF IsWeek
<1>12. r.hour = t.hour
  BY <1>9
<1>13. Means(p, t, r)
  BY <1>11, <1>12 DEF Means, Hourly
<1> QED BY <1>13 DEF SaidAlone, r

LEMMA WeekdayMeans ==
    ASSUME NEW p, IsPhrase(p), p.kind = "weekday", Rank(p) = 5, NEW t \in Moment
    PROVE  SaidAlone(p, t)
<1> DEFINE m == Reads(DateLexer, p)
           r == Alone(p, t)
           asked == DateOf(t.day)
<1>0. DateLexer \in Lexers /\ DateLexer.states = {}
  BY BlankHas
<1>1. p.num \in Int /\ p.weekday \in 0 .. 6
  BY PhraseIs
<1>2. /\ m \in Lexers /\ m.days = [weekday |-> p.weekday, num |-> p.num, year |-> 0]
      /\ m.states = {"days"}
  <2>1. \A l \in Lexers : /\ Sets(5, l, Reads(l, p))
                          /\ Reads(l, p).days = [weekday |-> p.weekday, num |-> p.num, year |-> 0]
                          /\ Reads(l, p).states = l.states \cup {"days"}
    BY WeekdaySets
  <2> QED BY <1>0, <2>1 DEF Sets
<1>3. r = Counted(m, t)
  BY AloneStage
<1> HIDE DEF m
<1>4. /\ Have(m, "days") /\ ~Have(m, "months") /\ ~Have(m, "day-year") /\ ~Have(m, "month-year")
      /\ m.states \cap DMY # {}
  BY <1>2 DEF Have, DMY
<1>5. CountedFrom(m, asked) = asked
  BY <1>4, CountedFromIs
<1>6. t.day \in Int
  BY MomentIs
<1>7. DayOf(asked.year, asked.month, asked.day) = t.day
  BY <1>6, BackToIt
<1>8. r = [day |-> DayOffset(m, t.day), hour |-> t.hour]
  BY <1>2, <1>3, <1>4, <1>5, <1>7, CountedIs
<1> HIDE DEF r, asked
<1>9. DayOffset(m, t.day) = t.day + WeeksFrom(p.num, p.weekday - Weekday(t.day)) * 7 + (p.weekday - Weekday(t.day))
  BY <1>2 DEF DayOffset
<1>10. IsWeekday(p, t, r)
  <2>1. PICK k \in Int, n \in Int, w \in 0 .. 6 : k = t.day /\ n = p.num /\ w = p.weekday
    BY <1>1, <1>6
  <2>2. PICK x : x = k + WeeksFrom(n, w - Weekday(k)) * 7 + (w - Weekday(k))
    OBVIOUS
  <2>3. /\ Nth(n, k, x, LAMBDA i : Weekday(i) = w)
        /\ n = 0 => x \in k .. k + 6
    BY <2>2, NthDay
  <2>4. r.day = x
    BY <1>8, <1>9, <2>1, <2>2
  <2> QED BY <2>1, <2>3, <2>4 DEF IsWeekday
<1>11. Means(p, t, r)
  BY <1>8, <1>10 DEF Means, Hourly
<1> QED BY <1>11 DEF SaidAlone, r

\* From a day that all months have, the same day of another month.
LEMMA SameDayThen ==
    ASSUME NEW x \in Int, NEW d \in 1 .. 28
    PROVE  LET e == DateOf(First(x) + d - 1)
           IN e.year = x \div 12 /\ e.month = (x % 12) + 1 /\ MonthIndex(e) = x /\ e.day = d
<1>1. First(x) \in Int /\ First(x + 1) = First(x) + DaysOf(x \div 12, (x % 12) + 1)
      /\ DaysOf(x \div 12, (x % 12) + 1) \in 28 .. 31
  BY MonthsFollow
<1> DEFINE n == First(x) + d - 1
<1>2. n \in Int /\ First(x) <= n /\ n < First(x + 1) /\ n - First(x) + 1 = d
  BY <1>1
<1> HIDE DEF n
<1>3. /\ DateOf(n) = [year |-> x \div 12, month |-> (x % 12) + 1, day |-> n - First(x) + 1]
      /\ MonthIndex(DateOf(n)) = x
  BY <1>2, LandsIn
<1> QED BY <1>2, <1>3 DEF n

LEMMA MonthMeans ==
    ASSUME NEW p, IsPhrase(p), p.kind = "month", Rank(p) = 5, NEW t \in Moment
    PROVE  SaidAlone(p, t)
<1> DEFINE m == Reads(DateLexer, p)
           r == Alone(p, t)
           asked == DateOf(t.day)
<1>0. DateLexer \in Lexers /\ DateLexer.states = {} /\ ~Have(DateLexer, "months")
  BY BlankHas DEF Have
<1>1. p.num \in Int /\ p.month \in 1 .. 12
  BY PhraseIs
<1>2. /\ m \in Lexers /\ m.months = [month |-> p.month, num |-> p.num, year |-> 0]
      /\ m.states = {"months"}
  <2>1. \A l \in Lexers : /\ Sets(5, l, Reads(l, p))
                          /\ ~Have(l, "months") =>
                               /\ Reads(l, p).months = [month |-> p.month, num |-> p.num, year |-> 0]
                               /\ Reads(l, p).states = l.states \cup {"months"}
    BY MonthSets
  <2> QED BY <1>0, <2>1 DEF Sets
<1>3. r = Counted(m, t)
  BY AloneStage
<1> HIDE DEF m
<1>4. /\ ~Have(m, "days") /\ Have(m, "months") /\ ~Have(m, "day-year") /\ ~Have(m, "month-year")
      /\ m.states \cap DMY # {}
  BY <1>2 DEF Have, DMY
<1>5. CountedFrom(m, asked) = MovedTo(m, asked)
  BY <1>4, CountedFromIs
<1>6. t.day \in Int
  BY MomentIs
<1>7. PICK k \in Int, n \in Int, w \in 1 .. 12 : k = t.day /\ n = p.num /\ w = p.month
  BY <1>1, <1>6
<1> DEFINE x0 == MonthIndex(asked)
           x == x0 + MonthsOn(w, n, x0)
<1>8. x0 \in Int /\ x \in Int /\ MonthOffset(w, n, asked) = First(x) + asked.day - 1 /\ MonthOffset(w, n, asked) \in Int
  BY <1>7, MonthOffsetIs
<1>9. MovedTo(m, asked) = DateOf(MonthOffset(w, n, asked))
  BY <1>2, <1>7 DEF MovedTo, MonthHere
<1>10. r = [day |-> MonthOffset(w, n, asked), hour |-> t.hour]
  <2>1. DayOf(MovedTo(m, asked).year, MovedTo(m, asked).month, MovedTo(m, asked).day) = MonthOffset(w, n, asked)
    BY <1>8, <1>9, BackToIt
  <2> QED BY <1>2, <1>3, <1>4, <1>5, <2>1, CountedIs
<1>11. asked.day \in 1 .. 31
  BY <1>6, BackToIt
<1> HIDE DEF r, asked
<1>12. IsMonth(p, asked, DateOf(r.day))
  <2> SUFFICES ASSUME InAllMonths(asked)
               PROVE  /\ MeansMonth(p.month, p.num, MonthIndex(asked), MonthIndex(DateOf(r.day)))
                      /\ DateOf(r.day).day = asked.day
    BY DEF IsMonth
  <2>1. asked.day \in 1 .. 28
    BY <1>11 DEF InAllMonths
  <2>2. PICK y : y = x
    OBVIOUS
  <2>3. MeansMonth(w, n, x0, y)
    BY <1>8, <2>2, NthMonth
  <2>4. r.day = First(y) + asked.day - 1 /\ y \in Int
    BY <1>8, <1>10, <2>2
  <2>5. MonthIndex(DateOf(r.day)) = y /\ DateOf(r.day).day = asked.day
    BY <2>1, <2>4, SameDayThen
  <2> QED BY <1>7, <2>3, <2>5
<1>13. Means(p, t, r)
  BY <1>10, <1>12 DEF Means, Hourly, asked
<1> QED BY <1>13 DEF SaidAlone, r

\* Counted from the day before the first of a month.
CountsFrom(p, x, r) ==
    Nth(p.nth, FirstOf(x \div 12, (x % 12) + 1) - 1, r.day, LAMBDA k : Weekday(k) = p.weekday)

\* An nth day of the week is counted from the first day of the month that it is in.
LEMMA NthCounts ==
    ASSUME NEW p, p.nth \in Int, p.weekday \in 0 .. 6, NEW m \in Lexers, Have(m, "days"),
           m.days.weekday = p.weekday, m.days.num = p.nth,
           ~(Have(m, "day-year") /\ Have(m, "month-year")), Have(m, "month-year") => Have(m, "months"),
           ~(Have(m, "day-year") /\ Have(m, "months")),
           NEW t \in Moment, NEW y \in Int, NEW k \in 1 .. 12,
           CountedFrom(m, DateOf(t.day)) = On(y, k, 0)
    PROVE  LET r == Counted(m, t) IN r.hour = t.hour /\ CountsFrom(p, 12 * y + k - 1, r)
<1> DEFINE r == Counted(m, t)
           from == CountedFrom(m, DateOf(t.day))
<1>1. m.states \cap DMY # {}
  BY DEF Have, DMY
<1>2. PICK x \in Int, w \in 0 .. 6, n \in Int : x = 12 * y + k - 1 /\ w = p.weekday /\ n = p.nth
  <2>1. 12 * y + k - 1 \in Int
    OBVIOUS
  <2> QED BY <2>1
<1>3. PICK b \in Int : b = First(x) - 1
  BY MonthsFollow
<1>4. DayOf(y, k, 0) = b
  <2>1. DayOf(y, k, 0) = First(12 * y + k - 1) + 0 - 1
    BY DayIs
  <2>2. First(x) \in Int
    BY MonthsFollow
  <2> QED BY <1>2, <1>3, <2>1, <2>2
<1>5. from.year = y /\ from.month = k /\ from.day = 0
  BY DEF On
<1>6. r = [day |-> DayOffset(m, b), hour |-> t.hour]
  BY <1>1, <1>4, <1>5, CountedIs
<1> HIDE DEF r, from
<1>7. PICK z : z = b + WeeksFrom(n, w - Weekday(b)) * 7 + (w - Weekday(b))
  OBVIOUS
<1>8. Nth(n, b, z, LAMBDA i : Weekday(i) = w)
  BY <1>7, NthDay
<1>9. DayOffset(m, b) = z
  BY <1>2, <1>7 DEF DayOffset
<1>10. FirstOf(x \div 12, (x % 12) + 1) - 1 = b
  BY <1>3 DEF First
<1>11. CountsFrom(p, x, r)
  BY <1>2, <1>6, <1>8, <1>9, <1>10 DEF CountsFrom
<1> QED BY <1>2, <1>6, <1>11 DEF r

LEMMA MonthsOnWithin ==
    ASSUME NEW x \in Int, NEW n \in Int, NEW w \in 1 .. 12
    PROVE  MonthsOn(w, n, x) \in -(12 * (IF n < 0 THEN 1 - n ELSE 1 + n)) .. 12 * (IF n < 0 THEN 1 - n ELSE 1 + n)
BY DEF MonthsOn, Rem, YearsFrom

LEMMA NthMeans ==
    ASSUME NEW p, IsPhrase(p), p.kind = "nth", Rank(p) = 5, NEW t \in Moment
    PROVE  SaidAlone(p, t)
<1> DEFINE m == Reads(DateLexer, p)
           r == Alone(p, t)
           asked == DateOf(t.day)
           x0 == MonthIndex(asked)
           span == 12 * (IF p.num < 0 THEN 1 - p.num ELSE 1 + p.num)
           months == CASE p.year # 0 -> {p.year * 12 + (IF p.month = 0 THEN 0 ELSE p.month - 1)}
                       [] p.year = 0 /\ p.month = 0 -> {x0}
                       [] OTHER -> {x \in x0 - span .. x0 + span : MeansMonth(p.month, p.num, x0, x)}
<1>0. DateLexer \in Lexers /\ DateLexer.states = {} /\ ~Have(DateLexer, "months")
  BY BlankHas DEF Have
<1>1. /\ p.nth \in Int /\ p.weekday \in 0 .. 6 /\ p.month \in 0 .. 12 /\ p.num \in Int /\ p.year \in Int
      /\ p.month = 0 \/ p.year # 0 => p.num = 0
  BY PhraseIs
<1>2. r = Counted(m, t) /\ m \in Lexers
  BY AloneStage
<1>3. t.day \in Int /\ asked.year \in Int /\ asked.month \in 1 .. 12 /\ asked.day \in 1 .. 31 /\ x0 \in Int
  BY MomentIs, DateIn, BackToIt
<1>4. SUFFICES r.hour = t.hour
               /\ (p.month = 0 \/ p.year # 0 \/ InAllMonths(asked) => \E x \in months : CountsFrom(p, x, r))
  <2>1. p.kind \notin Hourly
    BY DEF Hourly
  <2> HIDE DEF r, asked
  <2>2. ASSUME r.hour = t.hour,
               p.month = 0 \/ p.year # 0 \/ InAllMonths(asked) => \E x \in months : CountsFrom(p, x, r)
        PROVE  Means(p, t, r)
    <3>1. IsNth(p, asked, r)
      BY <2>2 DEF IsNth, CountsFrom
    <3> QED BY <2>1, <2>2, <3>1 DEF Means, asked
  <2> QED BY <2>2 DEF SaidAlone, r
<1>5. CASE p.month = 0 /\ p.year # 0
  <2>1. /\ m.days = [weekday |-> p.weekday, num |-> p.nth, year |-> p.year]
        /\ m.states = {"days", "day-year"}
    <3>1. \A l \in Lexers : /\ Sets(5, l, Reads(l, p))
                            /\ Reads(l, p).days = [weekday |-> p.weekday, num |-> p.nth, year |-> p.year]
                            /\ Reads(l, p).months = l.months
                            /\ Reads(l, p).states = l.states \cup {"days"} \cup {"day-year"}
      BY <1>5, NthYearSets
    <3> QED BY <1>0, <3>1
  <2> HIDE DEF m, r, asked
  <2>2. Have(m, "days") /\ Have(m, "day-year") /\ ~Have(m, "months") /\ ~Have(m, "month-year")
    BY <2>1 DEF Have
  <2>3. CountedFrom(m, asked) = On(p.year, 1, 0)
    BY <2>1, <2>2, CountedFromIs
  <2>4. PICK y \in Int : y = p.year
    BY <1>1
  <2>5. r.hour = t.hour /\ CountsFrom(p, 12 * y + 1 - 1, r)
    <3>1. CountedFrom(m, DateOf(t.day)) = On(y, 1, 0)
      BY <2>3, <2>4 DEF asked
    <3>2. /\ Have(m, "days") /\ ~(Have(m, "day-year") /\ Have(m, "month-year"))
          /\ Have(m, "month-year") => Have(m, "months")
          /\ ~(Have(m, "day-year") /\ Have(m, "months"))
      BY <2>2
    <3>3. m.days.weekday = p.weekday /\ m.days.num = p.nth
      BY <2>1
    <3>4. 1 \in 1 .. 12
      OBVIOUS
    <3> QED BY ONLY <1>1, <1>2, <2>4, <3>1, <3>2, <3>3, <3>4, NthCounts DEF r
  <2>6. 12 * y + 1 - 1 \in months
    <3>1. months = {p.year * 12 + 0}
      BY <1>5
    <3>2. 12 * y + 1 - 1 = p.year * 12 + 0
      BY <2>4
    <3> QED BY <3>1, <3>2
  <2> HIDE DEF months
  <2> QED BY <2>5, <2>6
<1>6. CASE ~(p.month = 0 /\ p.year # 0)
  <2>1. /\ m.days = [weekday |-> p.weekday, num |-> p.nth, year |-> 0]
        /\ m.months = [month |-> p.month, num |-> p.num, year |-> p.year]
        /\ m.states = {"days"} \cup {"months"} \cup AbsYear(p.year, "month-year")
    <3>1. \A l \in Lexers :
             /\ Sets(5, l, Reads(l, p))
             /\ Reads(l, p).days = [weekday |-> p.weekday, num |-> p.nth, year |-> 0]
             /\ Have(l, "months") => Reads(l, p).states = l.states \cup {"days"}
             /\ ~Have(l, "months") =>
                  /\ Reads(l, p).months = [month |-> p.month, num |-> p.num, year |-> p.year]
                  /\ Reads(l, p).states = l.states \cup {"days"} \cup {"months"} \cup AbsYear(p.year, "month-year")
      BY <1>6, NthMonthSets
    <3> QED BY <1>0, <3>1
  <2> HIDE DEF m, r, asked
  <2>2. Have(m, "days") /\ ~Have(m, "day-year") /\ Have(m, "months") /\ (Have(m, "month-year") <=> p.year # 0)
    BY <2>1 DEF Have, AbsYear
  <2>3. CASE p.year # 0
    <3>1. CountedFrom(m, asked) = On(p.year, p.month, 0)
      BY <2>1, <2>2, <2>3, CountedFromIs
    <3>2. PICK y \in Int, k \in 1 .. 12 : y = p.year /\ k = p.month
      BY <1>1, <1>6, <2>3
    <3>3. r.hour = t.hour /\ CountsFrom(p, 12 * y + k - 1, r)
      <4>1. CountedFrom(m, DateOf(t.day)) = On(y, k, 0)
        BY <3>1, <3>2 DEF asked
      <4>2. /\ Have(m, "days") /\ ~(Have(m, "day-year") /\ Have(m, "month-year"))
            /\ Have(m, "month-year") => Have(m, "months")
            /\ ~(Have(m, "day-year") /\ Have(m, "months"))
        BY <2>2
      <4>3. m.days.weekday = p.weekday /\ m.days.num = p.nth
        BY <2>1
      <4> QED BY ONLY <1>1, <1>2, <3>2, <4>1, <4>2, <4>3, NthCounts DEF r
    <3>4. 12 * y + k - 1 \in months
      <4>1. months = {p.year * 12 + (p.month - 1)}
        BY <1>6, <2>3
      <4>2. 12 * y + k - 1 = p.year * 12 + (p.month - 1)
        BY <3>2
      <4> QED BY <4>1, <4>2
    <3> HIDE DEF months
    <3> QED BY <3>3, <3>4
  <2>4. CASE p.year = 0
    <3>1. CountedFrom(m, asked) = On(MovedTo(m, asked).year, MovedTo(m, asked).month, 0)
      BY <2>2, <2>4, CountedFromIs
    <3>2. PICK n \in Int, w \in 1 .. 12 : n = p.num /\ w = MonthHere(m, asked)
      BY <1>1, <1>3, <2>1 DEF MonthHere
    <3> DEFINE x == x0 + MonthsOn(w, n, x0)
    <3>3. x \in Int /\ MonthOffset(w, n, asked) = First(x) + asked.day - 1 /\ MonthOffset(w, n, asked) \in Int
      BY <1>3, <3>2, MonthOffsetIs DEF asked
    <3>4. MovedTo(m, asked) = DateOf(MonthOffset(w, n, asked))
      BY <2>1, <3>2 DEF MovedTo
    <3>5. PICK y \in Int, k \in 1 .. 12 : y = MovedTo(m, asked).year /\ k = MovedTo(m, asked).month
      BY <3>3, <3>4, DateIn
    <3>6. r.hour = t.hour /\ CountsFrom(p, 12 * y + k - 1, r)
      <4>1. CountedFrom(m, DateOf(t.day)) = On(y, k, 0)
        BY <3>1, <3>5 DEF asked
      <4>2. /\ Have(m, "days") /\ ~(Have(m, "day-year") /\ Have(m, "month-year"))
            /\ Have(m, "month-year") => Have(m, "months")
            /\ ~(Have(m, "day-year") /\ Have(m, "months"))
        BY <2>2
      <4>3. m.days.weekday = p.weekday /\ m.days.num = p.nth
        BY <2>1
      <4> HIDE DEF x
      <4> QED BY ONLY <1>1, <1>2, <3>5, <4>1, <4>2, <4>3, NthCounts DEF r
    <3>7. ASSUME p.month = 0 \/ p.year # 0 \/ InAllMonths(asked)
          PROVE  12 * y + k - 1 \in months
      <4>1. 12 * y + k - 1 = MonthIndex(MovedTo(m, asked))
        BY <3>5 DEF MonthIndex
      <4>2. CASE p.month = 0
        <5>1. n = 0 /\ w = asked.month /\ w = (x0 % 12) + 1
          <6>1. n = 0 /\ w = asked.month
            BY <1>1, <2>1, <3>2, <4>2 DEF MonthHere
          <6>2. PICK b \in Int, c \in 1 .. 12 : b = asked.year /\ c = asked.month
            BY <1>3
          <6>3. x0 = 12 * b + c - 1
            BY <6>2 DEF MonthIndex
          <6>4. (x0 % 12) + 1 = c
            BY <6>2, <6>3
          <6> QED BY <6>1, <6>2, <6>4
        <5>2. MonthsOn(w, n, x0) = 0
          BY <1>3, <5>1 DEF MonthsOn, Rem
        <5>3. x = x0
          BY <1>3, <5>2
        <5>4. MonthOffset(w, n, asked) = t.day
          BY <1>3, <3>3, <5>3, BackToIt DEF asked
        <5>5. MovedTo(m, asked) = asked
          BY <3>4, <5>4 DEF asked
        <5>6. months = {x0}
          BY <2>4, <4>2
        <5> HIDE DEF x, months
        <5> QED BY <4>1, <5>5, <5>6
      <4>3. CASE p.month # 0
        <5>1. w = p.month
          BY <2>1, <3>2, <4>3 DEF MonthHere
        <5>2. asked.day \in 1 .. 28
          BY <1>3, <2>4, <3>7, <4>3 DEF InAllMonths
        <5>3. PICK z : z = x
          OBVIOUS
        <5>4. MeansMonth(w, n, x0, z)
          BY <1>3, <5>3, NthMonth
        <5>5. z \in Int /\ MovedTo(m, asked) = DateOf(First(z) + asked.day - 1)
          BY <3>3, <3>4, <5>3
        <5>6. MonthIndex(MovedTo(m, asked)) = z
          BY <5>2, <5>5, SameDayThen
        <5>7. z \in x0 - span .. x0 + span
          <6>1. MonthsOn(w, n, x0) \in -(12 * (IF n < 0 THEN 1 - n ELSE 1 + n)) .. 12 * (IF n < 0 THEN 1 - n ELSE 1 + n)
            BY <1>3, MonthsOnWithin
          <6> QED BY <1>3, <3>2, <5>3, <6>1
        <5>8. months = {i \in x0 - span .. x0 + span : MeansMonth(p.month, p.num, x0, i)}
          BY <2>4, <4>3
        <5> HIDE DEF x, months, span
        <5>9. MeansMonth(p.month, p.num, x0, z)
          BY <3>2, <5>1, <5>4
        <5> QED BY <4>1, <5>6, <5>7, <5>8, <5>9
      <4> QED BY <4>2, <4>3
    <3> HIDE DEF months
    <3> QED BY <3>6, <3>7
  <2> QED BY <2>3, <2>4
<1> QED BY <1>5, <1>6

LEMMA OffsetSaid ==
    ASSUME NEW p, IsPhrase(p), Rank(p) = 4
    PROVE  LET m == Reads(DateLexer, p)
               n == IF p.ago THEN -p.num ELSE p.num
           IN /\ m \in Lexers /\ Have(m, "offset") /\ n \in Int /\ p.unit \in Units
              /\ \A u \in Units : m.offsets[u] = IF u = p.unit THEN n ELSE 0
<1> DEFINE m == Reads(DateLexer, p)
           n == IF p.ago THEN -p.num ELSE p.num
           a == AddOffset(DateLexer, p.unit, p.num)
<1>0. DateLexer \in Lexers /\ ~Have(DateLexer, "ago") /\ DateLexer.offsets = [x \in Units |-> 0]
  BY BlankHas DEF States
<1>1. p.unit \in Units /\ p.num \in Int /\ p.ago \in BOOLEAN
  BY ReadsOffset
<1>2. m = IF p.ago THEN SetAgo(a) ELSE a
  BY <1>1, ReadsOffset
<1>3. /\ Sets(4, DateLexer, a) /\ Have(a, "offset")
      /\ Have(a, "ago") <=> Have(DateLexer, "ago")
      /\ a.offsets = [DateLexer.offsets EXCEPT ![p.unit] = DateLexer.offsets[p.unit] + p.num]
  BY <1>0, <1>1, OffsetSets
<1> HIDE DEF a, m
<1>4. a \in Lexers /\ Have(a, "offset") /\ ~Have(a, "ago")
  BY <1>0, <1>3 DEF Sets
<1>5. \A u \in Units : a.offsets[u] = IF u = p.unit THEN p.num ELSE 0
  BY <1>0, <1>1, <1>3
<1>6. CASE ~p.ago
  BY <1>1, <1>2, <1>4, <1>5, <1>6 DEF m
<1>7. CASE p.ago
  <2>1. /\ Sets(4, a, SetAgo(a)) /\ Have(SetAgo(a), "offset")
        /\ SetAgo(a).offsets = [x \in Units |-> -a.offsets[x]]
    BY <1>4, AgoSets
  <2>2. SetAgo(a) \in Lexers
    BY <2>1 DEF Sets
  <2>3. \A u \in Units : SetAgo(a).offsets[u] = IF u = p.unit THEN -p.num ELSE 0
    BY <1>1, <1>5, <2>1
  <2>4. m = SetAgo(a)
    BY <1>2, <1>7
  <2>5. n = -p.num /\ n \in Int
    BY <1>1, <1>7
  <2> QED BY <1>1, <2>1, <2>2, <2>3, <2>4, <2>5 DEF m
<1> QED BY <1>6, <1>7

LEMMA OffsetMeans ==
    ASSUME NEW p, IsPhrase(p), Rank(p) = 4, NEW t \in Moment
    PROVE  SaidAlone(p, t)
<1> DEFINE m == Reads(DateLexer, p)
           r == Alone(p, t)
           asked == DateOf(t.day)
           n == IF p.ago THEN -p.num ELSE p.num
<1>1. /\ m \in Lexers /\ Have(m, "offset") /\ n \in Int /\ p.unit \in Units
      /\ \A u \in Units : m.offsets[u] = IF u = p.unit THEN n ELSE 0
  BY OffsetSaid
<1>2. p.kind = "offset"
  BY ReadsOffset
<1>3. r = Moved(m, t)
  BY AloneStage
<1>4. t.day \in Int /\ t.hour \in 0 .. 23
  BY MomentIs
<1>5. /\ asked.year \in Int /\ asked.month \in 1 .. 12 /\ asked.day \in 1 .. 31
      /\ First(MonthIndex(asked)) + asked.day - 1 = t.day
  BY <1>4, DateIn, BackToIt
<1> HIDE DEF m, asked
<1>6. r = [day |-> DayOf(asked.year + m.offsets["year"], asked.month + m.offsets["month"], asked.day + m.offsets["day"])
                   + (t.hour + m.offsets["hour"]) \div 24,
           hour |-> (t.hour + m.offsets["hour"]) % 24]
  BY <1>1, <1>3, MovedIs DEF asked
<1>7. PICK y \in Int, k \in 1 .. 12, d \in 1 .. 31, h \in 0 .. 23, s \in Int, q \in Int :
        y = asked.year /\ k = asked.month /\ d = asked.day /\ h = t.hour /\ s = t.day /\ q = n
  BY <1>1, <1>4, <1>5
<1> HIDE DEF r, n
<1>8. PICK x \in Int : x = 12 * y + k - 1 /\ x = MonthIndex(asked)
  BY <1>7 DEF MonthIndex
<1>9. First(x) + d - 1 = s
  BY <1>5, <1>7, <1>8
<1> DEFINE Shifted(b, c, e) == DayOf(y + b, k + c, d + e) = First(x + 12 * b + c) + d + e - 1
<1>10. \A b, c, e \in Int : Shifted(b, c, e)
  <2> SUFFICES ASSUME NEW b \in Int, NEW c \in Int, NEW e \in Int
               PROVE  DayOf(y + b, k + c, d + e) = First(x + 12 * b + c) + d + e - 1
    OBVIOUS
  <2>1. y + b \in Int /\ k + c \in Int /\ d + e \in Int
    OBVIOUS
  <2>2. DayOf(y + b, k + c, d + e) = First(12 * (y + b) + (k + c) - 1) + (d + e) - 1
    BY <2>1, DayIs
  <2>3. 12 * (y + b) + (k + c) - 1 = x + 12 * b + c
    BY <1>8
  <2>4. First(x + 12 * b + c) \in Int
    BY MonthsFollow
  <2> QED BY <2>2, <2>3, <2>4
<1> HIDE DEF Shifted
<1>11. CASE p.unit = "hour"
  <2>1. m.offsets["hour"] = q /\ m.offsets["day"] = 0 /\ m.offsets["month"] = 0 /\ m.offsets["year"] = 0
    BY <1>1, <1>7, <1>11 DEF Units
  <2>2. DayOf(y + 0, k + 0, d + 0) = s
    <3>1. x + 12 * 0 + 0 = x
      OBVIOUS
    <3>2. Shifted(0, 0, 0)
      BY <1>10
    <3>3. First(x) \in Int
      BY MonthsFollow
    <3> QED BY <1>9, <3>1, <3>2, <3>3 DEF Shifted
  <2>3. r = [day |-> s + (h + q) \div 24, hour |-> (h + q) % 24]
    BY <1>6, <1>7, <2>1, <2>2
  <2>4. (r.day - s) * 24 + r.hour - h = q
    BY <2>3
  <2>5. IsOffset(p, t, asked, r, DateOf(r.day))
    BY <1>7, <1>11, <2>4 DEF IsOffset, n
  <2> QED BY <1>2, <1>11, <2>5 DEF SaidAlone, Means, Hourly, r, asked
<1>12. CASE p.unit = "day"
  <2>1. m.offsets["hour"] = 0 /\ m.offsets["day"] = q /\ m.offsets["month"] = 0 /\ m.offsets["year"] = 0
    BY <1>1, <1>7, <1>12 DEF Units
  <2>2. DayOf(y + 0, k + 0, d + q) = s + q
    <3>1. x + 12 * 0 + 0 = x
      OBVIOUS
    <3>2. Shifted(0, 0, q)
      BY <1>10
    <3>3. First(x) \in Int
      BY MonthsFollow
    <3> QED BY <1>9, <3>1, <3>2, <3>3 DEF Shifted
  <2>3. r = [day |-> s + q + (h + 0) \div 24, hour |-> (h + 0) % 24]
    BY <1>6, <1>7, <2>1, <2>2
  <2>4. r.day - s = q /\ r.hour = h
    BY <2>3
  <2>5. IsOffset(p, t, asked, r, DateOf(r.day))
    BY <1>7, <1>12, <2>4 DEF IsOffset, n
  <2> QED BY <1>2, <1>7, <2>4, <2>5 DEF SaidAlone, Means, Hourly, r, asked
<1>13. ASSUME NEW z \in Int, r.day = First(z) + d - 1, InAllMonths(asked)
       PROVE  MonthIndex(DateOf(r.day)) = z
  <2>1. d \in 1 .. 28
    BY <1>7, <1>13 DEF InAllMonths
  <2> QED BY <1>13, <2>1, SameDayThen
<1>14. CASE p.unit = "month"
  <2>1. m.offsets["hour"] = 0 /\ m.offsets["day"] = 0 /\ m.offsets["month"] = q /\ m.offsets["year"] = 0
    BY <1>1, <1>7, <1>14 DEF Units
  <2>2. PICK z \in Int : z = x + q
    OBVIOUS
  <2>3. DayOf(y + 0, k + q, d + 0) = First(z) + d - 1 /\ First(z) \in Int
    <3>1. x + 12 * 0 + q = z
      BY <2>2
    <3>2. Shifted(0, q, 0)
      BY <1>10
    <3>3. First(z) \in Int
      BY MonthsFollow
    <3> QED BY <3>1, <3>2, <3>3 DEF Shifted
  <2>4. r = [day |-> First(z) + d - 1 + (h + 0) \div 24, hour |-> (h + 0) % 24]
    BY <1>6, <1>7, <2>1, <2>3
  <2>5. r.day = First(z) + d - 1 /\ r.hour = h
    BY <2>3, <2>4
  <2>6. InAllMonths(asked) => MonthIndex(DateOf(r.day)) - MonthIndex(asked) = q
    BY <1>8, <1>13, <2>2, <2>5
  <2>7. IsOffset(p, t, asked, r, DateOf(r.day))
    BY <1>7, <1>14, <2>6 DEF IsOffset, n
  <2> QED BY <1>2, <1>7, <2>5, <2>7 DEF SaidAlone, Means, Hourly, r, asked
<1>15. CASE p.unit = "year"
  <2>1. m.offsets["hour"] = 0 /\ m.offsets["day"] = 0 /\ m.offsets["month"] = 0 /\ m.offsets["year"] = q
    BY <1>1, <1>7, <1>15 DEF Units
  <2>2. PICK z \in Int : z = x + 12 * q
    OBVIOUS
  <2>3. DayOf(y + q, k + 0, d + 0) = First(z) + d - 1 /\ First(z) \in Int
    <3>1. x + 12 * q + 0 = z
      BY <2>2
    <3>2. Shifted(q, 0, 0)
      BY <1>10
    <3>3. First(z) \in Int
      BY MonthsFollow
    <3> QED BY <3>1, <3>2, <3>3 DEF Shifted
  <2>4. r = [day |-> First(z) + d - 1 + (h + 0) \div 24, hour |-> (h + 0) % 24]
    BY <1>6, <1>7, <2>1, <2>3
  <2>5. r.day = First(z) + d - 1 /\ r.hour = h
    BY <2>3, <2>4
  <2>6. InAllMonths(asked) => MonthIndex(DateOf(r.day)) - MonthIndex(asked) = 12 * q
    BY <1>8, <1>13, <2>2, <2>5
  <2>7. IsOffset(p, t, asked, r, DateOf(r.day))
    BY <1>7, <1>15, <2>6 DEF IsOffset, n
  <2> QED BY <1>2, <1>7, <2>5, <2>7 DEF SaidAlone, Means, Hourly, r, asked
<1> QED BY <1>1, <1>11, <1>12, <1>14, <1>15 DEF Units

LEMMA StagesLand ==
    ASSUME NEW l \in Lexers, NEW t \in Moment
    PROVE  Moved(l, OnDay(l, Dated(l, Timed(l, t)))) \in Moment
BY TimedIs, DatedIs, OnDayIs, MovedIs

\* A time of day with a year, from the day and month that it is.
LEMMA AnsiMeans ==
    ASSUME NEW p, IsPhrase(p), Rank(p) = 6, NEW t \in Moment
    PROVE  SaidAlone(p, t)
<1> DEFINE m == Reads(DateLexer, p)
           r == Alone(p, t)
           asked == DateOf(t.day)
<1>1. p.kind = "ansi"
  BY RankIs
<1>2. p.hour \in Int /\ p.year \in Int
  BY <1>1, PhraseIs
<1>3. PICK h \in Int, y \in Int : h = p.hour /\ y = p.year
  BY <1>2
<1>4. m = SetYear(SetTime(DateLexer, h), y)
  BY <1>1, <1>3, ReadsIs
<1>5. DateLexer \in Lexers /\ DateLexer.states = {} /\ \A s \in States : ~Have(DateLexer, s)
  BY BlankHas
<1> DEFINE c == SetTime(DateLexer, h)
<1>6. c \in Lexers /\ c.states = {"time"}
  <2>1. ~Have(DateLexer, "time")
    BY <1>5 DEF States
  <2>2. Fields(c, h % 24, DateLexer.date, DateLexer.day, DateLexer.offsets, DateLexer.days, DateLexer.months,
               DateLexer.states \cup {"time"})
    BY <1>5, <2>1, SetTimeIs
  <2> QED BY <1>5, <2>2 DEF Fields
<1> HIDE DEF c, m
<1>7. m \in Lexers /\ m.states = {"time", "day-year"} /\ m.days.year = y
  <2>1. ~Have(c, "date") /\ ~Have(c, "months")
    BY <1>6 DEF Have
  <2>2. Fields(SetYear(c, y), c.time, c.date, c.day, c.offsets, [c.days EXCEPT !.year = y], c.months,
               c.states \cup {"day-year"})
    BY <1>6, <2>1, SetYearIs
  <2>3. [c.days EXCEPT !.year = y].year = y
    BY <1>6 DEF Lexers, DaysSet
  <2>4. m = SetYear(c, y)
    BY <1>4 DEF c
  <2> QED BY <1>6, <2>2, <2>3, <2>4 DEF Fields
<1>8. /\ Have(m, "day-year") /\ ~Have(m, "month-year") /\ ~Have(m, "months") /\ ~Have(m, "days")
      /\ ~Have(m, "date") /\ ~Have(m, "day") /\ ~Have(m, "offset")
      /\ m.states \cap DMY # {}
  BY <1>7 DEF Have, DMY
<1> DEFINE u == Timed(m, t)
<1>9. u \in Moment /\ u.day = t.day
  BY <1>7, TimedIs
<1>10. r = Counted(m, u)
  <2>1. r = Counted(m, Moved(m, OnDay(m, Dated(m, u))))
    <3>1. ~Conflicting(m)
      BY <1>8 DEF Conflicting
    <3> QED BY <3>1, ResolveIs DEF Alone, m
  <2> HIDE DEF u
  <2> QED BY <1>8, <2>1 DEF Moved, OnDay, Dated
<1> HIDE DEF u
<1>11. CountedFrom(m, asked) = On(y, asked.month, asked.day)
  BY <1>7, <1>8, CountedFromIs
<1>12. asked.month \in 1 .. 12 /\ asked.day \in 1 .. 31
  BY MomentIs, DateIn
<1> HIDE DEF r, asked
<1>13. PICK k \in 1 .. 12, d \in 1 .. 31 : k = asked.month /\ d = asked.day
  BY <1>12
<1>14. r.day = DayOf(y, k, d)
  <2>1. CountedFrom(m, DateOf(u.day)) = On(y, k, d)
    BY <1>9, <1>11, <1>13 DEF asked
  <2>2. /\ On(y, k, d).year = y /\ On(y, k, d).month = k /\ On(y, k, d).day = d
    BY DEF On
  <2>3. r = [day |-> DayOf(y, k, d), hour |-> u.hour]
    BY <1>7, <1>8, <1>9, <1>10, <2>1, <2>2, CountedIs
  <2> QED BY <2>3
<1>15. DateOf(DayOf(y, k, d)).year = y
  <2>1. PICK x \in Int : x = 12 * y + k - 1
    OBVIOUS
  <2>2. PICK n \in Int : n = First(x) + d - 1 /\ n = DayOf(y, k, d)
    <3>0. k \in Int /\ d \in Int
      OBVIOUS
    <3>1. DayOf(y, k, d) = First(12 * y + k - 1) + d - 1 /\ DayOf(y, k, d) \in Int
      BY <3>0, DayIs
    <3>2. First(x) = First(12 * y + k - 1)
      BY <2>1
    <3> QED BY <3>1, <3>2
  <2>3. PICK a \in Int, b \in Int : a = 12 * y /\ b = 12 * (y + 1)
    OBVIOUS
  <2>4. /\ First(x) \in Int /\ First(x + 1) \in Int /\ First(x + 2) \in Int /\ First(a) \in Int /\ First(b) \in Int
    <3>1. \A z \in Int : First(z) \in Int
      BY MonthsFollow
    <3>2. x + 1 \in Int /\ x + 2 \in Int
      BY <2>1
    <3> QED BY <3>1, <3>2
  <2>5. First(x + 1) - First(x) \in 28 .. 31 /\ (k = 12 => First(x + 1) - First(x) = 31)
    <3>1. First(x + 1) = First(x) + DaysOf(x \div 12, (x % 12) + 1) /\ DaysOf(x \div 12, (x % 12) + 1) \in 28 .. 31
      BY MonthsFollow
    <3>2. k = 12 => (x % 12) + 1 = 12
      BY <2>1
    <3>3. k = 12 => DaysOf(x \div 12, (x % 12) + 1) = 31
      BY <3>2 DEF DaysOf
    <3> QED BY <2>4, <3>1, <3>3
  <2>6. First(x + 2) - First(x + 1) \in 28 .. 31
    <3>1. PICK z \in Int : z = x + 1 /\ z + 1 = x + 2
      OBVIOUS
    <3>2. First(z + 1) = First(z) + DaysOf(z \div 12, (z % 12) + 1) /\ DaysOf(z \div 12, (z % 12) + 1) \in 28 .. 31
      BY MonthsFollow
    <3> QED BY <2>4, <3>1, <3>2
  <2>7. First(a) <= First(x)
    <3>1. a <= x
      BY <2>1, <2>3
    <3> QED BY <3>1, FirstsGrow
  <2>8. n < First(b)
    <3>1. CASE k = 12
      <4>1. x + 1 = b
        BY <2>1, <2>3, <3>1
      <4> QED BY <2>2, <2>4, <2>5, <3>1, <4>1
    <3>2. CASE k < 12
      <4>1. x + 2 <= b
        BY <2>1, <2>3, <3>2
      <4>2. First(x + 2) <= First(b)
        BY <4>1, FirstsGrow
      <4> QED BY <2>2, <2>4, <2>5, <2>6, <4>2
    <3> QED BY <3>1, <3>2
  <2>9. YearStart(y) <= n /\ n < YearStart(y + 1)
    BY <2>2, <2>3, <2>4, <2>7, <2>8, YearsFirst
  <2> QED BY <2>2, <2>9, InYear
<1>16. Means(p, t, r)
  BY <1>1, <1>3, <1>14, <1>15 DEF Means, Hourly
<1> QED BY <1>16 DEF SaidAlone, r

\* Every phrase of the grammar means, at every moment, what its words say.
LEMMA PhraseMeans ==
    ASSUME NEW p, IsPhrase(p), NEW t \in Moment
    PROVE  Means(p, t, Alone(p, t))
<1>1. Rank(p) \in 1 .. 6 /\ (Rank(p) = 2 => p.kind = "date" \/ p.kind = "week")
      /\ (Rank(p) = 5 => p.kind = "weekday" \/ p.kind = "month" \/ p.kind = "nth")
  BY RankIs
<1>2. SaidAlone(p, t)
  BY <1>1, HourMeans, DateMeans, WeekMeans, TheMeans, OffsetMeans, WeekdayMeans, MonthMeans, NthMeans, AnsiMeans
<1> QED BY <1>2 DEF SaidAlone

-----------------------------------------------------------------------------
(* Texts of any phrases.                                                       *)

\* The panic of resolveDMY needs a phrase with a year and another with a month.
LEMMA PanicsWithYears ==
    ASSUME DatesInv
    PROVE  PanicsOnlyWithYears(Resolve(lexer, today))
<1> SUFFICES ASSUME Resolve(lexer, today) = Panic
             PROVE  \E i, j \in DOMAIN spoken : i # j /\ HasYear(spoken[i]) /\ SetsMonth(spoken[j])
  BY DEF PanicsOnlyWithYears
<1>1. lexer \in Lexers /\ today \in Moment
  BY DEF DatesInv, DatesType
<1>2. YearsSaid
  BY DEF DatesInv
<1> DEFINE u == Moved(lexer, OnDay(lexer, Dated(lexer, Timed(lexer, today))))
<1>3. u \in Moment
  BY <1>1, StagesLand
<1>4. Panic # Conflict
  BY Zenon DEF Panic, Conflict
<1>5. ~Conflicting(lexer) /\ Counted(lexer, u) = Panic
  BY <1>4, ResolveIs
<1> HIDE DEF u
<1>6. Have(lexer, "day-year") /\ Have(lexer, "months")
  <2>1. ~(Have(lexer, "day-year") /\ Have(lexer, "month-year")) /\ (Have(lexer, "month-year") => Have(lexer, "months"))
    BY <1>2, <1>5 DEF Conflicting, YearsSaid
  <2>2. Counted(lexer, u) \notin Moment
    BY <1>5, MomentIs
  <2> QED BY <1>1, <1>3, <2>1, <2>2, CountedIs
<1> QED BY <1>2, <1>6 DEF YearsSaid

\* Whatever was read is resolved to a moment, or to one of the two errors.
LEMMA ResolvesToMoment ==
    ASSUME NEW l \in Lexers, NEW t \in Moment, Have(l, "month-year") => Have(l, "months")
    PROVE  Resolve(l, t) \in Moment \cup {Panic, Conflict}
<1> DEFINE u == Moved(l, OnDay(l, Dated(l, Timed(l, t))))
<1>1. u \in Moment
  BY StagesLand
<1>2. Resolve(l, t) = IF Conflicting(l) THEN Conflict ELSE Counted(l, u)
  BY ResolveIs
<1> HIDE DEF u
<1> QED BY <1>1, <1>2, CountedIs DEF Conflicting

\* The command remind looks ahead.
LEMMA RemindsNext ==
    ASSUME NEW asked \in Moment, NEW at \in Moment
    PROVE  LET for == RemindAt(at, asked)
           IN /\ for = InThePast \/ ~Before(for, asked)
              /\ at.day = asked.day /\ (at.hour # 0 \/ asked.hour = 0) =>
                   for = [day |-> IF at.hour < asked.hour THEN asked.day + 1 ELSE asked.day, hour |-> at.hour]
<1> DEFINE start == [day |-> asked.day, hour |-> 0]
           moved == IF Before(at, asked) /\ Before(start, at) THEN [at EXCEPT !.day = at.day + 1] ELSE at
<1>1. RemindAt(at, asked) = IF Before(moved, asked) THEN InThePast ELSE moved
  BY DEF RemindAt
<1>2. /\ asked.day \in Int /\ asked.hour \in 0 .. 23 /\ at.day \in Int /\ at.hour \in 0 .. 23
      /\ at = [day |-> at.day, hour |-> at.hour]
  BY MomentIs
<1>3. [at EXCEPT !.day = at.day + 1] = [day |-> at.day + 1, hour |-> at.hour]
  BY <1>2
<1>4. ASSUME at.day = asked.day, at.hour # 0 \/ asked.hour = 0
      PROVE  /\ moved = [day |-> IF at.hour < asked.hour THEN asked.day + 1 ELSE asked.day, hour |-> at.hour]
             /\ ~Before(moved, asked)
  <2>1. Before(at, asked) <=> at.hour < asked.hour
    BY <1>2, <1>4 DEF Before
  <2>2. Before(start, at) <=> 0 < at.hour
    BY <1>2, <1>4 DEF Before
  <2>3. CASE at.hour < asked.hour
    <3>1. moved = [day |-> at.day + 1, hour |-> at.hour]
      BY <1>2, <1>3, <1>4, <2>1, <2>2, <2>3
    <3> HIDE DEF moved
    <3> QED BY <1>2, <1>4, <2>3, <3>1 DEF Before
  <2>4. CASE ~(at.hour < asked.hour)
    <3>1. moved = [day |-> at.day, hour |-> at.hour]
      BY <1>2, <2>1, <2>4
    <3> HIDE DEF moved
    <3> QED BY <1>2, <1>4, <2>4, <3>1 DEF Before
  <2> QED BY <2>3, <2>4
<1> HIDE DEF moved
<1> QED BY <1>1, <1>4

LEMMA HoursKeepTheDay ==
    ASSUME NEW p, IsPhrase(p), p.kind \in Hourly, NEW t \in Moment
    PROVE  Alone(p, t).day = t.day
<1>1. Rank(p) = 1
  BY RankIs DEF Hourly
<1>2. PICK m \in Lexers : m = Reads(DateLexer, p) /\ Alone(p, t) = Timed(m, t)
  BY <1>1, AloneStage
<1>3. Timed(m, t) = t \/ Timed(m, t) = [day |-> t.day, hour |-> m.time]
  BY TimedIs
<1> QED BY <1>2, <1>3

\* The inductive invariant gives the property.
LEMMA TextsMean ==
    ASSUME DatesInv
    PROVE  DatesMeant
<1>1. today \in Moment /\ lexer \in Lexers /\ spoken \in Seq(Phrase)
  BY DEF DatesInv, DatesType
<1>2. SUFFICES ASSUME spoken # <<>>
               PROVE  TextMeans(Parsed(lexer, today))
  BY DEF DatesMeant
<1> DEFINE at == Resolve(lexer, today)
<1>3. Parsed(lexer, today) = at
  BY <1>2 DEF Parsed, DatesInv, Started
<1>4. Composed(at) /\ PanicsOnlyWithYears(at)
  BY TextsAreComposed, PanicsWithYears
<1>5. ASSUME Len(spoken) = 1
      PROVE  IsPhrase(spoken[1]) /\ at = Alone(spoken[1], today)
  <2>1. spoken[1] \in Phrase
    BY <1>1, <1>5, ElementOfSeq
  <2>2. lexer = Reads(DateLexer, spoken[1])
    BY <1>5 DEF DatesInv, Started
  <2> QED BY <2>1, <2>2, DatesAssumption DEF Alone
<1>6. Len(spoken) = 1 => Means(spoken[1], today, at)
  BY <1>1, <1>5, PhraseMeans
<1>7. at \in Moment \cup {Panic, Conflict}
  BY <1>1, ResolvesToMoment DEF DatesInv, YearsSaid
<1>8. ASSUME Len(spoken) = 1, spoken[1].kind \in Hourly
      PROVE  at.day = today.day
  BY <1>1, <1>5, <1>8, HoursKeepTheDay
<1> HIDE DEF at
<1>9. RemindsAhead(at)
  <2>1. CASE at \in {Panic, Conflict}
    BY <2>1 DEF RemindsAhead
  <2>2. CASE at \in Moment
    BY <1>1, <1>8, <2>2, RemindsNext DEF RemindsAhead
  <2> QED BY <1>7, <2>1, <2>2
<1> QED BY <1>3, <1>4, <1>6, <1>9 DEF TextMeans

\* For any phrases of the grammar and any moments, however many are said: a text of one phrase
\* resolves to what its words say (dayOffset, monthOffset, resolveDMY: lexer.go:374-456), one of a
\* phrase of each rank to what they mean one after another (resolve: lexer.go:466), the lexer
\* panics only over a year and a month of two phrases (lexer.go:453), and remind never sets a
\* reminder for the past, and for a time of day sets it for the next (commands.go:100).
THEOREM DatesAreMeant == DatesSpec => []DatesMeant
<1>1. DatesInit => DatesInv
  BY DatesInvInit
<1>2. DatesInv /\ [DatesNext]_datesVars => DatesInv'
  BY DatesInvStep
<1>3. DatesInv => DatesMeant
  BY TextsMean
<1> QED BY <1>1, <1>2, <1>3, PTL DEF DatesSpec
=============================================================================
