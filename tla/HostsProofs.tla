---------------------------- MODULE HostsProofs ----------------------------
(***************************************************************************)
(* What is proved of the two kinds of child process, for any number of     *)
(* them, of requests and of mishaps: state kept by a backend plugin, and   *)
(* changes made by a provider plugin.                                      *)
(***************************************************************************)
EXTENDS BackendClient, PluginClient, TLAPS

Methods == {"configure", "lock", "get", "put", "unlock"}
States == [serial : Int, log : Seq(Hosts)]
Requests == [id : Nat, method : Methods \cup {"shutdown"}, state : States]
Answers == {"ok", "locked", "not_locked", "failed", "hello", "refused", "nonsense"}
Lines == [id : Int, answer : Answers, state : States]
Commands == [pc : {"off", "handshake", "call", "wait", "work", "close", "closing"},
             method : Methods \cup {"none"}, mem : States, left : Int, cancelled : BOOLEAN]
Clients == [id : Nat, closed : BOOLEAN]
Children == [status : {"none", "starting", "serving", "blocked", "exited"}, eof : BOOLEAN,
             in : Seq(Requests), out : Seq(Lines)]

BackendType ==
  /\ store \in [lock : Hosts \cup {Nobody}, state : States]
  /\ versions \subseteq States
  /\ cmd \in [Hosts -> Commands]
  /\ client \in [Hosts -> Clients]
  /\ child \in [Hosts -> Children]

-----------------------------------------------------------------------------
LEMMA EmptyTyped == Empty \in States
BY DEF Empty, States

LEMMA EmptySequence ==
  ASSUME NEW S
  PROVE  <<>> \in Seq(S)
OBVIOUS

LEMMA AppendFacts ==
  ASSUME NEW S, NEW s \in Seq(S), NEW x \in S
  PROVE  /\ Append(s, x) \in Seq(S)
         /\ \A i \in DOMAIN Append(s, x) :
              \/ i \in DOMAIN s /\ Append(s, x)[i] = s[i]
              \/ Append(s, x)[i] = x /\ i = Len(s) + 1
         /\ Len(s) + 1 \in DOMAIN Append(s, x)
         /\ Append(s, x) # <<>>
OBVIOUS

LEMMA TailFacts ==
  ASSUME NEW S, NEW s \in Seq(S), s # <<>>
  PROVE  /\ Head(s) \in S /\ Head(s) = s[1] /\ 1 \in DOMAIN s
         /\ Tail(s) \in Seq(S)
         /\ \A i \in DOMAIN Tail(s) : i \in Nat /\ i + 1 \in DOMAIN s /\ i + 1 > 1 /\ Tail(s)[i] = s[i + 1]
OBVIOUS

\* What a command is after its call, method by method.
LEMMA AfterCases ==
  ASSUME NEW c \in Commands, c.method \in Methods, NEW answer, NEW state \in States
  PROVE  LET n == After(c, answer, state) IN
         /\ n \in Commands /\ n.cancelled = c.cancelled
         /\ c.method = "configure" =>
              IF answer = "ok" THEN n.pc = "call" /\ n.method = "lock" ELSE n.pc = "close"
         /\ c.method = "lock" =>
              IF answer = "ok" THEN n.pc = "call" /\ n.method = "get" ELSE n.pc = "close"
         /\ c.method = "get" =>
              IF answer = "ok" THEN n.pc = "work" /\ n.mem = state ELSE n.pc = "call" /\ n.method = "unlock"
         /\ c.method = "put" =>
              /\ n.pc = "work"
              /\ n.mem.serial = IF answer = "ok" THEN c.mem.serial ELSE c.mem.serial - 1
         /\ c.method = "unlock" => n.pc = "close"
<1> DEFINE n == After(c, answer, state)
<1>1. CASE c.method = "configure"
  <2>1. n = IF answer = "ok" THEN Calling(c, "lock") ELSE Closing(c)
    BY <1>1 DEF After
  <2> QED
    BY <1>1, <2>1 DEF Calling, Closing, Commands, Methods
<1>2. CASE c.method = "lock"
  <2>1. n = IF answer = "ok" THEN Calling(c, "get") ELSE Closing(c)
    BY <1>2 DEF After
  <2> QED
    BY <1>2, <2>1 DEF Calling, Closing, Commands, Methods
<1>3. CASE c.method = "get"
  <2>1. n = IF answer = "ok" THEN [c EXCEPT !.pc = "work", !.mem = state] ELSE Calling(c, "unlock")
    BY <1>3 DEF After
  <2> QED
    BY <1>3, <2>1 DEF Calling, Commands, Methods
<1>4. CASE c.method = "put"
  <2>1. n = IF answer = "ok" THEN [c EXCEPT !.pc = "work"]
            ELSE [c EXCEPT !.pc = "work", !.mem.serial = @ - 1]
    BY <1>4 DEF After
  <2> DEFINE m == [c.mem EXCEPT !.serial = @ - 1]
  <2>2. m \in States /\ m.serial = c.mem.serial - 1
    BY DEF Commands, States
  <2>3. n = IF answer = "ok" THEN [c EXCEPT !.pc = "work"] ELSE [c EXCEPT !.pc = "work", !.mem = m]
    BY <2>1
  <2> HIDE DEF m, n
  <2>4. /\ n \in Commands /\ n.cancelled = c.cancelled /\ n.pc = "work"
        /\ n.mem.serial = IF answer = "ok" THEN c.mem.serial ELSE c.mem.serial - 1
    BY <2>2, <2>3 DEF Commands
  <2> QED
    BY <1>4, <2>4 DEF n
<1>5. CASE c.method = "unlock"
  <2>1. n = Closing(c)
    BY <1>5 DEF After
  <2> QED
    BY <1>5, <2>1 DEF Closing, Commands
<1> QED
  BY <1>1, <1>2, <1>3, <1>4, <1>5 DEF Methods

-----------------------------------------------------------------------------
(***************************************************************************)
(* The inductive invariant, of one command c with connection l and child   *)
(* b, on the store s.  The request being waited for is the only one in the *)
(* pipe, with nothing but a shutdown behind it, and has no answer yet; an  *)
(* answer with its id says what the store holds now, for as long as the    *)
(* lock keeps others out; and the next serial written is one more.         *)
(***************************************************************************)
Past(c) == c.pc \in {"off", "close", "closing"} \/ (c.pc = "wait" /\ c.method = "unlock")

Believing(c) ==
  \/ c.pc = "work"
  \/ c.pc \in {"call", "wait"} /\ c.method \in {"get", "put"}
  \/ c.pc = "call" /\ c.method = "unlock"

Unanswered(l, b) == \A i \in DOMAIN b.out : b.out[i].id # l.id

Channel(c, l, b) ==
  /\ b.status = "none" => c.pc = "off" /\ b.in = <<>> /\ b.out = <<>>
  /\ b.status = "starting" => c.pc \in {"off", "handshake"} /\ b.out = <<>>
  /\ c.pc \in {"call", "wait"} => c.method \in Methods
  /\ c.pc \in {"handshake", "call", "work"} /\ ~l.closed => b.in = <<>>
  /\ c.pc = "wait" => ~l.closed

InboxOf(c, l, b) == \A i \in DOMAIN b.in :
  /\ b.in[i].id <= l.id
  /\ i > 1 => b.in[i].method = "shutdown"
  /\ b.in[i].method = "unlock" => Past(c)
  /\ b.in[i].method = "shutdown" => c.pc \in {"off", "closing"}
  /\ c.pc = "wait" =>
       Unanswered(l, b) /\ b.in[i].id = l.id /\ b.in[i].method = c.method /\ b.in[i].state = c.mem

AnswersOf(h, s, c, l, b) == \A i \in DOMAIN b.out :
  /\ b.out[i].id <= l.id
  /\ c.pc = "wait" /\ b.out[i].id = l.id =>
       /\ c.method = "lock" /\ b.out[i].answer = "ok" => s.lock = h
       /\ c.method = "get" /\ b.out[i].answer = "ok" => b.out[i].state = s.state
       /\ c.method = "put" =>
            c.mem.serial = IF b.out[i].answer = "ok" THEN s.state.serial ELSE s.state.serial + 1

Writes(h, s, c, l, b) ==
  /\ Believing(c) => s.lock = h
  /\ s.lock = h => \A i \in DOMAIN b.in :
       b.in[i].method = "put" => b.in[i].state.serial = s.state.serial + 1
  /\ ~l.closed /\ c.pc = "work" => c.mem.serial = s.state.serial
  /\ ~l.closed /\ c.pc = "call" /\ c.method = "put" => c.mem.serial = s.state.serial + 1

Typed(s, c, l, b) ==
  /\ s \in [lock : Hosts \cup {Nobody}, state : States]
  /\ c \in Commands /\ l \in Clients /\ b \in Children

Sound(h, s, c, l, b) ==
  /\ Typed(s, c, l, b)
  /\ Channel(c, l, b) /\ InboxOf(c, l, b) /\ AnswersOf(h, s, c, l, b) /\ Writes(h, s, c, l, b)

History(s, kept) ==
  /\ kept \subseteq States /\ s.state \in kept
  /\ \A v \in kept : v.serial <= s.state.serial
  /\ \A v, w \in kept : v.serial = w.serial => v = w

BackendInv ==
  /\ BackendType
  /\ History(store, versions)
  /\ \A h \in Hosts : Sound(h, store, cmd[h], client[h], child[h])

-----------------------------------------------------------------------------
\* What is true of a command stays true while others leave its lock alone.
LEMMA Undisturbed ==
  ASSUME NEW h \in Hosts, NEW s, NEW c, NEW l, NEW b, Sound(h, s, c, l, b),
         NEW t \in [lock : Hosts \cup {Nobody}, state : States],
         s.lock = h => t = s,
         s.lock # h => t.lock # h
  PROVE  Sound(h, t, c, l, b)
<1>1. CASE s.lock = h
  BY <1>1
<1>2. CASE s.lock # h
  <2>1. t.lock # h /\ ~Believing(c)
    BY <1>2 DEF Sound, Writes
  <2>2. Typed(t, c, l, b)
    BY DEF Sound, Typed
  <2>3. AnswersOf(h, t, c, l, b)
    <3> SUFFICES ASSUME NEW i \in DOMAIN b.out
                 PROVE  /\ b.out[i].id <= l.id
                        /\ c.pc = "wait" /\ b.out[i].id = l.id =>
                             c.method \notin {"get", "put"} /\ (c.method = "lock" => b.out[i].answer # "ok")
      BY DEF AnswersOf
    <3> QED
      BY <1>2, <2>1 DEF Sound, AnswersOf, Believing
  <2>4. Writes(h, t, c, l, b)
    BY <2>1 DEF Writes, Believing
  <2> QED
    BY <2>2, <2>3, <2>4 DEF Sound
<1> QED
  BY <1>1, <1>2

\* A step of one command and its child, on the store both share.
LEMMA StepOnStore ==
  ASSUME BackendInv, NEW h \in Hosts, NEW t, NEW c, NEW l, NEW b,
         Sound(h, t, c, l, b),
         store' = t, cmd' = [cmd EXCEPT ![h] = c], client' = [client EXCEPT ![h] = l],
         child' = [child EXCEPT ![h] = b],
         versions' \subseteq States, History(t, versions'),
         \A k \in Hosts \ {h} : (store.lock = k => t = store) /\ (store.lock # k => t.lock # k)
  PROVE  BackendInv'
<1>1. BackendType'
  BY DEF BackendInv, BackendType, Sound, Typed
<1>2. ASSUME NEW k \in Hosts
      PROVE  Sound(k, store', cmd'[k], client'[k], child'[k])
  <2>1. CASE k = h
    BY <2>1 DEF BackendInv, BackendType
  <2>2. CASE k # h
    <3>1. /\ cmd'[k] = cmd[k] /\ client'[k] = client[k] /\ child'[k] = child[k]
          /\ Sound(k, store, cmd[k], client[k], child[k])
      BY <2>2 DEF BackendInv, BackendType
    <3>2. t \in [lock : Hosts \cup {Nobody}, state : States]
      BY DEF Sound, Typed
    <3> QED
      BY <2>2, <3>1, <3>2, Undisturbed
  <2> QED
    BY <2>1, <2>2
<1>3. History(store', versions')
  OBVIOUS
<1> QED
  BY <1>1, <1>2, <1>3 DEF BackendInv

LEMMA StepOffStore ==
  ASSUME BackendInv, NEW h \in Hosts, NEW c, NEW l, NEW b,
         Sound(h, store, c, l, b),
         cmd' = [cmd EXCEPT ![h] = c], client' = [client EXCEPT ![h] = l],
         child' = [child EXCEPT ![h] = b], UNCHANGED <<store, versions>>
  PROVE  BackendInv'
<1>1. versions' \subseteq States /\ History(store, versions') /\ store' = store
  BY DEF BackendInv, History
<1> QED
  BY <1>1, StepOnStore

LEMMA Known ==
  ASSUME BackendInv, NEW h \in Hosts
  PROVE  /\ Sound(h, store, cmd[h], client[h], child[h])
         /\ cmd[h] \in Commands /\ client[h] \in Clients /\ child[h] \in Children
         /\ store \in [lock : Hosts \cup {Nobody}, state : States]
         /\ cmd = [cmd EXCEPT ![h] = cmd[h]] /\ client = [client EXCEPT ![h] = client[h]]
         /\ child = [child EXCEPT ![h] = child[h]]
BY DEF BackendInv, BackendType

-----------------------------------------------------------------------------
\* A command that is gone: whatever its child has left to read, it may read.
LEMMA Departed ==
  ASSUME NEW h \in Hosts, NEW s, NEW c, NEW l, NEW b, Sound(h, s, c, l, b), NEW eof \in BOOLEAN
  PROVE  Sound(h, s, Off, l, [b EXCEPT !.eof = eof])
<1> DEFINE d == [b EXCEPT !.eof = eof]
<1>1. /\ d \in Children /\ d.in = b.in /\ d.out = b.out /\ d.status = b.status
      /\ Off \in Commands /\ Off.pc = "off"
  BY EmptyTyped DEF Sound, Typed, Children, Off, Commands
<1> HIDE DEF d
<1>2. Typed(s, Off, l, d) /\ Channel(Off, l, d)
  BY <1>1 DEF Sound, Typed, Channel
<1>3. InboxOf(Off, l, d)
  BY <1>1 DEF Sound, InboxOf, Past
<1>4. AnswersOf(h, s, Off, l, d)
  BY <1>1 DEF Sound, AnswersOf
<1>5. Writes(h, s, Off, l, d)
  BY <1>1 DEF Sound, Writes, Believing
<1> QED
  BY <1>2, <1>3, <1>4, <1>5 DEF Sound, d

LEMMA StartSound ==
  ASSUME BackendInv, NEW h \in Hosts, StartCommand(h)
  PROVE  BackendInv'
<1> DEFINE c == [Off EXCEPT !.pc = "handshake", !.left = MaxPuts[h]]
           b == [NoChild EXCEPT !.status = "starting"]
<1>1. /\ c \in Commands /\ c.pc = "handshake"
      /\ b \in Children /\ b.in = <<>> /\ b.out = <<>> /\ b.status = "starting"
      /\ NoClient \in Clients
  <2>1. c \in Commands /\ c.pc = "handshake"
    <3>1. MaxPuts[h] \in Int
      BY BackendAssumption
    <3>2. Off \in Commands
      BY EmptyTyped DEF Off, Commands
    <3> QED
      BY <3>1, <3>2 DEF Commands
  <2>2. b \in Children /\ b.in = <<>> /\ b.out = <<>> /\ b.status = "starting"
    BY EmptySequence DEF NoChild, Children
  <2>3. NoClient \in Clients
    BY DEF NoClient, Clients
  <2> QED
    BY <2>1, <2>2, <2>3
<1>2. /\ cmd' = [cmd EXCEPT ![h] = c] /\ client' = [client EXCEPT ![h] = NoClient]
      /\ child' = [child EXCEPT ![h] = b] /\ UNCHANGED <<store, versions>>
  BY DEF StartCommand
<1> HIDE DEF c, b
<1>3. Sound(h, store, c, NoClient, b)
  BY <1>1, Known DEF Sound, Typed, Channel, InboxOf, AnswersOf, Writes, Believing
<1> QED
  BY <1>2, <1>3, StepOffStore

LEMMA LeaveSound ==
  ASSUME BackendInv, NEW h \in Hosts, NoGreeting(h) \/ Disconnected(h) \/ KillCommand(h)
  PROVE  BackendInv'
<1>1. PICK eof \in BOOLEAN : /\ cmd' = [cmd EXCEPT ![h] = Off]
                             /\ child' = [child EXCEPT ![h].eof = eof]
                             /\ UNCHANGED <<client, store, versions>>
  <2>1. CASE KillCommand(h)
    BY <2>1 DEF KillCommand
  <2>2. CASE NoGreeting(h) \/ Disconnected(h)
    <3>1. child[h].eof \in BOOLEAN /\ child = [child EXCEPT ![h].eof = child[h].eof]
      BY Known DEF Children, BackendInv, BackendType
    <3> QED
      BY <2>2, <3>1 DEF NoGreeting, Disconnected
  <2> QED
    BY <2>1, <2>2
<1>2. Sound(h, store, Off, client[h], [child[h] EXCEPT !.eof = eof])
  BY Known, Departed
<1>3. /\ child' = [child EXCEPT ![h] = [child[h] EXCEPT !.eof = eof]]
      /\ client' = [client EXCEPT ![h] = client[h]]
  BY <1>1, Known
<1> QED
  BY <1>1, <1>2, <1>3, StepOffStore

LEMMA GreetingSound ==
  ASSUME BackendInv, NEW h \in Hosts, Greeting(h)
  PROVE  BackendInv'
<1> DEFINE c == cmd[h]  l == client[h]  b == child[h]
<1>1. /\ c.pc = "handshake" /\ b.out # <<>> /\ Sound(h, store, c, l, b)
      /\ c \in Commands /\ l \in Clients /\ b \in Children /\ b.out \in Seq(Lines)
      /\ client' = [client EXCEPT ![h] = l] /\ UNCHANGED <<store, versions>>
  BY Known DEF Greeting, Children
<1>2. CASE Head(b.out).answer = "hello"
  <2> DEFINE n == Calling(c, "configure")
             d == [b EXCEPT !.out = Tail(@)]
  <2>1. /\ n \in Commands /\ n.pc = "call" /\ n.method = "configure"
        /\ d \in Children /\ d.in = b.in /\ d.out = Tail(b.out) /\ d.status = b.status
    BY <1>1, TailFacts DEF Calling, Commands, Methods, Children
  <2>2. cmd' = [cmd EXCEPT ![h] = n] /\ child' = [child EXCEPT ![h] = d]
    BY <1>2 DEF Greeting
  <2> HIDE DEF n, d, c, l, b
  <2>3. Typed(store, n, l, d) /\ Channel(n, l, d)
    BY <1>1, <2>1 DEF Sound, Typed, Channel, Methods
  <2>4. InboxOf(n, l, d)
    BY <1>1, <2>1 DEF Sound, InboxOf, Past
  <2>5. AnswersOf(h, store, n, l, d)
    BY <1>1, <2>1, TailFacts DEF Sound, AnswersOf
  <2>6. Writes(h, store, n, l, d)
    BY <1>1, <2>1 DEF Sound, Writes, Believing
  <2> QED
    BY <1>1, <2>2, <2>3, <2>4, <2>5, <2>6, StepOffStore DEF Sound
<1>3. CASE Head(b.out).answer # "hello"
  <2> DEFINE d == [NoChild EXCEPT !.status = "exited"]
  <2>1. /\ d \in Children /\ d.in = <<>> /\ d.out = <<>> /\ d.status = "exited"
        /\ Off \in Commands /\ Off.pc = "off"
    <3>1. d \in Children /\ d.in = <<>> /\ d.out = <<>> /\ d.status = "exited"
      BY EmptySequence DEF NoChild, Children
    <3>2. Off \in Commands /\ Off.pc = "off"
      BY EmptyTyped DEF Off, Commands
    <3> QED
      BY <3>1, <3>2
  <2>2. cmd' = [cmd EXCEPT ![h] = Off] /\ child' = [child EXCEPT ![h] = d]
    BY <1>3 DEF Greeting
  <2> HIDE DEF d, c, l, b
  <2>3. Sound(h, store, Off, l, d)
    BY <1>1, <2>1, Known DEF Sound, Typed, Channel, InboxOf, AnswersOf, Writes, Believing
  <2> QED
    BY <1>1, <2>2, <2>3, StepOffStore
<1> QED
  BY <1>2, <1>3


LEMMA WorkSound ==
  ASSUME BackendInv, NEW h \in Hosts, Work(h)
  PROVE  BackendInv'
<1> DEFINE c == cmd[h]  l == client[h]  b == child[h]
           stamped == [serial |-> c.mem.serial + 1, log |-> Append(c.mem.log, h)]
<1>1. /\ c.pc = "work" /\ Sound(h, store, c, l, b)
      /\ c \in Commands /\ l \in Clients /\ b \in Children /\ store.lock = h
      /\ client' = [client EXCEPT ![h] = l] /\ child' = [child EXCEPT ![h] = b]
      /\ UNCHANGED <<store, versions>>
  BY Known DEF Work, Sound, Writes, Believing
<1>2. stamped \in States
  BY <1>1, AppendFacts DEF Commands, States
<1>3. \E n \in Commands :
        /\ cmd' = [cmd EXCEPT ![h] = n] /\ n.pc = "call"
        /\ n.method = "unlock" \/ (n.method = "put" /\ n.mem.serial = c.mem.serial + 1)
  <2> HIDE DEF c
  <2>1. CASE cmd' = [cmd EXCEPT ![h] = Calling(c, "unlock")]
    <3>1. Calling(c, "unlock") \in Commands /\ Calling(c, "unlock").pc = "call"
          /\ Calling(c, "unlock").method = "unlock"
      BY <1>1 DEF Calling, Commands, Methods
    <3> QED
      BY <2>1, <3>1
  <2>2. CASE cmd' = [cmd EXCEPT ![h] = [Calling(c, "put") EXCEPT !.left = @ - 1, !.mem = stamped]]
    <3> DEFINE q == Calling(c, "put")
               n == [q EXCEPT !.left = @ - 1, !.mem = stamped]
    <3>1. n \in Commands /\ n.pc = "call" /\ n.method = "put" /\ n.mem = stamped
      <4> HIDE DEF stamped
      <4>1. q \in Commands /\ q.pc = "call" /\ q.method = "put"
        BY <1>1 DEF Calling, Commands, Methods
      <4> HIDE DEF q
      <4>2. q.left - 1 \in Int
        BY <4>1 DEF Commands
      <4> QED
        BY <4>1, <4>2, <1>2 DEF Commands
    <3>2. stamped.serial = c.mem.serial + 1
      OBVIOUS
    <3> HIDE DEF stamped, n, q
    <3>3. n.mem.serial = c.mem.serial + 1
      BY <3>1, <3>2
    <3> QED
      BY <2>2, <3>1, <3>3 DEF n, q
  <2> QED
    BY <2>1, <2>2 DEF Work, c
<1>4. PICK n \in Commands :
        /\ cmd' = [cmd EXCEPT ![h] = n] /\ n.pc = "call"
        /\ n.method = "unlock" \/ (n.method = "put" /\ n.mem.serial = c.mem.serial + 1)
  BY <1>3
<1> HIDE DEF c, l, b, stamped
<1>5. Typed(store, n, l, b) /\ Channel(n, l, b)
  BY <1>1, <1>4 DEF Sound, Typed, Channel, Methods
<1>6. InboxOf(n, l, b)
  BY <1>1, <1>4 DEF Sound, InboxOf, Past
<1>7. AnswersOf(h, store, n, l, b)
  BY <1>1, <1>4 DEF Sound, AnswersOf
<1>8. Writes(h, store, n, l, b)
  BY <1>1, <1>4 DEF Sound, Writes, Believing
<1> QED
  BY <1>1, <1>4, <1>5, <1>6, <1>7, <1>8, StepOffStore DEF Sound

\* A call that failed: before it was written, or with the connection over.
LEMMA FailedCall ==
  ASSUME NEW h \in Hosts, NEW s, NEW c, NEW l, NEW b, Sound(h, s, c, l, b),
         c.pc \in {"call", "wait"}, NEW k \in Clients, NEW d \in Children,
         d.in = b.in, d.status = b.status, k.id = l.id,
         \/ d.out = <<>> /\ k.closed
         \/ c.pc = "call" /\ k = l /\ d = b
  PROVE  Sound(h, s, After(c, "failed", Empty), k, d)
<1> DEFINE n == After(c, "failed", Empty)
<1>1. /\ c \in Commands /\ c.method \in Methods
      /\ s \in [lock : Hosts \cup {Nobody}, state : States]
  BY DEF Sound, Typed, Channel
<1>2. /\ n \in Commands
      /\ c.method \in {"configure", "lock", "unlock"} => n.pc = "close"
      /\ c.method = "get" => n.pc = "call" /\ n.method = "unlock"
      /\ c.method = "put" => n.pc = "work" /\ n.mem.serial = c.mem.serial - 1
  BY <1>1, AfterCases, EmptyTyped
<1> HIDE DEF n
<1>3. Typed(s, n, k, d) /\ Channel(n, k, d)
  BY <1>1, <1>2 DEF Sound, Typed, Channel, Methods
<1>4. InboxOf(n, k, d)
  BY <1>1, <1>2 DEF Sound, InboxOf, Past, Methods, Unanswered
<1>5. AnswersOf(h, s, n, k, d)
  BY <1>1, <1>2 DEF Sound, AnswersOf, Methods
<1>6. Writes(h, s, n, k, d)
  BY <1>1, <1>2 DEF Sound, Writes, Believing, Methods, Commands, States
<1> QED
  BY <1>3, <1>4, <1>5, <1>6 DEF Sound, n

LEMMA EndedConnection ==
  ASSUME BackendInv, NEW h \in Hosts, EndConnection(h)
  PROVE  \E k \in Clients, d \in Children :
           /\ client' = [client EXCEPT ![h] = k] /\ child' = [child EXCEPT ![h] = d]
           /\ k.id = client[h].id /\ k.closed /\ d.out = <<>>
           /\ d.in = child[h].in /\ d.status = child[h].status
<1> DEFINE k == [client[h] EXCEPT !.closed = TRUE]
           d == [child[h] EXCEPT !.out = <<>>]
<1>1. /\ k \in Clients /\ k.id = client[h].id /\ k.closed
      /\ d \in Children /\ d.out = <<>> /\ d.in = child[h].in /\ d.status = child[h].status
  BY Known, EmptySequence DEF Clients, Children
<1>2. client' = [client EXCEPT ![h] = k] /\ child' = [child EXCEPT ![h] = d]
  BY DEF EndConnection
<1> QED
  BY <1>1, <1>2

LEMMA CallFails ==
  ASSUME BackendInv, NEW h \in Hosts, cmd[h].pc \in {"call", "wait"},
         cmd' = [cmd EXCEPT ![h] = After(cmd[h], "failed", Empty)],
         EndConnection(h) \/ (cmd[h].pc = "call" /\ UNCHANGED <<client, child>>),
         UNCHANGED <<store, versions>>
  PROVE  BackendInv'
<1>1. CASE EndConnection(h)
  <2>1. PICK k \in Clients, d \in Children :
           /\ client' = [client EXCEPT ![h] = k] /\ child' = [child EXCEPT ![h] = d]
           /\ k.id = client[h].id /\ k.closed /\ d.out = <<>>
           /\ d.in = child[h].in /\ d.status = child[h].status
    BY <1>1, EndedConnection
  <2>2. Sound(h, store, After(cmd[h], "failed", Empty), k, d)
    BY <2>1, Known, FailedCall
  <2> QED
    BY <2>1, <2>2, StepOffStore
<1>2. CASE cmd[h].pc = "call" /\ UNCHANGED <<client, child>>
  <2>1. Sound(h, store, After(cmd[h], "failed", Empty), client[h], child[h])
    BY <1>2, Known, FailedCall
  <2>2. client' = [client EXCEPT ![h] = client[h]] /\ child' = [child EXCEPT ![h] = child[h]]
    BY <1>2, Known
  <2> QED
    BY <2>1, <2>2, StepOffStore
<1> QED
  BY <1>1, <1>2

LEMMA AskSound ==
  ASSUME BackendInv, NEW h \in Hosts, Ask(h)
  PROVE  BackendInv'
<1> DEFINE c == cmd[h]  l == client[h]  b == child[h]
           n == [c EXCEPT !.pc = "wait"]
           k == [l EXCEPT !.id = @ + 1]
           req == [id |-> l.id + 1, method |-> c.method, state |-> c.mem]
           d == [b EXCEPT !.in = Append(@, req)]
<1>1. /\ c.pc = "call" /\ Sound(h, store, c, l, b)
      /\ c \in Commands /\ l \in Clients /\ b \in Children /\ UNCHANGED <<store, versions>>
  BY Known DEF Ask
<1>2. CASE cmd' = [cmd EXCEPT ![h] = After(@, "failed", Empty)] /\ (EndConnection(h) \/ UNCHANGED <<client, child>>)
  <2>1. cmd' = [cmd EXCEPT ![h] = After(c, "failed", Empty)]
    BY <1>2
  <2> QED
    BY <1>1, <1>2, <2>1, CallFails
<1>3. CASE /\ ~l.closed
           /\ cmd' = [cmd EXCEPT ![h].pc = "wait"] /\ client' = [client EXCEPT ![h].id = @ + 1]
           /\ child' = [child EXCEPT ![h].in = Append(@, req)]
  <2>1. /\ cmd' = [cmd EXCEPT ![h] = n] /\ client' = [client EXCEPT ![h] = k]
        /\ child' = [child EXCEPT ![h] = d]
    BY <1>3
  <2>2. /\ c.method \in Methods /\ b.in = <<>> /\ c.mem \in States /\ l.id \in Nat
        /\ b.in \in Seq(Requests) /\ b.out \in Seq(Lines)
    BY <1>1, <1>3 DEF Sound, Channel, Commands, Clients, Children
  <2>3. req \in Requests
    BY <2>2 DEF Requests
  <2>4. /\ n \in Commands /\ n.pc = "wait" /\ n.method = c.method /\ n.mem = c.mem
        /\ k \in Clients /\ k.id = l.id + 1 /\ ~k.closed
    BY <1>1, <1>3 DEF Commands, Clients
  <2>5. /\ req.id = l.id + 1 /\ req.method = c.method /\ req.state = c.mem
    OBVIOUS
  <2> HIDE DEF req
  <2>6. /\ d.in = Append(b.in, req) /\ d.out = b.out /\ d.status = b.status /\ d.eof = b.eof
        /\ d \in Children
    <3> DEFINE more == Append(b.in, req)
    <3>1. more \in Seq(Requests)
      BY <2>2, <2>3, AppendFacts
    <3> HIDE DEF more
    <3>2. [b EXCEPT !.in = more] \in Children /\ [b EXCEPT !.in = more].in = more
      BY <1>1, <3>1 DEF Children
    <3> QED
      BY <1>1, <3>2 DEF more, Children
  <2> HIDE DEF c, l, b, n, k, d
  <2>7. \A i \in DOMAIN d.in : i = 1 /\ d.in[i] = req
    BY <2>2, <2>3, <2>6
  <2>8. Typed(store, n, k, d) /\ Channel(n, k, d)
    BY <1>1, <1>3, <2>2, <2>4, <2>6 DEF Sound, Typed, Channel
  <2>9. \A i \in DOMAIN d.out : d.out[i].id < k.id
    <3>1. \A i \in DOMAIN b.out : b.out[i] \in Lines /\ b.out[i].id <= l.id
      BY <1>1, <2>2 DEF Sound, AnswersOf
    <3> QED
      BY <3>1, <2>2, <2>4, <2>6 DEF Lines
  <2>10. InboxOf(n, k, d)
    <3>1. Unanswered(k, d)
      BY <2>4, <2>9 DEF Unanswered, Clients
    <3>2. n.method = "unlock" => Past(n)
      BY <2>4 DEF Past
    <3> QED
      BY <3>1, <3>2, <2>2, <2>4, <2>5, <2>7 DEF InboxOf, Clients, Methods
  <2>11. AnswersOf(h, store, n, k, d)
    <3>1. \A i \in DOMAIN d.out : d.out[i].id \in Int /\ d.out[i].id <= k.id /\ d.out[i].id # k.id
      <4>1. b.out \in Seq(Lines) /\ d.out = b.out /\ k.id \in Nat
        BY <2>2, <2>4, <2>6 DEF Clients
      <4>2. \A i \in DOMAIN b.out : b.out[i] \in Lines
        BY <4>1
      <4>3. \A i \in DOMAIN d.out : d.out[i].id \in Int
        BY <4>1, <4>2 DEF Lines
      <4> QED
        BY <2>9, <4>1, <4>3
    <3> QED
      BY <3>1 DEF AnswersOf
  <2>12. Writes(h, store, n, k, d)
    <3>1. Believing(n) => Believing(c)
      BY <1>1, <2>4 DEF Believing
    <3>2. c.method = "put" => c.mem.serial = store.state.serial + 1
      BY <1>1, <1>3 DEF Sound, Writes
    <3> QED
      BY <1>1, <2>4, <2>5, <2>7, <3>1, <3>2 DEF Sound, Writes
  <2> QED
    BY <1>1, <2>1, <2>8, <2>10, <2>11, <2>12, StepOffStore DEF Sound
<1> QED
  BY <1>2, <1>3 DEF Ask

LEMMA NoReplySound ==
  ASSUME BackendInv, NEW h \in Hosts, NoReply(h)
  PROVE  BackendInv'
<1>1. /\ cmd[h].pc = "wait" /\ cmd' = [cmd EXCEPT ![h] = After(cmd[h], "failed", Empty)]
      /\ EndConnection(h) /\ UNCHANGED <<store, versions>>
  BY DEF NoReply
<1> QED
  BY <1>1, CallFails

LEMMA TakeReplySound ==
  ASSUME BackendInv, NEW h \in Hosts, TakeReply(h)
  PROVE  BackendInv'
<1> DEFINE c == cmd[h]  l == client[h]  b == child[h]  line == Head(child[h].out)
<1>1. /\ c.pc = "wait" /\ b.out # <<>> /\ Sound(h, store, c, l, b)
      /\ c \in Commands /\ l \in Clients /\ b \in Children /\ UNCHANGED <<store, versions>>
      /\ store \in [lock : Hosts \cup {Nobody}, state : States]
  BY Known DEF TakeReply
<1>2. CASE line.id # l.id
  <2>1. cmd' = [cmd EXCEPT ![h] = After(cmd[h], "failed", Empty)] /\ EndConnection(h)
    BY <1>2 DEF TakeReply
  <2> QED
    BY <1>1, <2>1, CallFails
<1>3. CASE line.id = l.id
  <2> DEFINE n == After(c, line.answer, line.state)
             d == [b EXCEPT !.out = Tail(@)]
  <2>1. /\ cmd' = [cmd EXCEPT ![h] = n] /\ child' = [child EXCEPT ![h] = d]
        /\ client' = [client EXCEPT ![h] = l]
    BY <1>3, Known DEF TakeReply
  <2>2. b.out \in Seq(Lines) /\ c.method \in Methods /\ ~l.closed
    BY <1>1 DEF Children, Sound, Channel
  <2>3. line \in Lines /\ line = b.out[1] /\ 1 \in DOMAIN b.out /\ line.state \in States
    <3>1. b.out \in Seq(Lines) /\ b.out # <<>>
      BY <1>1, <2>2
    <3> HIDE DEF b
    <3>2. Head(b.out) \in Lines /\ Head(b.out) = b.out[1] /\ 1 \in DOMAIN b.out
      BY <3>1, TailFacts
    <3> QED
      BY <3>2 DEF Lines, b
  <2>4. /\ n \in Commands
        /\ c.method \in {"configure", "lock"} =>
             n.pc = "close" \/ (n.pc = "call" /\ n.method = "lock")
               \/ (n.pc = "call" /\ n.method = "get" /\ c.method = "lock" /\ line.answer = "ok")
        /\ c.method = "get" =>
             (n.pc = "call" /\ n.method = "unlock")
               \/ (n.pc = "work" /\ line.answer = "ok" /\ n.mem = line.state)
        /\ c.method = "put" =>
              n.pc = "work" /\ n.mem.serial = IF line.answer = "ok" THEN c.mem.serial ELSE c.mem.serial - 1
        /\ c.method = "unlock" => n.pc = "close"
    BY <1>1, <2>2, <2>3, AfterCases
  <2>5. d \in Children /\ d.in = b.in /\ d.out = Tail(b.out) /\ d.status = b.status
    BY <1>1, <2>2, TailFacts DEF Children
  <2>6. d.in = <<>>
    <3>1. 1 \in DOMAIN b.in => Unanswered(l, b)
      BY <1>1 DEF Sound, InboxOf
    <3>2. ~Unanswered(l, b)
      BY <1>3, <2>3 DEF Unanswered
    <3>3. b.in \in Seq(Requests) /\ (b.in # <<>> => 1 \in DOMAIN b.in)
      BY <1>1, TailFacts DEF Children
    <3> QED
      BY <2>5, <3>1, <3>2, <3>3
  <2>7. /\ c.method = "lock" /\ line.answer = "ok" => store.lock = h
        /\ c.method = "get" /\ line.answer = "ok" => line.state = store.state
        /\ c.method = "put" =>
             c.mem.serial = IF line.answer = "ok" THEN store.state.serial ELSE store.state.serial + 1
    BY <1>1, <1>3, <2>3 DEF Sound, AnswersOf
  <2>8. store.state.serial \in Int
    BY <1>1 DEF States
  <2> HIDE DEF n, d, c, l, b, line
  <2>9. Typed(store, n, l, d) /\ Channel(n, l, d)
    BY <1>1, <2>2, <2>4, <2>5, <2>6 DEF Sound, Typed, Channel, Methods
  <2>10. InboxOf(n, l, d)
    BY <2>6 DEF InboxOf
  <2>11. AnswersOf(h, store, n, l, d)
    <3>1. n.pc # "wait"
      BY <2>2, <2>4 DEF Methods
    <3> QED
      BY <1>1, <2>2, <2>5, <3>1, TailFacts DEF Sound, AnswersOf
  <2>12. Writes(h, store, n, l, d)
    <3>1. Believing(n) => store.lock = h
      BY <1>1, <2>2, <2>4, <2>7 DEF Sound, Writes, Believing, Methods
    <3>2. n.pc = "work" => n.mem.serial = store.state.serial
      BY <2>2, <2>4, <2>7, <2>8 DEF Methods
    <3>3. n.pc = "call" => n.method # "put"
      BY <2>2, <2>4 DEF Methods
    <3> QED
      BY <2>6, <3>1, <3>2, <3>3 DEF Writes
  <2> QED
    BY <1>1, <2>1, <2>9, <2>10, <2>11, <2>12, StepOffStore DEF Sound
<1> QED
  BY <1>2, <1>3


LEMMA CloseSound ==
  ASSUME BackendInv, NEW h \in Hosts, CloseConnection(h)
  PROVE  BackendInv'
<1> DEFINE c == cmd[h]  l == client[h]  b == child[h]
           n == [c EXCEPT !.pc = "closing"]
           k == [l EXCEPT !.id = @ + 1]
           req == [id |-> l.id + 1, method |-> "shutdown", state |-> Empty]
           more == IF b.status = "exited" THEN b.in ELSE Append(b.in, req)
           d == [b EXCEPT !.eof = TRUE, !.in = more]
<1>1. /\ c.pc = "close" /\ Sound(h, store, c, l, b)
      /\ c \in Commands /\ l \in Clients /\ b \in Children /\ UNCHANGED <<store, versions>>
      /\ b.in \in Seq(Requests) /\ b.out \in Seq(Lines) /\ l.id \in Nat
  BY Known DEF CloseConnection, Children, Clients
<1>2. /\ cmd' = [cmd EXCEPT ![h] = n] /\ client' = [client EXCEPT ![h] = k]
      /\ child' = [child EXCEPT ![h] = d]
  BY DEF CloseConnection
<1>3. /\ n \in Commands /\ n.pc = "closing"
      /\ k \in Clients /\ k.id = l.id + 1
  BY <1>1 DEF Commands, Clients
<1>4. req \in Requests /\ req.id = l.id + 1 /\ req.method = "shutdown"
  BY <1>1, EmptyTyped DEF Requests
<1> HIDE DEF req
<1>5. /\ more \in Seq(Requests)
      /\ \A i \in DOMAIN more : (i \in DOMAIN b.in /\ more[i] = b.in[i]) \/ more[i] = req
  <2>1. Append(b.in, req) \in Seq(Requests)
    BY <1>1, <1>4, AppendFacts
  <2>2. \A i \in DOMAIN Append(b.in, req) :
          (i \in DOMAIN b.in /\ Append(b.in, req)[i] = b.in[i]) \/ Append(b.in, req)[i] = req
    BY <1>1, <1>4, AppendFacts
  <2> QED
    BY <1>1, <2>1, <2>2
<1> HIDE DEF more
<1>6. /\ d.in = more /\ d.out = b.out /\ d.status = b.status /\ d \in Children
  BY <1>1, <1>5 DEF Children
<1> HIDE DEF c, l, b, n, k, d
<1>7. Typed(store, n, k, d) /\ Channel(n, k, d)
  BY <1>1, <1>3, <1>6 DEF Sound, Typed, Channel
<1>8. \A i \in DOMAIN b.in : b.in[i].id \in Int
  <2>1. \A i \in DOMAIN b.in : b.in[i] \in Requests
    BY <1>1
  <2> QED
    BY <2>1 DEF Requests
<1>9. InboxOf(n, k, d)
  <2> SUFFICES ASSUME NEW i \in DOMAIN more
               PROVE  /\ more[i].id <= k.id
                      /\ i > 1 => more[i].method = "shutdown"
    BY <1>3, <1>6 DEF InboxOf, Past
  <2>1. CASE i \in DOMAIN b.in /\ more[i] = b.in[i]
    BY <1>1, <1>3, <1>8, <2>1 DEF Sound, InboxOf
  <2>2. CASE more[i] = req
    BY <1>1, <1>3, <1>4, <2>2
  <2> QED
    BY <1>5, <2>1, <2>2
<1>10. AnswersOf(h, store, n, k, d)
  <2>1. \A i \in DOMAIN b.out : b.out[i] \in Lines
    BY <1>1
  <2>2. \A i \in DOMAIN b.out : b.out[i].id \in Int /\ b.out[i].id <= l.id
    BY <1>1, <2>1 DEF Sound, AnswersOf, Lines
  <2> QED
    BY <1>1, <1>3, <1>6, <2>2 DEF AnswersOf
<1>11. Writes(h, store, n, k, d)
  <2>1. \A i \in DOMAIN more : more[i].method = "put" => i \in DOMAIN b.in /\ more[i] = b.in[i]
    BY <1>4, <1>5
  <2> QED
    BY <1>1, <1>3, <1>6, <2>1 DEF Sound, Writes, Believing
<1> QED
  BY <1>1, <1>2, <1>7, <1>9, <1>10, <1>11, StepOffStore DEF Sound

LEMMA InterruptSound ==
  ASSUME BackendInv, NEW h \in Hosts, InterruptCommand(h)
  PROVE  BackendInv'
<1> DEFINE c == cmd[h]  n == [c EXCEPT !.cancelled = TRUE]
<1>1. /\ n \in Commands /\ n.pc = c.pc /\ n.method = c.method /\ n.mem = c.mem
      /\ Sound(h, store, c, client[h], child[h])
  BY Known DEF Commands
<1>2. /\ cmd' = [cmd EXCEPT ![h] = n] /\ client' = [client EXCEPT ![h] = client[h]]
      /\ child' = [child EXCEPT ![h] = child[h]] /\ UNCHANGED <<store, versions>>
  BY Known DEF InterruptCommand
<1> HIDE DEF c, n
<1>3. Sound(h, store, n, client[h], child[h])
  BY <1>1 DEF Sound, Typed, Channel, InboxOf, Past, AnswersOf, Writes, Believing
<1> QED
  BY <1>2, <1>3, StepOffStore

-----------------------------------------------------------------------------
LEMMA HelloSound ==
  ASSUME BackendInv, NEW h \in Hosts, RemoteHello(h)
  PROVE  BackendInv'
<1> DEFINE c == cmd[h]  l == client[h]  b == child[h]
<1>1. /\ b.status = "starting" /\ Sound(h, store, c, l, b)
      /\ c \in Commands /\ l \in Clients /\ b \in Children /\ UNCHANGED <<store, versions>>
      /\ cmd' = [cmd EXCEPT ![h] = c] /\ client' = [client EXCEPT ![h] = l]
  BY Known DEF RemoteHello
<1>2. \E d \in Children : /\ child' = [child EXCEPT ![h] = d] /\ d.in = b.in
                          /\ d.status \in {"serving", "exited"}
                          /\ \A i \in DOMAIN d.out : d.out[i].id = 0
  <2>1. PICK said \in {"hello", "refused", "nothing"} :
         child' = [child EXCEPT ![h] = IF said = "nothing" THEN [b EXCEPT !.status = "exited"]
           ELSE [b EXCEPT !.status = "serving", !.out = <<[id |-> 0, answer |-> said, state |-> Empty]>>]]
    BY DEF RemoteHello
  <2>2. CASE said = "nothing"
    <3> DEFINE d == [b EXCEPT !.status = "exited"]
    <3>1. d \in Children /\ d.in = b.in /\ d.status = "exited" /\ d.out = b.out
      BY <1>1 DEF Children
    <3>2. b.out = <<>>
      BY <1>1 DEF Sound, Channel
    <3>3. child' = [child EXCEPT ![h] = d]
      BY <2>1, <2>2
    <3>4. \A i \in DOMAIN d.out : d.out[i].id = 0
      BY <3>1, <3>2
    <3> HIDE DEF d
    <3> QED
      BY <3>1, <3>3, <3>4
  <2>3. CASE said # "nothing"
    <3> DEFINE line == [id |-> 0, answer |-> said, state |-> Empty]
    <3>1. line \in Lines /\ line.id = 0
      BY <2>3, EmptyTyped DEF Lines, Answers
    <3> DEFINE out == <<line>>
               d == [b EXCEPT !.status = "serving", !.out = out]
    <3>2. child' = [child EXCEPT ![h] = d]
      BY <2>1, <2>3
    <3> HIDE DEF line
    <3>3. out \in Seq(Lines) /\ \A i \in DOMAIN out : out[i] = line
      BY <3>1
    <3> HIDE DEF out
    <3>4. d \in Children /\ d.in = b.in /\ d.status = "serving" /\ d.out = out
      BY <1>1, <3>3 DEF Children
    <3> HIDE DEF d, b
    <3> QED
      BY <3>1, <3>2, <3>3, <3>4
  <2> QED
    BY <2>2, <2>3
<1>3. PICK d \in Children : /\ child' = [child EXCEPT ![h] = d] /\ d.in = b.in
                            /\ d.status \in {"serving", "exited"}
                            /\ \A i \in DOMAIN d.out : d.out[i].id = 0
  BY <1>2
<1>4. c.pc \in {"off", "handshake"} /\ l.id \in Nat
  BY <1>1 DEF Sound, Channel, Clients
<1> HIDE DEF c, l, b
<1>5. Sound(h, store, c, l, d)
  <2>1. Typed(store, c, l, d) /\ Channel(c, l, d)
    BY <1>1, <1>3, <1>4 DEF Sound, Typed, Channel
  <2>2. InboxOf(c, l, d)
    BY <1>1, <1>3, <1>4 DEF Sound, InboxOf
  <2>3. AnswersOf(h, store, c, l, d)
    BY <1>3, <1>4 DEF AnswersOf
  <2>4. Writes(h, store, c, l, d)
    BY <1>1, <1>3 DEF Sound, Writes
  <2> QED
    BY <2>1, <2>2, <2>3, <2>4 DEF Sound
<1> QED
  BY <1>1, <1>3, <1>5, StepOffStore

\* A child that only changes its status, with its input as it was or empty.
LEMMA ChildMovesOn ==
  ASSUME NEW h \in Hosts, NEW s, NEW c, NEW l, NEW b, Sound(h, s, c, l, b), NEW d \in Children,
         d.in = b.in \/ d.in = <<>>, d.out = b.out, b.status # "none",
         d.status \in {"serving", "exited"}
  PROVE  Sound(h, s, c, l, d)
<1>1. Typed(s, c, l, d) /\ Channel(c, l, d)
  BY DEF Sound, Typed, Channel
<1>2. InboxOf(c, l, d)
  BY DEF Sound, InboxOf, Unanswered
<1>3. AnswersOf(h, s, c, l, d)
  BY DEF Sound, AnswersOf
<1>4. Writes(h, s, c, l, d)
  BY DEF Sound, Writes
<1> QED
  BY <1>1, <1>2, <1>3, <1>4 DEF Sound

LEMMA StatusSound ==
  ASSUME BackendInv, NEW h \in Hosts, RemoteEndOfInput(h) \/ RemoteUnblocked(h)
  PROVE  BackendInv'
<1>1. PICK status \in {"serving", "exited"} :
        child' = [child EXCEPT ![h].status = status] /\ child[h].status # "none"
  BY DEF RemoteEndOfInput, RemoteUnblocked
<1> DEFINE d == [child[h] EXCEPT !.status = status]
<1>2. /\ d \in Children /\ d.in = child[h].in /\ d.out = child[h].out /\ d.status = status
      /\ Sound(h, store, cmd[h], client[h], child[h])
  BY Known DEF Children
<1>3. /\ child' = [child EXCEPT ![h] = d] /\ UNCHANGED <<store, versions>>
      /\ cmd' = [cmd EXCEPT ![h] = cmd[h]] /\ client' = [client EXCEPT ![h] = client[h]]
  BY <1>1, Known DEF RemoteEndOfInput, RemoteUnblocked
<1> HIDE DEF d
<1>4. Sound(h, store, cmd[h], client[h], d)
  BY <1>1, <1>2, ChildMovesOn
<1> QED
  BY <1>3, <1>4, StepOffStore


\* A stray line, whose id is none that is waited for.
LEMMA StrayLine ==
  ASSUME NEW h \in Hosts, NEW s, NEW c, NEW l, NEW b, Sound(h, s, c, l, b),
         NEW line \in Lines, line.id < l.id, NEW d \in Children,
         d.in = b.in \/ (d.in = Tail(b.in) /\ b.in # <<>>),
         d.out = Append(b.out, line), b.status = "serving", d.status \in {"serving", "blocked"}
  PROVE  Sound(h, s, c, l, d)
<1>1. /\ Typed(s, c, l, d) /\ Channel(c, l, d)
      /\ b.in \in Seq(Requests) /\ b.out \in Seq(Lines) /\ l.id \in Nat /\ line.id \in Int
  <2>1. /\ b.in \in Seq(Requests) /\ b.out \in Seq(Lines) /\ l.id \in Nat /\ line.id \in Int
    BY DEF Sound, Typed, Children, Clients, Lines
  <2>2. b.in = <<>> => d.in = <<>>
    OBVIOUS
  <2> QED
    BY <2>1, <2>2 DEF Sound, Typed, Channel
<1>2. \A i \in DOMAIN d.out : (i \in DOMAIN b.out /\ d.out[i] = b.out[i]) \/ d.out[i] = line
  BY <1>1, AppendFacts
<1>3. \A i \in DOMAIN d.in :
        \/ i \in DOMAIN b.in /\ d.in[i] = b.in[i]
        \/ i + 1 \in DOMAIN b.in /\ d.in[i] = b.in[i + 1] /\ i + 1 > 1
  <2>1. CASE d.in = b.in
    BY <2>1
  <2>2. CASE d.in = Tail(b.in) /\ b.in # <<>>
    <3>1. \A i \in DOMAIN Tail(b.in) :
            i + 1 \in DOMAIN b.in /\ i + 1 > 1 /\ Tail(b.in)[i] = b.in[i + 1]
      BY <1>1, <2>2, TailFacts
    <3> QED
      BY <2>2, <3>1
  <2> QED
    BY <2>1, <2>2
<1>4. InboxOf(c, l, d)
  <2> SUFFICES ASSUME NEW i \in DOMAIN d.in
               PROVE  /\ d.in[i].id <= l.id
                      /\ i > 1 => d.in[i].method = "shutdown"
                      /\ d.in[i].method = "unlock" => Past(c)
                      /\ d.in[i].method = "shutdown" => c.pc \in {"off", "closing"}
                      /\ c.pc = "wait" => /\ Unanswered(l, d) /\ d.in[i].id = l.id
                                          /\ d.in[i].method = c.method /\ d.in[i].state = c.mem
    BY DEF InboxOf
  <2>1. PICK j \in DOMAIN b.in : d.in[i] = b.in[j] /\ (i > 1 => j > 1)
    BY <1>3
  <2>2. Unanswered(l, b) => Unanswered(l, d)
    BY <1>1, <1>2 DEF Unanswered
  <2> QED
    BY <2>1, <2>2 DEF Sound, InboxOf
<1>5. AnswersOf(h, s, c, l, d)
  <2> SUFFICES ASSUME NEW i \in DOMAIN d.out
               PROVE  /\ d.out[i].id <= l.id
                      /\ c.pc = "wait" /\ d.out[i].id = l.id =>
                           /\ c.method = "lock" /\ d.out[i].answer = "ok" => s.lock = h
                           /\ c.method = "get" /\ d.out[i].answer = "ok" => d.out[i].state = s.state
                           /\ c.method = "put" =>
                                c.mem.serial = IF d.out[i].answer = "ok" THEN s.state.serial ELSE s.state.serial + 1
    BY DEF AnswersOf
  <2>1. CASE i \in DOMAIN b.out /\ d.out[i] = b.out[i]
    BY <2>1 DEF Sound, AnswersOf
  <2>2. CASE d.out[i] = line
    BY <1>1, <2>2
  <2> QED
    BY <1>2, <2>1, <2>2
<1>6. Writes(h, s, c, l, d)
  BY <1>3 DEF Sound, Writes
<1> QED
  BY <1>1, <1>4, <1>5, <1>6 DEF Sound

LEMMA NonsenseTyped == Nonsense \in Lines /\ Nonsense.id = -1
BY EmptyTyped DEF Nonsense, Lines, Answers

LEMMA TooLongSound ==
  ASSUME BackendInv, NEW h \in Hosts, RemoteTooLong(h)
  PROVE  BackendInv'
<1> DEFINE b == child[h]
           d == [b EXCEPT !.status = "blocked", !.in = Tail(@), !.out = Append(@, Nonsense)]
<1>1. /\ b.status = "serving" /\ b.in # <<>> /\ Sound(h, store, cmd[h], client[h], b)
      /\ b \in Children /\ b.in \in Seq(Requests) /\ b.out \in Seq(Lines)
      /\ client[h].id \in Nat
  BY Known DEF RemoteTooLong, Children, Clients
<1>2. /\ child' = [child EXCEPT ![h] = d] /\ UNCHANGED <<store, versions>>
      /\ cmd' = [cmd EXCEPT ![h] = cmd[h]] /\ client' = [client EXCEPT ![h] = client[h]]
  BY Known DEF RemoteTooLong
<1>3. Tail(b.in) \in Seq(Requests) /\ Append(b.out, Nonsense) \in Seq(Lines)
  BY <1>1, NonsenseTyped, TailFacts, AppendFacts
<1>4. /\ d \in Children /\ d.in = Tail(b.in) /\ d.out = Append(b.out, Nonsense)
      /\ d.status = "blocked"
  BY <1>1, <1>3 DEF Children
<1> HIDE DEF d, b
<1>5. Sound(h, store, cmd[h], client[h], d)
  BY <1>1, <1>4, NonsenseTyped, StrayLine
<1> QED
  BY <1>2, <1>5, StepOffStore

LEMMA MisspeakSound ==
  ASSUME BackendInv, NEW h \in Hosts, RemoteMisspeak(h)
  PROVE  BackendInv'
<1> DEFINE b == child[h]
           line == IF client[h].id > 1 /\ cmd[h].pc = "wait"
                   THEN [id |-> client[h].id - 1, answer |-> "ok", state |-> Empty] ELSE Nonsense
           d == [b EXCEPT !.out = Append(@, line)]
<1>1. /\ b.status = "serving" /\ Sound(h, store, cmd[h], client[h], b)
      /\ b \in Children /\ b.in \in Seq(Requests) /\ b.out \in Seq(Lines)
      /\ client[h].id \in Nat
  BY Known DEF RemoteMisspeak, Children, Clients
<1>2. /\ child' = [child EXCEPT ![h] = d] /\ UNCHANGED <<store, versions>>
      /\ cmd' = [cmd EXCEPT ![h] = cmd[h]] /\ client' = [client EXCEPT ![h] = client[h]]
  BY Known DEF RemoteMisspeak
<1>3. line \in Lines /\ line.id < client[h].id
  <2>1. [id |-> client[h].id - 1, answer |-> "ok", state |-> Empty] \in Lines
    BY <1>1, EmptyTyped DEF Lines, Answers
  <2> QED
    BY <1>1, <2>1, NonsenseTyped
<1> HIDE DEF line
<1>4. Append(b.out, line) \in Seq(Lines)
  BY <1>1, <1>3, AppendFacts
<1>5. /\ d \in Children /\ d.in = b.in /\ d.out = Append(b.out, line) /\ d.status = "serving"
  BY <1>1, <1>4 DEF Children
<1> HIDE DEF d, b
<1>6. Sound(h, store, cmd[h], client[h], d)
  BY <1>1, <1>3, <1>5, StrayLine
<1> QED
  BY <1>2, <1>6, StepOffStore


-----------------------------------------------------------------------------
(***************************************************************************)
(* A request carried out: what the store may be afterwards, when it comes  *)
(* from a child whose command has the rest of the invariant.               *)
(***************************************************************************)
Lawful(h, req, t, answer) ==
  /\ t \in [lock : Hosts \cup {Nobody}, state : States] /\ answer \in Answers
  /\ versions \cup {t.state} \subseteq States /\ History(t, versions \cup {t.state})
  /\ \A k \in Hosts \ {h} : (store.lock = k => t = store) /\ (store.lock # k => t.lock # k)
  /\ store.lock = h /\ t.lock # h => req.method = "unlock"
  /\ req.method = "lock" /\ answer = "ok" => t.lock = h
  /\ req.method = "put" /\ store.lock = h =>
       t.state = IF answer = "ok" THEN req.state ELSE store.state

LEMMA Effect ==
  ASSUME BackendInv, NEW h \in Hosts, NEW req \in Requests, req.method # "shutdown",
         req.method = "put" /\ store.lock = h => req.state.serial = store.state.serial + 1
  PROVE  Lawful(h, req, Performed(h, req)[1], Performed(h, req)[2])
<1> DEFINE t == Performed(h, req)[1]  answer == Performed(h, req)[2]
<1>1. /\ store \in [lock : Hosts \cup {Nobody}, state : States] /\ versions \subseteq States
      /\ History(store, versions) /\ req.state \in States /\ req.method \in Methods
      /\ Nobody \notin Hosts
  BY BackendAssumption DEF BackendInv, BackendType, Requests
<1>2. \/ t = store /\ answer \in {"ok", "locked", "not_locked"}
           /\ (req.method = "lock" => answer # "ok") /\ (req.method = "put" => store.lock # h)
      \/ req.method = "lock" /\ store.lock = Nobody /\ t = [store EXCEPT !.lock = h] /\ answer = "ok"
      \/ req.method = "put" /\ store.lock = h /\ t = [store EXCEPT !.state = req.state] /\ answer = "ok"
      \/ req.method = "unlock" /\ store.lock = h /\ t = [store EXCEPT !.lock = Nobody] /\ answer = "ok"
  <2>1. CASE req.method \in {"configure", "get"}
    BY <2>1 DEF Performed
  <2>2. CASE req.method = "lock"
    BY <2>2, <1>1 DEF Performed
  <2>3. CASE req.method = "put"
    BY <2>3 DEF Performed
  <2>4. CASE req.method = "unlock"
    BY <2>4 DEF Performed
  <2> QED
    BY <1>1, <2>1, <2>2, <2>3, <2>4 DEF Methods
<1> HIDE DEF t, answer
<1>3. /\ t \in [lock : Hosts \cup {Nobody}, state : States] /\ answer \in Answers
      /\ \A k \in Hosts \ {h} : (store.lock = k => t = store) /\ (store.lock # k => t.lock # k)
      /\ store.lock = h /\ t.lock # h => req.method = "unlock"
      /\ req.method = "lock" /\ answer = "ok" => t.lock = h
      /\ t.state # store.state => req.method = "put" /\ store.lock = h
      /\ req.method = "put" /\ store.lock = h => answer = "ok" /\ t.state = req.state
  BY <1>1, <1>2 DEF Answers
<1>4. versions \cup {t.state} \subseteq States /\ History(t, versions \cup {t.state})
  <2>1. CASE t.state = store.state
    BY <1>1, <2>1 DEF History
  <2>2. CASE t.state # store.state
    <3>1. t.state \in States /\ t.state.serial = store.state.serial + 1
      BY <1>1, <1>3, <2>2
    <3>2. \A v \in versions : v.serial \in Int /\ v.serial <= store.state.serial
      BY <1>1 DEF History, States
    <3>3. store.state.serial \in Int
      BY <1>1 DEF States
    <3>4. \A v, w \in versions : v.serial = w.serial => v = w
      BY <1>1 DEF History
    <3> QED
      BY <1>1, <3>1, <3>2, <3>3, <3>4 DEF History
  <2> QED
    BY <2>1, <2>2
<1> QED
  BY <1>3, <1>4 DEF Lawful, t, answer


\* What a request at the head of the input says of the command behind it.
LEMMA HeadOfInput ==
  ASSUME NEW h \in Hosts, NEW s, NEW c, NEW l, NEW b, Sound(h, s, c, l, b), b.in # <<>>
  PROVE  LET req == Head(b.in) IN
         /\ req \in Requests /\ req.id <= l.id
         /\ req.method = "unlock" => Past(c)
         /\ c.pc = "wait" =>
              Unanswered(l, b) /\ req.id = l.id /\ req.method = c.method /\ req.state = c.mem
         /\ s.lock = h /\ req.method = "put" => req.state.serial = s.state.serial + 1
         /\ l.closed \/ c.pc \notin {"call", "work"}
         /\ Tail(b.in) \in Seq(Requests)
         /\ \A i \in DOMAIN Tail(b.in) : Tail(b.in)[i].method = "shutdown" /\ Tail(b.in)[i].id <= l.id
         /\ Tail(b.in) # <<>> => c.pc \in {"off", "closing"}
<1>1. b.in \in Seq(Requests)
  BY DEF Sound, Typed, Children
<1>2. /\ Head(b.in) \in Requests /\ Head(b.in) = b.in[1] /\ 1 \in DOMAIN b.in
      /\ Tail(b.in) \in Seq(Requests)
      /\ \A i \in DOMAIN Tail(b.in) : i + 1 \in DOMAIN b.in /\ i + 1 > 1 /\ Tail(b.in)[i] = b.in[i + 1]
  BY <1>1, TailFacts
<1>3. \A i \in DOMAIN Tail(b.in) :
        /\ Tail(b.in)[i].method = "shutdown" /\ Tail(b.in)[i].id <= l.id
        /\ c.pc \in {"off", "closing"}
  BY <1>2 DEF Sound, InboxOf
<1>4. Tail(b.in) # <<>> => 1 \in DOMAIN Tail(b.in)
  BY <1>2, TailFacts
<1> QED
  BY <1>2, <1>3, <1>4 DEF Sound, InboxOf, Writes, Channel

LEMMA Served ==
  ASSUME NEW h \in Hosts, NEW s, NEW c, NEW l, NEW b, Sound(h, s, c, l, b), b.in # <<>>,
         NEW t \in [lock : Hosts \cup {Nobody}, state : States], NEW line \in Lines,
         NEW d \in Children, d.in = Tail(b.in), d.out = Append(b.out, line),
         b.status = "serving", d.status = "serving",
         line.id = Head(b.in).id, line.state = t.state,
         s.lock = h /\ t.lock # h => Head(b.in).method = "unlock",
         Head(b.in).method = "lock" /\ line.answer = "ok" => t.lock = h,
         s.lock = h /\ Head(b.in).method = "put" =>
           t.state = IF line.answer = "ok" THEN Head(b.in).state ELSE s.state
  PROVE  Sound(h, t, c, l, d)
<1> DEFINE req == Head(b.in)
<1>1. /\ req \in Requests /\ req.id <= l.id
      /\ req.method = "unlock" => Past(c)
      /\ c.pc = "wait" =>
           Unanswered(l, b) /\ req.id = l.id /\ req.method = c.method /\ req.state = c.mem
      /\ s.lock = h /\ req.method = "put" => req.state.serial = s.state.serial + 1
      /\ l.closed \/ c.pc \notin {"call", "work"}
      /\ \A i \in DOMAIN d.in : d.in[i].method = "shutdown" /\ d.in[i].id <= l.id
      /\ d.in # <<>> => c.pc \in {"off", "closing"}
  BY HeadOfInput
<1>2. /\ b.out \in Seq(Lines) /\ c \in Commands /\ l \in Clients
      /\ d.in \in Seq(Requests)
  BY DEF Sound, Typed, Children
<1> HIDE DEF req
<1>3. Typed(t, c, l, d) /\ Channel(c, l, d)
  <2>1. c.pc = "handshake" => d.in = <<>>
    BY <1>1
  <2> QED
    BY <1>1, <1>2, <2>1 DEF Sound, Typed, Channel
<1>4. InboxOf(c, l, d)
  <2>1. \A i \in DOMAIN d.in : c.pc \in {"off", "closing"}
    BY <1>1, <1>2
  <2> QED
    BY <1>1, <2>1 DEF InboxOf
<1>5. Believing(c) => s.lock = h /\ t.lock = h
  BY <1>1 DEF Sound, Writes, Believing, Past, req
<1>6. AnswersOf(h, t, c, l, d)
  <2> SUFFICES ASSUME NEW i \in DOMAIN d.out
               PROVE  /\ d.out[i].id <= l.id
                      /\ c.pc = "wait" /\ d.out[i].id = l.id =>
                           /\ c.method = "lock" /\ d.out[i].answer = "ok" => t.lock = h
                           /\ c.method = "get" /\ d.out[i].answer = "ok" => d.out[i].state = t.state
                           /\ c.method = "put" =>
                                c.mem.serial = IF d.out[i].answer = "ok" THEN t.state.serial ELSE t.state.serial + 1
    BY DEF AnswersOf
  <2>1. (i \in DOMAIN b.out /\ d.out[i] = b.out[i]) \/ d.out[i] = line
    BY <1>2, AppendFacts
  <2>2. CASE i \in DOMAIN b.out /\ d.out[i] = b.out[i]
    BY <1>1, <2>2 DEF Sound, AnswersOf, Unanswered
  <2>3. CASE d.out[i] = line
    <3>1. CASE c.pc = "wait" /\ c.method = "put"
      <4>1. s.lock = h /\ req.method = "put" /\ req.state = c.mem
        BY <1>1, <1>5, <3>1 DEF Believing
      <4> QED
        BY <1>1, <2>3, <3>1, <4>1 DEF req
    <3>2. CASE ~(c.pc = "wait" /\ c.method = "put")
      BY <1>1, <2>3, <3>2 DEF req
    <3> QED
      BY <3>1, <3>2
  <2> QED
    BY <2>1, <2>2, <2>3
<1>7. Writes(h, t, c, l, d)
  BY <1>1, <1>5 DEF Writes
<1> QED
  BY <1>3, <1>4, <1>6, <1>7 DEF Sound

LEMMA Died ==
  ASSUME NEW h \in Hosts, NEW s, NEW c, NEW l, NEW b, Sound(h, s, c, l, b),
         NEW t \in [lock : Hosts \cup {Nobody}, state : States],
         NEW d \in Children, d.in = <<>>, d.out = b.out, d.status = "exited", b.status # "none",
         b.in = <<>> => t = s,
         b.in # <<>> /\ s.lock = h /\ t.lock # h => Head(b.in).method = "unlock"
  PROVE  Sound(h, t, c, l, d)
<1>1. CASE b.in = <<>>
  BY <1>1, ChildMovesOn
<1>2. CASE b.in # <<>>
  <2>1. /\ Head(b.in).method = "unlock" => Past(c)
        /\ c.pc = "wait" => Unanswered(l, b)
        /\ l.closed \/ c.pc \notin {"call", "work"}
    BY <1>2, HeadOfInput
  <2>2. Typed(t, c, l, d) /\ Channel(c, l, d) /\ InboxOf(c, l, d)
    BY DEF Sound, Typed, Channel, InboxOf
  <2>3. AnswersOf(h, t, c, l, d)
    BY <2>1 DEF Sound, AnswersOf, Unanswered
  <2>4. Writes(h, t, c, l, d)
    BY <1>2, <2>1 DEF Sound, Writes, Believing, Past
  <2> QED
    BY <2>2, <2>3, <2>4 DEF Sound
<1> QED
  BY <1>1, <1>2


LEMMA ServeSound ==
  ASSUME BackendInv, NEW h \in Hosts, RemoteServe(h)
  PROVE  BackendInv'
<1> DEFINE c == cmd[h]  l == client[h]  b == child[h]  req == Head(child[h].in)
<1>1. /\ b.status = "serving" /\ b.in # <<>> /\ Sound(h, store, c, l, b)
      /\ c \in Commands /\ l \in Clients /\ b \in Children
      /\ store \in [lock : Hosts \cup {Nobody}, state : States]
      /\ b.in \in Seq(Requests) /\ b.out \in Seq(Lines)
      /\ cmd' = [cmd EXCEPT ![h] = c] /\ client' = [client EXCEPT ![h] = l]
  BY Known DEF RemoteServe, Children
<1>2. CASE req.method = "shutdown"
  <2> DEFINE d == [b EXCEPT !.status = "exited", !.in = <<>>]
  <2>1. child' = [child EXCEPT ![h] = d] /\ UNCHANGED <<store, versions>>
    BY <1>2 DEF RemoteServe
  <2>2. d \in Children /\ d.in = <<>> /\ d.out = b.out /\ d.status = "exited"
    BY <1>1, EmptySequence DEF Children
  <2> HIDE DEF d
  <2>3. Sound(h, store, c, l, d)
    BY <1>1, <2>2, ChildMovesOn
  <2> QED
    BY <1>1, <2>1, <2>3, StepOffStore
<1>3. CASE req.method # "shutdown"
  <2> DEFINE made == Performed(h, req)
  <2>1. /\ req \in Requests
        /\ store.lock = h /\ req.method = "put" => req.state.serial = store.state.serial + 1
        /\ Tail(b.in) \in Seq(Requests)
    BY <1>1, HeadOfInput
  <2>2. PICK done \in {made} \cup {<<store, "failed">>} :
          /\ store' = done[1] /\ versions' = versions \cup {done[1].state}
          /\ child' = [child EXCEPT ![h].in = Tail(@), ![h].out = Append(@, Reply(req, done[2], done[1].state))]
    BY <1>3 DEF RemoteServe
  <2> DEFINE t == done[1]  answer == done[2]
  <2>3. Lawful(h, req, t, answer)
    <3>1. CASE done = made
      <4>1. t = Performed(h, req)[1] /\ answer = Performed(h, req)[2]
        BY <3>1
      <4> HIDE DEF req, t, answer, made
      <4> QED
        BY <1>3, <2>1, <4>1, Effect
    <3>2. CASE done = <<store, "failed">>
      <4>1. t = store /\ answer = "failed"
        BY <3>2
      <4>2. History(store, versions) /\ versions \cup {store.state} = versions /\ versions \subseteq States
        BY DEF BackendInv, History
      <4> HIDE DEF t, answer
      <4> QED
        BY <1>1, <4>1, <4>2 DEF Lawful, Answers
    <3> QED
      BY <3>1, <3>2, <2>2
  <2> DEFINE line == Reply(req, answer, t.state)
             d == [b EXCEPT !.in = Tail(@), !.out = Append(@, line)]
  <2> HIDE DEF t, answer
  <2>4. line \in Lines /\ line.id = req.id /\ line.state = t.state /\ line.answer = answer
    BY <2>1, <2>3 DEF Reply, Lines, Requests, Lawful
  <2>5. child' = [child EXCEPT ![h] = d] /\ store' = t /\ versions' = versions \cup {t.state}
    BY <2>2 DEF t, answer
  <2> HIDE DEF line
  <2>6. Append(b.out, line) \in Seq(Lines)
    BY <1>1, <2>4, AppendFacts
  <2>7. d \in Children /\ d.in = Tail(b.in) /\ d.out = Append(b.out, line) /\ d.status = "serving"
    BY <1>1, <2>1, <2>6 DEF Children
  <2> HIDE DEF d
  <2>8. Sound(h, t, c, l, d)
    <3>1. /\ t \in [lock : Hosts \cup {Nobody}, state : States]
          /\ line.id = Head(b.in).id /\ line.state = t.state
          /\ store.lock = h /\ t.lock # h => Head(b.in).method = "unlock"
          /\ Head(b.in).method = "lock" /\ line.answer = "ok" => t.lock = h
          /\ store.lock = h /\ Head(b.in).method = "put" =>
               t.state = IF line.answer = "ok" THEN Head(b.in).state ELSE store.state
      BY <2>3, <2>4 DEF Lawful
    <3> HIDE DEF c, l, b
    <3> QED
      BY <1>1, <2>4, <2>7, <3>1, Served
  <2> QED
    BY <1>1, <2>3, <2>5, <2>8, StepOnStore DEF Lawful
<1> QED
  BY <1>2, <1>3

LEMMA DieSound ==
  ASSUME BackendInv, NEW h \in Hosts, RemoteDie(h)
  PROVE  BackendInv'
<1> DEFINE c == cmd[h]  l == client[h]  b == child[h]  req == Head(child[h].in)
           d == [b EXCEPT !.status = "exited", !.in = <<>>]
<1>1. /\ b.status # "none" /\ Sound(h, store, c, l, b) /\ b \in Children
      /\ store \in [lock : Hosts \cup {Nobody}, state : States]
      /\ cmd' = [cmd EXCEPT ![h] = c] /\ client' = [client EXCEPT ![h] = l]
      /\ child' = [child EXCEPT ![h] = d]
  BY Known DEF RemoteDie
<1>2. PICK t \in {store} \cup (IF b.in = <<>> \/ req.method = "shutdown" THEN {} ELSE {Performed(h, req)[1]}) :
        store' = t /\ versions' = versions \cup {t.state}
  BY DEF RemoteDie
<1>3. /\ t \in [lock : Hosts \cup {Nobody}, state : States]
      /\ versions \cup {t.state} \subseteq States /\ History(t, versions \cup {t.state})
      /\ \A k \in Hosts \ {h} : (store.lock = k => t = store) /\ (store.lock # k => t.lock # k)
      /\ store.lock = h /\ t.lock # h => req.method = "unlock"
      /\ b.in = <<>> => t = store
  <2>1. CASE t = store
    <3>1. History(store, versions) /\ versions \cup {store.state} = versions /\ versions \subseteq States
      BY DEF BackendInv, History
    <3> QED
      BY <1>1, <2>1, <3>1
  <2>2. CASE b.in # <<>> /\ req.method # "shutdown" /\ t = Performed(h, req)[1]
    <3>1. /\ req \in Requests
          /\ store.lock = h /\ req.method = "put" => req.state.serial = store.state.serial + 1
      BY <1>1, <2>2, HeadOfInput
    <3>2. Lawful(h, req, Performed(h, req)[1], Performed(h, req)[2])
      BY <2>2, <3>1, Effect
    <3> QED
      BY <2>2, <3>2 DEF Lawful
  <2> QED
    BY <1>2, <2>1, <2>2
<1>4. d \in Children /\ d.in = <<>> /\ d.out = b.out /\ d.status = "exited"
  BY <1>1, EmptySequence DEF Children
<1> HIDE DEF d
<1>5. Sound(h, t, c, l, d)
  BY <1>1, <1>3, <1>4, Died
<1> QED
  BY <1>1, <1>2, <1>3, <1>5, StepOnStore

LEMMA ForceUnlockSound ==
  ASSUME BackendInv, ForceUnlock
  PROVE  BackendInv'
<1> DEFINE h == store.lock  t == [store EXCEPT !.lock = Nobody]
<1>1. /\ h \in Hosts /\ Nobody \notin Hosts /\ cmd[h].pc = "off"
      /\ store \in [lock : Hosts \cup {Nobody}, state : States]
  BY BackendAssumption DEF ForceUnlock, BackendInv, BackendType
<1>2. /\ store' = t /\ t.lock = Nobody /\ t.state = store.state
      /\ t \in [lock : Hosts \cup {Nobody}, state : States]
      /\ versions' \subseteq States /\ History(t, versions')
  BY <1>1 DEF ForceUnlock, BackendInv, History
<1>3. /\ Sound(h, store, cmd[h], client[h], child[h])
      /\ cmd' = [cmd EXCEPT ![h] = cmd[h]] /\ client' = [client EXCEPT ![h] = client[h]]
      /\ child' = [child EXCEPT ![h] = child[h]]
  BY <1>1, Known DEF ForceUnlock
<1> HIDE DEF t
<1>4. Sound(h, t, cmd[h], client[h], child[h])
  BY <1>1, <1>2, <1>3 DEF Sound, Typed, AnswersOf, Writes, Believing
<1>5. \A k \in Hosts \ {h} : (store.lock = k => t = store) /\ (store.lock # k => t.lock # k)
  BY <1>1, <1>2
<1> QED
  BY <1>1, <1>2, <1>3, <1>4, <1>5, StepOnStore

-----------------------------------------------------------------------------
LEMMA BackendInvInit == BackendInit => BackendInv
<1> SUFFICES ASSUME BackendInit PROVE BackendInv
  OBVIOUS
<1>1. /\ Empty \in States /\ Off \in Commands /\ Off.pc = "off" /\ NoClient \in Clients
      /\ NoChild \in Children /\ NoChild.in = <<>> /\ NoChild.out = <<>> /\ NoChild.status = "none"
  BY EmptyTyped, EmptySequence DEF Off, Commands, NoClient, Clients, NoChild, Children
<1>2. store \in [lock : Hosts \cup {Nobody}, state : States] /\ store.state = Empty
  BY <1>1 DEF BackendInit
<1>3. ASSUME NEW h \in Hosts
      PROVE  Sound(h, store, Off, NoClient, NoChild)
  BY <1>1, <1>2 DEF Sound, Typed, Channel, InboxOf, AnswersOf, Writes, Believing
<1>4. History(store, versions)
  BY <1>1, <1>2 DEF BackendInit, History, States
<1> QED
  BY <1>1, <1>2, <1>3, <1>4 DEF BackendInit, BackendInv, BackendType

LEMMA BackendInvStep == BackendInv /\ [BackendNext]_backendVars => BackendInv'
<1> SUFFICES ASSUME BackendInv, [BackendNext]_backendVars PROVE BackendInv'
  OBVIOUS
<1>1. CASE UNCHANGED backendVars
  BY <1>1 DEF backendVars, BackendInv, BackendType
<1>2. ASSUME NEW h \in Hosts, StartCommand(h) PROVE BackendInv'
  BY <1>2, StartSound
<1>3. ASSUME NEW h \in Hosts, CommandStep(h) PROVE BackendInv'
  BY <1>3, GreetingSound, LeaveSound, WorkSound, AskSound, TakeReplySound, NoReplySound, CloseSound
     DEF CommandStep
<1>4. ASSUME NEW h \in Hosts, RemoteStep(h) PROVE BackendInv'
  BY <1>4, HelloSound, ServeSound, StatusSound DEF RemoteStep
<1>5. ASSUME NEW h \in Hosts,
             InterruptCommand(h) \/ KillCommand(h) \/ RemoteTooLong(h) \/ RemoteDie(h) \/ RemoteMisspeak(h)
      PROVE  BackendInv'
  BY <1>5, InterruptSound, LeaveSound, TooLongSound, DieSound, MisspeakSound
<1>6. CASE ForceUnlock
  BY <1>6, ForceUnlockSound
<1> QED
  BY <1>1, <1>2, <1>3, <1>4, <1>5, <1>6 DEF BackendNext

(***************************************************************************)
(* For any number of commands, writes and mishaps: a command whose lock    *)
(* was answered holds it, and a serial names one state, whatever answers   *)
(* are lost, repeated or late on the way (host.go call, Put).              *)
(***************************************************************************)
THEOREM RemoteStateStaysSound == BackendSpec => []RemoteStateIsSound
<1>1. BackendInv => RemoteStateIsSound
  <2> SUFFICES ASSUME BackendInv PROVE RemoteStateIsSound
    OBVIOUS
  <2>1. RemoteHolderIsAlone
    <3> SUFFICES ASSUME NEW h \in Hosts, Believes(h) PROVE store.lock = h
      BY DEF RemoteHolderIsAlone
    <3>1. Sound(h, store, cmd[h], client[h], child[h])
      BY Known
    <3> QED
      BY <3>1 DEF Believes, Believing, Sound, Writes
  <2>2. SerialNamesOneState
    BY DEF BackendInv, History, SerialNamesOneState
  <2> QED
    BY <2>1, <2>2 DEF RemoteStateIsSound
<1> QED
  BY <1>1, BackendInvInit, BackendInvStep, PTL DEF BackendSpec

-----------------------------------------------------------------------------
(***************************************************************************)
(* The plugin: what is known of one worker w, with the goroutine c of its  *)
(* call, from the two pipes, the requests the plugin has taken (held), the *)
(* calls awaited and the changes made for it.                              *)
(***************************************************************************)
CallStates == {"idle", "ready", "registered", "waiting", "backoff", "done"}
Outcome == {"ok", "safe", "conditional", "unsafe", "absent", "undeclared"}
CallAnswers == Outcome \cup {NoAnswer, "broken", "lost", "failed", "hello"} \cup RefusedHello
Calls == [pc : CallStates, id : Nat, attempt : Nat, answer : CallAnswers, cancelled : BOOLEAN]
Asked == {r \in [id : Nat, from : Callers \cup {"cancel", "shutdown"}] : r.from # "cancel" => r.id # 0}
Taken == [id : Nat \ {0}, from : Callers]
Said == [id : Int, answer : Outcome \cup {"hello"} \cup RefusedHello]
Plugs == [status : {"absent", "starting", "serving", "stopping", "exited"}, eof : BOOLEAN,
          inflight : SUBSET Taken, configured : BOOLEAN]

PluginType ==
  /\ verb \in [Workers -> Verbs]
  /\ plug \in Plugs /\ stdin \in Seq(Asked) /\ stdout \in Seq(Said)
  /\ pending \subseteq Nat \ {0} /\ closed \in BOOLEAN /\ nextID \in Nat
  /\ call \in [Callers -> Calls] /\ effects \in [Workers -> Nat]

\* An id names one call, and only a call that waits has a request on its way.
Addressed(calls, in, held, out, awaited, last) ==
  /\ \A c \in Callers : calls[c].id <= last
  /\ \A c \in Callers : calls[c].pc \notin {"registered", "waiting"} => calls[c].id = 0
  /\ \A c \in Callers : calls[c].pc = "registered" => calls[c].id # 0
  /\ \A c, e \in Callers : calls[c].id = calls[e].id => c = e \/ calls[c].id = 0
  /\ \A i \in DOMAIN in : in[i].id <= last
  /\ \A r \in held : r.id <= last
  /\ \A i \in DOMAIN out : out[i].id <= last /\ (out[i].answer = "safe" => out[i].id # 0)
  /\ \A id \in awaited : id <= last
  /\ \A i \in DOMAIN in, c \in Callers :
       in[i].from \in Callers /\ in[i].id = calls[c].id => in[i].from = c /\ calls[c].pc = "waiting"
  /\ \A i \in DOMAIN in, c \in Callers : in[i].from = "shutdown" => in[i].id # calls[c].id
  /\ \A r \in held, c \in Callers : r.id = calls[c].id => r.from = c /\ calls[c].pc = "waiting"

NoneLive(w, in, held) == (\A i \in DOMAIN in : in[i].from # w) /\ (\A r \in held : r.from # w)

OneLive(w, in, held) ==
  /\ \A i, j \in DOMAIN in : in[i].from = w /\ in[j].from = w => i = j
  /\ \A r, q \in held : r.from = w /\ q.from = w => r = q
  /\ \A i \in DOMAIN in, r \in held : ~(in[i].from = w /\ r.from = w)

Fresh(w, in, held, made) == NoneLive(w, in, held) /\ made = 0

(***************************************************************************)
(* A change to be made once: one request is live, and nothing made before  *)
(* it; until the call is made, when it is to be made again, and where it   *)
(* is known to be harmless, there is none and nothing made.                *)
(***************************************************************************)
Once(w, c, in, held, out, made) ==
  /\ made \in {0, 1}
  /\ OneLive(w, in, held)
  /\ NoneLive(w, in, held) \/ made = 0
  /\ c.pc \in {"idle", "ready", "registered", "backoff"} => Fresh(w, in, held, made)
  /\ c.answer = "safe" => c.pc = "waiting" /\ Fresh(w, in, held, made)
  /\ \A i \in DOMAIN out :
       out[i].id = c.id /\ out[i].answer = "safe" => c.pc = "waiting" /\ Fresh(w, in, held, made)

(***************************************************************************)
(* The first answer to a call that is awaited is the plugin's own; what is *)
(* said twice comes after it.                                              *)
(***************************************************************************)
Told(c, out, awaited, made) ==
  /\ c.answer = "ok" => made > 0
  /\ \A i \in DOMAIN out :
       /\ c.id \in awaited /\ out[i].id = c.id /\ out[i].answer = "ok"
       /\ \A j \in DOMAIN out : j < i => out[j].id # c.id
       => made > 0

HostInv ==
  /\ reader = "draining" => closed
  /\ closed => pending = {}
  /\ host \in {"asked", "handshake", "schemas", "loaded", "configuring"} => \A w \in Workers : call[w] = Idle

PluginInv ==
  /\ PluginType /\ HostInv
  /\ Addressed(call, stdin, plug.inflight, stdout, pending, nextID)
  /\ \A w \in Workers :
       /\ verb[w] \in {"create", "delete"} => Once(w, call[w], stdin, plug.inflight, stdout, effects[w])
       /\ verb[w] \in Mutating => Told(call[w], stdout, pending, effects[w])

-----------------------------------------------------------------------------
LEMMA TypeKnown ==
  ASSUME PluginInv
  PROVE  /\ plug.inflight \subseteq Taken /\ plug.status \in {"absent", "starting", "serving", "stopping", "exited"}
         /\ plug.eof \in BOOLEAN /\ plug.configured \in BOOLEAN
         /\ \A i \in DOMAIN stdin : /\ stdin[i] \in Asked /\ stdin[i].id \in Nat
                                    /\ stdin[i].from # "cancel" => stdin[i].id # 0
         /\ \A i \in DOMAIN stdout : stdout[i] \in Said /\ stdout[i].id \in Int
         /\ \A r \in plug.inflight : r \in Taken /\ r.id \in Nat \ {0} /\ r.from \in Callers
         /\ \A c \in Callers : call[c] \in Calls /\ call[c].id \in Nat
         /\ Idle \in Calls /\ Idle.id = 0 /\ Idle.pc = "idle" /\ Idle.answer = NoAnswer
         /\ NoAnswer = "none"
<1>1. /\ plug \in Plugs /\ stdin \in Seq(Asked) /\ stdout \in Seq(Said) /\ call \in [Callers -> Calls]
  BY DEF PluginInv, PluginType
<1>2. /\ plug.inflight \subseteq Taken /\ plug.status \in {"absent", "starting", "serving", "stopping", "exited"}
      /\ plug.eof \in BOOLEAN /\ plug.configured \in BOOLEAN
  BY <1>1 DEF Plugs
<1>3. \A i \in DOMAIN stdin : stdin[i] \in Asked
  BY <1>1
<1>4. \A i \in DOMAIN stdout : stdout[i] \in Said
  BY <1>1
<1>5. Idle \in Calls /\ Idle.id = 0 /\ Idle.pc = "idle" /\ Idle.answer = NoAnswer /\ NoAnswer = "none"
  BY DEF Idle, Calls, CallStates, CallAnswers, NoAnswer
<1> QED
  BY <1>1, <1>2, <1>3, <1>4, <1>5 DEF Asked, Said, Taken, Calls

\* Ids keep naming one call when calls end and messages come out of what was there.
LEMMA AddressesKept ==
  ASSUME NEW calls, NEW in, NEW held, NEW out, NEW awaited, NEW last \in Nat,
         Addressed(calls, in, held, out, awaited, last),
         NEW calls2, NEW in2, NEW held2, NEW out2, NEW awaited2,
         \A i \in DOMAIN in : in[i].from # "cancel" => in[i].id # 0,
         \A r \in held : r.id # 0,
         "cancel" \notin Callers,
         \A c \in Callers : \/ /\ calls2[c].id = calls[c].id
                               /\ calls2[c].pc = calls[c].pc
                                    \/ (calls[c].pc = "registered" /\ calls2[c].pc = "waiting")
                            \/ calls2[c].id = 0 /\ calls2[c].pc # "registered",
         \A i \in DOMAIN in2 : \E j \in DOMAIN in : in2[i] = in[j],
         \A r \in held2 : r \in held \/ (\E j \in DOMAIN in : r = in[j] /\ r.from \in Callers),
         \A i \in DOMAIN out2 : out2[i].id <= last /\ (out2[i].answer = "safe" => out2[i].id # 0),
         awaited2 \subseteq awaited
  PROVE  Addressed(calls2, in2, held2, out2, awaited2, last)
<1>1. \A c \in Callers : calls2[c].id <= last
  BY DEF Addressed
<1>2. \A c \in Callers : calls2[c].pc \notin {"registered", "waiting"} => calls2[c].id = 0
  BY DEF Addressed
<1>0. \A c \in Callers : calls2[c].pc = "registered" => calls2[c].id # 0
  BY DEF Addressed
<1>3. \A c, e \in Callers : calls2[c].id = calls2[e].id => c = e \/ calls2[c].id = 0
  BY DEF Addressed
<1>4. \A i \in DOMAIN in2 : in2[i].id <= last
  BY DEF Addressed
<1>5. \A r \in held2 : r.id <= last
  BY DEF Addressed
<1>6. \A i \in DOMAIN in2, c \in Callers :
        in2[i].from \in Callers /\ in2[i].id = calls2[c].id => in2[i].from = c /\ calls2[c].pc = "waiting"
  BY DEF Addressed
<1>7. \A i \in DOMAIN in2, c \in Callers : in2[i].from = "shutdown" => in2[i].id # calls2[c].id
  BY DEF Addressed
<1>8. \A r \in held2, c \in Callers : r.id = calls2[c].id => r.from = c /\ calls2[c].pc = "waiting"
  BY DEF Addressed
<1>9. \A id \in awaited2 : id <= last
  BY DEF Addressed
<1> QED
  BY <1>0, <1>1, <1>2, <1>3, <1>4, <1>5, <1>6, <1>7, <1>8, <1>9 DEF Addressed

LEMMA OnceKept ==
  ASSUME NEW w, NEW c, NEW in, NEW held, NEW out, NEW made, Once(w, c, in, held, out, made),
         NEW d, NEW in2, NEW held2, NEW out2,
         OneLive(w, in, held) => OneLive(w, in2, held2),
         NoneLive(w, in, held) => NoneLive(w, in2, held2),
         d.pc \in {"idle", "ready", "registered", "backoff"} =>
           c.pc \in {"idle", "ready", "registered", "backoff"} \/ c.answer = "safe",
         d.answer = "safe" => d.pc = c.pc /\
           (c.answer = "safe" \/ \E j \in DOMAIN out : out[j].id = c.id /\ out[j].answer = "safe"),
         \A i \in DOMAIN out2 : out2[i].answer = "safe" /\ out2[i].id = d.id =>
           /\ d.id = c.id /\ d.pc = c.pc
           /\ \E j \in DOMAIN out : out2[i] = out[j]
  PROVE  Once(w, d, in2, held2, out2, made)
<1>1. Fresh(w, in, held, made) => Fresh(w, in2, held2, made)
  BY DEF Fresh
<1>2. d.answer = "safe" => d.pc = "waiting" /\ Fresh(w, in, held, made)
  BY DEF Once
<1>3. \A i \in DOMAIN out2 :
       out2[i].id = d.id /\ out2[i].answer = "safe" => d.pc = "waiting" /\ Fresh(w, in, held, made)
  BY DEF Once
<1>4. d.pc \in {"idle", "ready", "registered", "backoff"} => Fresh(w, in, held, made)
  BY DEF Once
<1>5. OneLive(w, in2, held2) /\ made \in {0, 1} /\ (NoneLive(w, in2, held2) \/ made = 0)
  BY DEF Once
<1> QED
  BY <1>1, <1>2, <1>3, <1>4, <1>5 DEF Once


LEMMA ToldByTheRest ==
  ASSUME NEW c, NEW out \in Seq(Said), out # <<>>, NEW awaited, NEW made, Told(c, out, awaited, made),
         NEW d, d.id = c.id, NEW awaited2 \in SUBSET awaited,
         Head(out).id = c.id => c.id \notin awaited2,
         d.answer = "ok" =>
           c.answer = "ok" \/ (c.id \in awaited /\ Head(out).id = c.id /\ Head(out).answer = "ok")
  PROVE  Told(d, Tail(out), awaited2, made)
<1>1. /\ Head(out) = out[1] /\ 1 \in DOMAIN out
      /\ \A i \in DOMAIN Tail(out) : i \in Nat /\ i + 1 \in DOMAIN out /\ i + 1 > 1 /\ Tail(out)[i] = out[i + 1]
  BY TailFacts
<1>2. \A j \in DOMAIN out : j \in Nat /\ (j = 1 \/ j - 1 \in DOMAIN Tail(out))
  OBVIOUS
<1>3. d.answer = "ok" => made > 0
  <2>1. ASSUME c.id \in awaited, Head(out).id = c.id, Head(out).answer = "ok"
        PROVE  made > 0
    <3>1. \A j \in DOMAIN out : ~(j < 1)
      BY <1>2
    <3> QED
      BY <1>1, <2>1, <3>1 DEF Told
  <2> QED
    BY <2>1 DEF Told
<1>4. ASSUME NEW i \in DOMAIN Tail(out), d.id \in awaited2, Tail(out)[i].id = d.id,
             Tail(out)[i].answer = "ok", \A j \in DOMAIN Tail(out) : j < i => Tail(out)[j].id # d.id
      PROVE  made > 0
  <2>1. /\ i + 1 \in DOMAIN out /\ out[i + 1].id = c.id /\ out[i + 1].answer = "ok" /\ c.id \in awaited
        /\ i \in Nat
    BY <1>1, <1>4
  <2>2. ASSUME NEW j \in DOMAIN out, j < i + 1
        PROVE  out[j].id # c.id
    <3>1. CASE j = 1
      BY <1>1, <1>4, <3>1
    <3>2. CASE j # 1
      <4>1. j - 1 \in DOMAIN Tail(out) /\ j - 1 < i /\ j \in Nat
        BY <1>2, <2>1, <2>2, <3>2
      <4>2. Tail(out)[j - 1] = out[j]
        BY <1>1, <4>1
      <4> QED
        BY <1>4, <4>1, <4>2
    <3> QED
      BY <3>1, <3>2
  <2> QED
    BY <2>1, <2>2 DEF Told
<1> QED
  BY <1>3, <1>4 DEF Told

LEMMA ToldOneMore ==
  ASSUME NEW c, NEW out \in Seq(Said), NEW line \in Said, NEW awaited,
         NEW made \in Nat, NEW made2 \in Nat, Told(c, out, awaited, made), made2 >= made,
         line.answer = "ok" /\ line.id = c.id /\ c.id \in awaited =>
           made2 > 0 \/ \E j \in DOMAIN out : out[j].id = c.id
  PROVE  Told(c, Append(out, line), awaited, made2)
<1> DEFINE more == Append(out, line)
<1>1. /\ DOMAIN out \subseteq DOMAIN more /\ \A j \in DOMAIN out : more[j] = out[j] /\ j <= Len(out)
      /\ Len(out) \in Nat
      /\ \A i \in DOMAIN more : (i \in DOMAIN out /\ more[i] = out[i]) \/ (more[i] = line /\ i = Len(out) + 1)
  OBVIOUS
<1> HIDE DEF more
<1>2. ASSUME NEW i \in DOMAIN more, c.id \in awaited, more[i].id = c.id, more[i].answer = "ok",
             \A j \in DOMAIN more : j < i => more[j].id # c.id
      PROVE  made2 > 0
  <2>1. CASE i \in DOMAIN out /\ more[i] = out[i]
    <3>1. \A j \in DOMAIN out : j < i => out[j].id # c.id
      BY <1>1, <1>2
    <3>2. made > 0
      BY <1>2, <2>1, <3>1 DEF Told
    <3> QED
      BY <3>2
  <2>2. CASE more[i] = line /\ i = Len(out) + 1
    <3>1. \A j \in DOMAIN out : out[j].id # c.id
      <4>1. \A j \in DOMAIN out : j \in Int /\ j < Len(out) + 1
        BY <1>1
      <4> QED
        BY <1>1, <1>2, <2>2, <4>1
    <3> QED
      BY <1>2, <2>2, <3>1
  <2> QED
    BY <1>1, <2>1, <2>2
<1>3. c.answer = "ok" => made2 > 0
  BY DEF Told
<1> QED
  BY <1>2, <1>3 DEF Told, more

-----------------------------------------------------------------------------
\* What a step has to be shown to keep.
LEMMA Assembled ==
  ASSUME PluginInv, PluginType', HostInv', verb' = verb,
         Addressed(call', stdin', plug'.inflight, stdout', pending', nextID'),
         \A w \in Workers : verb[w] \in {"create", "delete"} =>
           Once(w, call'[w], stdin', plug'.inflight, stdout', effects'[w]),
         \A w \in Workers : verb[w] \in Mutating => Told(call'[w], stdout', pending', effects'[w])
  PROVE  PluginInv'
BY DEF PluginInv

\* Steps of the host and the plugin that leave calls, pipes and requests alone.
LEMMA SameMessages ==
  ASSUME PluginInv, plug' \in Plugs, plug'.inflight = plug.inflight, HostInv',
         UNCHANGED <<verb, stdin, stdout, pending, closed, nextID, call, effects>>
  PROVE  PluginInv'
<1>1. PluginType'
  BY DEF PluginInv, PluginType
<1> QED
  BY <1>1, Assembled DEF PluginInv

LEMMA PlugStatus ==
  ASSUME PluginInv, NEW status \in {"starting", "serving", "stopping", "exited"}
  PROVE  /\ [plug EXCEPT !.status = status] \in Plugs
         /\ [plug EXCEPT !.status = status].inflight = plug.inflight
BY DEF PluginInv, PluginType, Plugs

LEMMA MovesOn ==
  ASSUME PluginInv, Open \/ Finish \/ EndOfInput \/ Exit \/ UNCHANGED pluginClientVars
  PROVE  PluginInv'
<1>1. plug \in Plugs /\ HostInv
  BY DEF PluginInv, PluginType
<1>2. CASE Open
  <2>1. /\ plug' = plug \/ plug' = [plug EXCEPT !.status = "starting"]
        /\ UNCHANGED <<reader, pending, closed, nextID, call, stdin, stdout, effects, verb>>
        /\ host = "asked"
    BY <1>2 DEF Open, quasiConstants
  <2>2. HostInv'
    BY <1>1, <2>1 DEF HostInv
  <2> QED
    BY <1>1, <2>1, <2>2, PlugStatus, SameMessages
<1>3. CASE Finish
  <2>1. UNCHANGED <<reader, pending, closed, nextID, call, plug, stdin, stdout, effects, verb>> /\ host' = "finished"
    BY <1>3 DEF Finish, quasiConstants, pluginVars
  <2>2. HostInv'
    BY <1>1, <2>1 DEF HostInv
  <2> QED
    BY <1>1, <2>1, <2>2, SameMessages
<1>4. CASE EndOfInput \/ Exit
  <2>1. /\ plug' = [plug EXCEPT !.status = "stopping"] \/ plug' = [plug EXCEPT !.status = "exited"]
        /\ UNCHANGED <<host, reader, pending, closed, nextID, call, stdin, stdout, effects, verb>>
    BY <1>4 DEF EndOfInput, Exit, hostVars, quasiConstants
  <2>2. HostInv'
    BY <1>1, <2>1 DEF HostInv
  <2> QED
    BY <1>1, <2>1, <2>2, PlugStatus, SameMessages
<1>5. CASE UNCHANGED pluginClientVars
  <2>1. UNCHANGED <<host, reader, pending, closed, nextID, call, plug, stdin, stdout, effects, verb>>
    BY <1>5 DEF pluginClientVars, hostVars, pluginVars, quasiConstants
  <2>2. HostInv'
    BY <1>1, <2>1 DEF HostInv
  <2> QED
    BY <1>1, <2>1, <2>2, SameMessages
<1> QED
  BY <1>2, <1>3, <1>4, <1>5

(***************************************************************************)
(* Steps on calls alone: some are over, or not yet made, and have no id.   *)
(***************************************************************************)
LEMMA CallsMoveOn ==
  ASSUME PluginInv, HostInv', call' \in [Callers -> Calls],
         UNCHANGED <<verb, plug, stdin, stdout, pending, closed, nextID, effects>>,
         \A c \in Callers : call'[c] = call[c] \/
           (call'[c].id = 0 /\ call'[c].answer # "safe" /\ call'[c].pc # "registered"),
         \A w \in Workers : call'[w] = call[w] \/
           /\ call'[w].pc \in {"idle", "ready", "registered", "backoff"} =>
                \/ call[w].pc \in {"idle", "ready", "registered", "backoff"}
                \/ call[w].answer = "safe" \/ verb[w] \notin {"create", "delete"}
           /\ call'[w].answer = "ok" => call[w].answer = "ok" \/ verb[w] \notin Mutating
  PROVE  PluginInv'
<1>1. PluginType'
  BY DEF PluginInv, PluginType
<1>2. /\ \A i \in DOMAIN stdin : stdin[i].from # "cancel" => stdin[i].id # 0
      /\ \A r \in plug.inflight : r.id # 0
      /\ "cancel" \notin Callers
  BY TypeKnown, PluginAssumption DEF Callers, Main
<1>3. /\ nextID \in Nat /\ Addressed(call, stdin, plug.inflight, stdout, pending, nextID)
      /\ pending \subseteq Nat \ {0}
  BY DEF PluginInv, PluginType
<1>4. Addressed(call', stdin, plug.inflight, stdout, pending, nextID)
  <2>1. \A i \in DOMAIN stdout : stdout[i].id <= nextID /\ (stdout[i].answer = "safe" => stdout[i].id # 0)
    BY <1>3 DEF Addressed
  <2> QED
    BY <1>2, <1>3, <2>1, AddressesKept
<1>5. ASSUME NEW w \in Workers, verb[w] \in {"create", "delete"}
      PROVE  Once(w, call'[w], stdin, plug.inflight, stdout, effects[w])
  <2>1. Once(w, call[w], stdin, plug.inflight, stdout, effects[w])
    BY <1>5 DEF PluginInv
  <2>2. CASE call'[w] = call[w]
    BY <2>1, <2>2
  <2>3. CASE call'[w] # call[w]
    <3>1. call'[w].id = 0 /\ call'[w].answer # "safe"
      BY <2>3 DEF Callers
    <3>2. \A i \in DOMAIN stdout : stdout[i].answer = "safe" => stdout[i].id # 0
      BY <1>3 DEF Addressed
    <3> QED
      BY <1>5, <2>1, <2>3, <3>1, <3>2, OnceKept
  <2> QED
    BY <2>2, <2>3
<1>6. ASSUME NEW w \in Workers, verb[w] \in Mutating
      PROVE  Told(call'[w], stdout, pending, effects[w])
  <2>1. Told(call[w], stdout, pending, effects[w])
    BY <1>6 DEF PluginInv
  <2>2. CASE call'[w] = call[w]
    BY <2>1, <2>2
  <2>3. CASE call'[w] # call[w]
    <3>1. call'[w].id = 0
      BY <2>3 DEF Callers
    <3> QED
      BY <1>3, <1>6, <2>1, <2>3, <3>1 DEF Told
  <2> QED
    BY <2>2, <2>3
<1> QED
  BY <1>1, <1>4, <1>5, <1>6, Assembled


LEMMA IdleCall ==
  /\ Idle \in Calls /\ Idle.id = 0 /\ Idle.pc = "idle" /\ Idle.answer = NoAnswer
  /\ NoAnswer = "none"
BY DEF Idle, Calls, CallStates, CallAnswers, NoAnswer

LEMMA ReadyCall ==
  ASSUME NEW attempt \in Nat
  PROVE  /\ Ready(attempt) \in Calls /\ Ready(attempt).id = 0 /\ Ready(attempt).pc = "ready"
         /\ Ready(attempt).answer = "none"
BY IdleCall DEF Ready, Calls, CallStates

LEMMA OverCall ==
  ASSUME NEW answer \in {"ok", "lost", "failed"}
  PROVE  /\ [Idle EXCEPT !.pc = "done", !.answer = answer] \in Calls
         /\ [Idle EXCEPT !.pc = "done", !.answer = answer].id = 0
         /\ [Idle EXCEPT !.pc = "done", !.answer = answer].pc = "done"
         /\ [Idle EXCEPT !.pc = "done", !.answer = answer].answer = answer
BY IdleCall DEF Calls, CallStates, CallAnswers, Outcome

LEMMA BackoffCall ==
  ASSUME NEW attempt \in Nat
  PROVE  /\ [Idle EXCEPT !.pc = "backoff", !.attempt = attempt] \in Calls
         /\ [Idle EXCEPT !.pc = "backoff", !.attempt = attempt].id = 0
         /\ [Idle EXCEPT !.pc = "backoff", !.attempt = attempt].pc = "backoff"
         /\ [Idle EXCEPT !.pc = "backoff", !.attempt = attempt].answer = "none"
BY IdleCall DEF Calls, CallStates

LEMMA NoCall ==
  /\ [Idle EXCEPT !.pc = "done"] \in Calls /\ [Idle EXCEPT !.pc = "done"].id = 0
  /\ [Idle EXCEPT !.pc = "done"].pc = "done" /\ [Idle EXCEPT !.pc = "done"].answer = "none"
BY IdleCall DEF Calls, CallStates

LEMMA LoadingMovesOn ==
  ASSUME PluginInv, Schemas \/ Configure \/ Configured
  PROVE  PluginInv'
<1>1. /\ call \in [Callers -> Calls] /\ verb \in [Workers -> Verbs] /\ HostInv
      /\ Main \notin Workers /\ Callers = Workers \cup {Main}
  BY PluginAssumption DEF PluginInv, PluginType, Main, Callers
<1>2. UNCHANGED <<verb, plug, stdin, stdout, pending, closed, nextID, effects, reader>>
  BY DEF Schemas, Configure, Configured, quasiConstants, pluginVars
<1>3. CASE Schemas \/ Configure
  <2>1. /\ call' = [call EXCEPT ![Main] = Idle] \/ call' = [call EXCEPT ![Main] = Ready(1)]
        /\ host \in {"schemas", "loaded"}
    BY <1>3 DEF Schemas, Configure
  <2>2. call' \in [Callers -> Calls] /\ \A w \in Workers : call'[w] = call[w]
    BY <1>1, <2>1, IdleCall, ReadyCall, NoCall
  <2>3. call'[Main].id = 0 /\ call'[Main].answer # "safe" /\ call'[Main].pc # "registered"
    BY <1>1, <2>1, IdleCall, ReadyCall, NoCall
  <2>4. HostInv'
    BY <1>1, <1>2, <2>1, <2>2 DEF HostInv
  <2>5. \A c \in Callers : call'[c] = call[c] \/ (call'[c].id = 0 /\ call'[c].answer # "safe" /\ call'[c].pc # "registered")
    BY <1>1, <2>2, <2>3
  <2> QED
    BY <1>2, <2>2, <2>4, <2>5, CallsMoveOn
<1>4. CASE Configured
  <2>1. /\ host = "configuring" /\ host' \in {"working", "finished"}
        /\ call' = [c \in Callers |->
               IF c = Main \/ host' = "finished" THEN Idle
               ELSE IF verb[c] = "nothing" THEN [Idle EXCEPT !.pc = "done"] ELSE Ready(1)]
    BY <1>4 DEF Configured
  <2>2. \A c \in Callers :
          call'[c] = Idle \/ call'[c] = [Idle EXCEPT !.pc = "done"] \/ call'[c] = Ready(1)
    BY <2>1
  <2>3. \A c \in Callers :
          /\ call'[c] \in Calls /\ call'[c].id = 0 /\ call'[c].answer \notin {"safe", "ok"}
          /\ call'[c].pc # "registered"
    <3>1. Ready(1) \in Calls /\ Ready(1).id = 0 /\ Ready(1).answer = "none" /\ Ready(1).pc = "ready"
      BY ReadyCall
    <3>2. \A v \in {Idle, [Idle EXCEPT !.pc = "done"], Ready(1)} :
            v \in Calls /\ v.id = 0 /\ v.answer = "none" /\ v.pc # "registered"
      BY <3>1, IdleCall, NoCall
    <3> QED
      BY <2>2, <3>2
  <2>4. call' \in [Callers -> Calls]
    BY <2>1, <2>3
  <2>5. \A w \in Workers : call[w].pc = "idle"
    BY <1>1, <2>1, IdleCall DEF HostInv
  <2>6. HostInv'
    BY <1>1, <1>2, <2>1 DEF HostInv
  <2>7. \A w \in Workers : w \in Callers
    BY <1>1
  <2> QED
    BY <1>2, <2>3, <2>4, <2>5, <2>6, <2>7, CallsMoveOn
<1> QED
  BY <1>3, <1>4

LEMMA AttemptMovesOn ==
  ASSUME PluginInv, NEW w \in Workers, Conclude(w) \/ Backoff(w)
  PROVE  PluginInv'
<1>1. /\ call \in [Callers -> Calls] /\ verb[w] \in Verbs /\ HostInv /\ w \in Callers /\ w # Main
      /\ call[w].attempt \in Nat /\ call[w] # Idle
  <2>1. call[w].pc # "idle"
    BY DEF Conclude, Backoff
  <2> QED
    BY <2>1, IdleCall, PluginAssumption DEF PluginInv, PluginType, Main, Callers, Calls
<1>2. UNCHANGED <<verb, plug, stdin, stdout, pending, closed, nextID, effects, reader, host>>
  BY DEF Conclude, Backoff, quasiConstants, pluginVars
<1>3. \E c \in Calls :
        /\ call' = [call EXCEPT ![w] = c] /\ c.id = 0 /\ c.answer # "safe" /\ c.pc # "registered"
        /\ c.pc \in {"idle", "ready", "registered", "backoff"} =>
             call[w].pc = "backoff" \/ call[w].answer = "safe" \/ verb[w] \notin {"create", "delete"}
        /\ c.answer = "ok" => call[w].answer = "ok" \/ verb[w] \notin Mutating
  <2>1. CASE Backoff(w)
    <3>1. call[w].attempt + 1 \in Nat /\ call[w].pc = "backoff"
      BY <1>1, <2>1 DEF Backoff
    <3>2. CASE call' = [call EXCEPT ![w] = Ready(call[w].attempt + 1)]
      BY <3>1, <3>2, ReadyCall
    <3>3. CASE call' = [call EXCEPT ![w] = [Idle EXCEPT !.pc = "done", !.answer = "failed"]]
      BY <3>1, <3>3, OverCall
    <3> QED
      BY <2>1, <3>2, <3>3 DEF Backoff
  <2>2. CASE Conclude(w)
    <3>1. CASE Accepted(verb[w], call[w].answer)
      <4>1. call[w].answer = "ok" \/ verb[w] \notin Mutating
        BY <3>1 DEF Accepted, Mutating
      <4> QED
        BY <2>2, <3>1, <4>1, OverCall, BackoffCall DEF Conclude
    <3>2. CASE ~Accepted(verb[w], call[w].answer) /\ TriedAgain(w)
      <4>1. call[w].answer = "safe" \/ verb[w] \notin {"create", "delete"}
        BY <3>2 DEF TriedAgain, Retryable, ClassifyError
      <4> QED
        BY <1>1, <2>2, <3>2, <4>1, OverCall, BackoffCall DEF Conclude
    <3>3. CASE ~Accepted(verb[w], call[w].answer) /\ ~TriedAgain(w)
      BY <2>2, <3>3, OverCall, BackoffCall DEF Conclude
    <3> QED
      BY <3>1, <3>2, <3>3
  <2> QED
    BY <2>1, <2>2
<1>4. PICK c \in Calls :
        /\ call' = [call EXCEPT ![w] = c] /\ c.id = 0 /\ c.answer # "safe" /\ c.pc # "registered"
        /\ c.pc \in {"idle", "ready", "registered", "backoff"} =>
             call[w].pc = "backoff" \/ call[w].answer = "safe" \/ verb[w] \notin {"create", "delete"}
        /\ c.answer = "ok" => call[w].answer = "ok" \/ verb[w] \notin Mutating
  BY <1>3
<1>5. /\ call' \in [Callers -> Calls] /\ call'[w] = c
      /\ \A k \in Callers \ {w} : call'[k] = call[k]
  BY <1>1, <1>4
<1>6. HostInv'
  BY <1>1, <1>2 DEF HostInv
<1>7. /\ \A k \in Callers : call'[k] = call[k] \/ (call'[k].id = 0 /\ call'[k].answer # "safe" /\ call'[k].pc # "registered")
      /\ \A k \in Workers : call'[k] = call[k] \/
           /\ call'[k].pc \in {"idle", "ready", "registered", "backoff"} =>
                \/ call[k].pc \in {"idle", "ready", "registered", "backoff"}
                \/ call[k].answer = "safe" \/ verb[k] \notin {"create", "delete"}
           /\ call'[k].answer = "ok" => call[k].answer = "ok" \/ verb[k] \notin Mutating
  BY <1>4, <1>5 DEF Callers
<1> QED
  BY <1>2, <1>5, <1>6, <1>7, CallsMoveOn


(***************************************************************************)
(* A line is taken off the plugin's output, or what is left of it is lost. *)
(***************************************************************************)
LEMMA StreamMovesOn ==
  ASSUME PluginInv, HostInv', call' \in [Callers -> Calls], closed' \in BOOLEAN,
         pending' \subseteq pending,
         UNCHANGED <<verb, plug, stdin, nextID, effects>>,
         stdout' = <<>> \/ (stdout # <<>> /\ stdout' = Tail(stdout)),
         \A c \in Callers : \/ call'[c].id = call[c].id /\ call'[c].pc = call[c].pc
                            \/ c = Main /\ call'[c].id = 0 /\ call'[c].pc # "registered",
         \A w \in Workers :
           \/ stdout' = <<>> /\ call'[w].answer \in {call[w].answer, "lost"}
           \/ /\ stdout # <<>> /\ stdout' = Tail(stdout)
              /\ Head(stdout).id = call[w].id => call[w].id \notin pending'
              /\ \/ call'[w].answer \in {call[w].answer, "lost"}
                 \/ /\ call[w].id \in pending /\ Head(stdout).id = call[w].id
                    /\ call'[w].answer = Head(stdout).answer
  PROVE  PluginInv'
<1>1. /\ stdout \in Seq(Said) /\ Main \notin Workers /\ Callers = Workers \cup {Main}
      /\ nextID \in Nat /\ Addressed(call, stdin, plug.inflight, stdout, pending, nextID)
  BY PluginAssumption DEF PluginInv, PluginType, Main, Callers
<1>2. stdout' \in Seq(Said) /\ \A i \in DOMAIN stdout' : \E j \in DOMAIN stdout : stdout'[i] = stdout[j]
  <2>1. CASE stdout' = <<>>
    BY <2>1, EmptySequence
  <2>2. CASE stdout # <<>> /\ stdout' = Tail(stdout)
    <3>1. Tail(stdout) \in Seq(Said) /\ \A i \in DOMAIN Tail(stdout) : i + 1 \in DOMAIN stdout /\ Tail(stdout)[i] = stdout[i + 1]
      BY <1>1, <2>2, TailFacts
    <3> QED
      BY <2>2, <3>1
  <2> QED
    BY <2>1, <2>2
<1>3. PluginType'
  BY <1>2 DEF PluginInv, PluginType
<1>4. Addressed(call', stdin', plug'.inflight, stdout', pending', nextID')
  <2>1. \A i \in DOMAIN stdout' : stdout'[i].id <= nextID /\ (stdout'[i].answer = "safe" => stdout'[i].id # 0)
    BY <1>1, <1>2 DEF Addressed
  <2>2. /\ \A i \in DOMAIN stdin : stdin[i].from # "cancel" => stdin[i].id # 0
        /\ \A r \in plug.inflight : r.id # 0
        /\ "cancel" \notin Callers
    BY TypeKnown, PluginAssumption DEF Callers, Main
  <2>3. Addressed(call', stdin, plug.inflight, stdout', pending', nextID)
    BY <1>1, <2>1, <2>2, AddressesKept
  <2> QED
    BY <2>3
<1>5. ASSUME NEW w \in Workers
      PROVE  call'[w].id = call[w].id /\ call'[w].pc = call[w].pc
  BY <1>1
<1>6. ASSUME NEW w \in Workers, verb[w] \in {"create", "delete"}
      PROVE  Once(w, call'[w], stdin', plug'.inflight, stdout', effects'[w])
  <2>1. Once(w, call[w], stdin, plug.inflight, stdout, effects[w])
    BY <1>6 DEF PluginInv
  <2>2. call'[w].answer = "safe" =>
          call[w].answer = "safe" \/ \E j \in DOMAIN stdout : stdout[j].id = call[w].id /\ stdout[j].answer = "safe"
    <3>1. stdout # <<>> => Head(stdout) = stdout[1] /\ 1 \in DOMAIN stdout
      BY <1>1, TailFacts
    <3> QED
      BY <3>1
  <2>3. Once(w, call'[w], stdin, plug.inflight, stdout', effects[w])
    BY <1>2, <1>5, <2>1, <2>2, OnceKept
  <2> QED
    BY <2>3
<1>7. ASSUME NEW w \in Workers, verb[w] \in Mutating
      PROVE  Told(call'[w], stdout', pending', effects'[w])
  <2>1. Told(call[w], stdout, pending, effects[w])
    BY <1>7 DEF PluginInv
  <2>2. CASE stdout' = <<>> /\ call'[w].answer \in {call[w].answer, "lost"}
    BY <2>1, <2>2 DEF Told
  <2>3. CASE ~(stdout' = <<>> /\ call'[w].answer \in {call[w].answer, "lost"})
    <3>1. Told(call'[w], Tail(stdout), pending', effects[w])
      BY <1>1, <1>5, <2>1, <2>3, ToldByTheRest
    <3> QED
      BY <2>3, <3>1
  <2> QED
    BY <2>2, <2>3
<1> QED
  BY <1>3, <1>4, <1>6, <1>7, Assembled

LEMMA DeliveredCalls ==
  ASSUME PluginInv, NEW ids \in SUBSET (Nat \ {0}), NEW answer \in CallAnswers, call' = Delivered(ids, answer)
  PROVE  /\ call' \in [Callers -> Calls]
         /\ \A c \in Callers : /\ call'[c].id = call[c].id /\ call'[c].pc = call[c].pc
                               /\ call'[c].answer = call[c].answer
                                    \/ (call'[c].answer = answer /\ call[c].id \in ids)
                               /\ call[c] = Idle => call'[c] = Idle
<1>1. /\ call' = [c \in Callers |-> IF call[c].pc \in {"registered", "waiting"} /\ call[c].id \in ids
                                  THEN [call[c] EXCEPT !.answer = answer] ELSE call[c]]
      /\ call \in [Callers -> Calls]
  BY DEF Delivered, PluginInv, PluginType
<1>2. ASSUME NEW c \in Callers
      PROVE  /\ call'[c] \in Calls
             /\ call'[c].id = call[c].id /\ call'[c].pc = call[c].pc
             /\ call'[c].answer = call[c].answer \/ (call'[c].answer = answer /\ call[c].id \in ids)
             /\ call[c] = Idle => call'[c] = Idle
  <2>1. [call[c] EXCEPT !.answer = answer] \in Calls
    BY <1>1 DEF Calls
  <2>2. call[c] \in Calls
    BY <1>1
  <2>3. Idle.id = 0 /\ 0 \notin ids
    BY IdleCall
  <2>4. CASE call[c].pc \in {"registered", "waiting"} /\ call[c].id \in ids
    <3>1. call'[c] = [call[c] EXCEPT !.answer = answer]
      BY <1>1, <2>4
    <3> QED
      BY <2>1, <2>2, <2>3, <2>4, <3>1 DEF Calls
  <2>5. CASE ~(call[c].pc \in {"registered", "waiting"} /\ call[c].id \in ids)
    BY <1>1, <2>2, <2>5
  <2> QED
    BY <2>4, <2>5
<1> QED
  BY <1>1, <1>2

LEMMA ReaderMovesOn ==
  ASSUME PluginInv, ReaderStep
  PROVE  PluginInv'
<1>1. /\ stdout \in Seq(Said) /\ call \in [Callers -> Calls] /\ HostInv /\ pending \in SUBSET (Nat \ {0})
      /\ closed \in BOOLEAN /\ Workers \subseteq Callers /\ "lost" \in CallAnswers
  BY DEF PluginInv, PluginType, Callers, CallAnswers
<1>2. CASE TakeAnswer
  <2> DEFINE ids == pending \cap {Head(stdout).id}
  <2>1. /\ stdout # <<>> /\ stdout' = Tail(stdout) /\ pending' = pending \ ids
        /\ call' = Delivered(ids, Head(stdout).answer)
        /\ UNCHANGED <<host, reader, closed, nextID, plug, stdin, effects, verb>>
    BY <1>2 DEF TakeAnswer, quasiConstants
  <2>2. Head(stdout).answer \in CallAnswers
    <3>1. Head(stdout) \in Said
      BY <1>1, <2>1, TailFacts
    <3> QED
      BY <3>1 DEF Said, CallAnswers
  <2>3. ids \in SUBSET (Nat \ {0})
    BY <1>1
  <2> HIDE DEF ids
  <2>4. /\ call' \in [Callers -> Calls]
        /\ \A c \in Callers : /\ call'[c].id = call[c].id /\ call'[c].pc = call[c].pc
                              /\ call'[c].answer = call[c].answer
                                   \/ (call'[c].answer = Head(stdout).answer /\ call[c].id \in ids)
                              /\ call[c] = Idle => call'[c] = Idle
    BY <2>1, <2>2, <2>3, DeliveredCalls
  <2>5. HostInv'
    BY <1>1, <2>1, <2>4 DEF HostInv
  <2>6. \A w \in Workers :
           \/ call'[w].answer = call[w].answer
           \/ call[w].id \in pending /\ Head(stdout).id = call[w].id /\ call'[w].answer = Head(stdout).answer
    BY <1>1, <2>4 DEF ids
  <2>7. \A w \in Workers : Head(stdout).id = call[w].id => call[w].id \notin pending'
    BY <2>1 DEF ids
  <2>8. pending' \subseteq pending
    BY <2>1
  <2> QED
    BY <1>1, <2>1, <2>4, <2>5, <2>6, <2>7, <2>8, StreamMovesOn
<1>3. CASE TakeGarbage \/ (EndOfOutput /\ reader = "serving")
  <2>1. /\ (stdout' = Tail(stdout) /\ stdout # <<>>) \/ stdout' = <<>>
        /\ pending' = {} /\ closed' = TRUE /\ call' = Delivered(pending, "lost")
        /\ UNCHANGED <<host, nextID, plug, stdin, effects, verb>>
    BY <1>3 DEF TakeGarbage, EndOfOutput, Fail, quasiConstants, pluginVars
  <2>2. /\ call' \in [Callers -> Calls]
        /\ \A c \in Callers : /\ call'[c].id = call[c].id /\ call'[c].pc = call[c].pc
                              /\ call'[c].answer = call[c].answer \/ call'[c].answer = "lost"
                              /\ call[c] = Idle => call'[c] = Idle
    BY <1>1, <2>1, DeliveredCalls
  <2>3. HostInv'
    BY <1>1, <2>1, <2>2 DEF HostInv
  <2>4. \A w \in Workers : call'[w].answer = call[w].answer \/ call'[w].answer = "lost"
    BY <1>1, <2>2
  <2> QED
    BY <2>1, <2>2, <2>3, <2>4, StreamMovesOn
<1>4. CASE Drain
  <2>1. /\ stdout' = Tail(stdout) /\ stdout # <<>> /\ reader = "draining"
        /\ UNCHANGED <<host, reader, pending, closed, call, nextID, plug, stdin, effects, verb>>
    BY <1>4 DEF Drain, hostVars, quasiConstants
  <2>2. HostInv' /\ pending = {}
    BY <1>1, <2>1 DEF HostInv
  <2> QED
    BY <1>1, <2>1, <2>2, StreamMovesOn
<1>5. CASE EndOfOutput /\ reader # "serving"
  <2>1. UNCHANGED <<host, pending, closed, call, nextID, plug, stdin, stdout, effects, verb>> /\ reader' = "done"
    BY <1>5 DEF EndOfOutput, quasiConstants, pluginVars
  <2>2. HostInv'
    BY <1>1, <2>1 DEF HostInv
  <2>3. plug \in Plugs
    BY DEF PluginInv, PluginType
  <2> QED
    BY <2>1, <2>2, <2>3, SameMessages
<1> QED
  BY <1>2, <1>3, <1>4, <1>5 DEF ReaderStep

LEMMA LoadingReads ==
  ASSUME PluginInv, Handshake \/ Stop
  PROVE  PluginInv'
<1>1. /\ stdout \in Seq(Said) /\ call \in [Callers -> Calls] /\ HostInv /\ pending \subseteq Nat \ {0}
      /\ closed \in BOOLEAN /\ plug \in Plugs /\ Main \notin Workers /\ Callers = Workers \cup {Main}
  BY PluginAssumption DEF PluginInv, PluginType, Main, Callers
<1>2. CASE Stop
  <2>1. /\ stdout' = <<>> /\ host' \in {"closed", "failed"}
        /\ UNCHANGED <<reader, pending, closed, nextID, call, plug, stdin, effects, verb>>
    BY <1>2 DEF Stop, quasiConstants
  <2>2. HostInv'
    BY <1>1, <2>1 DEF HostInv
  <2> QED
    BY <1>1, <2>1, <2>2, StreamMovesOn
<1>3. CASE Handshake
  <2>1. /\ host = "handshake" /\ host' \in {"schemas", "refusing"}
        /\ reader' = reader \/ reader' = "serving"
        /\ UNCHANGED <<pending, closed, nextID, plug, stdin, effects, verb>>
        /\ stdout' = <<>> \/ (stdout # <<>> /\ stdout' = Tail(stdout))
        /\ call' = call \/ call' = [call EXCEPT ![Main] = Ready(1)]
    BY <1>3 DEF Handshake, quasiConstants
  <2>2. \A w \in Workers : call[w] = Idle /\ call[w].id = 0
    BY <1>1, <2>1, IdleCall DEF HostInv
  <2>3. Ready(1) \in Calls /\ Ready(1).id = 0 /\ Ready(1).pc # "registered"
    BY ReadyCall
  <2>4. call' \in [Callers -> Calls] /\ \A w \in Workers : call'[w] = call[w]
    BY <1>1, <2>1, <2>3
  <2>5. \A c \in Callers : \/ call'[c].id = call[c].id /\ call'[c].pc = call[c].pc
                           \/ c = Main /\ call'[c].id = 0 /\ call'[c].pc # "registered"
    BY <1>1, <2>1, <2>3
  <2>6. HostInv'
    BY <1>1, <2>1, <2>4, <2>2 DEF HostInv
  <2>7. \A w \in Workers : call[w].id \notin pending'
    BY <1>1, <2>1, <2>2
  <2> QED
    BY <1>1, <2>1, <2>4, <2>5, <2>6, <2>7, StreamMovesOn
<1> QED
  BY <1>2, <1>3


(***************************************************************************)
(* The plugin says one more line, or takes or ends a request: Once is what *)
(* each of these steps is about.                                           *)
(***************************************************************************)
LEMMA PluginMovesOn ==
  ASSUME PluginInv, plug' \in Plugs, effects' \in [Workers -> Nat], stdin' \in Seq(Asked),
         UNCHANGED <<host, reader, verb, call, pending, closed, nextID>>,
         \A i \in DOMAIN stdin' : \E j \in DOMAIN stdin : stdin'[i] = stdin[j],
         \A r \in plug'.inflight :
           r \in plug.inflight \/ (\E j \in DOMAIN stdin : r = stdin[j] /\ r.from \in Callers),
         NEW line \in Said, stdout' = stdout \/ stdout' = Append(stdout, line),
         line.id <= nextID, line.answer = "safe" => line.id # 0,
         \A w \in Workers : verb[w] \in {"create", "delete"} =>
           Once(w, call[w], stdin', plug'.inflight, stdout', effects'[w]),
         \A w \in Workers : effects'[w] >= effects[w],
         \A w \in Workers : verb[w] \in Mutating /\ stdout' # stdout
                              /\ line.answer = "ok" /\ line.id = call[w].id /\ call[w].id \in pending =>
           effects'[w] > 0 \/ \E j \in DOMAIN stdout : stdout[j].id = call[w].id
  PROVE  PluginInv'
<1>1. /\ stdout \in Seq(Said) /\ nextID \in Nat /\ effects \in [Workers -> Nat]
      /\ Addressed(call, stdin, plug.inflight, stdout, pending, nextID)
  BY DEF PluginInv, PluginType
<1>2. /\ stdout' \in Seq(Said)
      /\ \A i \in DOMAIN stdout' : (\E j \in DOMAIN stdout : stdout'[i] = stdout[j]) \/ stdout'[i] = line
  <2>1. CASE stdout' = stdout
    BY <1>1, <2>1
  <2>2. CASE stdout' = Append(stdout, line)
    <3>1. /\ Append(stdout, line) \in Seq(Said)
          /\ \A i \in DOMAIN Append(stdout, line) :
               (i \in DOMAIN stdout /\ Append(stdout, line)[i] = stdout[i]) \/ Append(stdout, line)[i] = line
      BY <1>1, AppendFacts
    <3> QED
      BY <2>2, <3>1
  <2> QED
    BY <2>1, <2>2
<1>3. PluginType' /\ HostInv'
  BY <1>2 DEF PluginInv, PluginType, HostInv
<1>4. Addressed(call', stdin', plug'.inflight, stdout', pending', nextID')
  <2>1. \A i \in DOMAIN stdout' : stdout'[i].id <= nextID /\ (stdout'[i].answer = "safe" => stdout'[i].id # 0)
    BY <1>1, <1>2 DEF Addressed
  <2>2. /\ \A i \in DOMAIN stdin : stdin[i].from # "cancel" => stdin[i].id # 0
        /\ \A r \in plug.inflight : r.id # 0
        /\ "cancel" \notin Callers
    BY TypeKnown, PluginAssumption DEF Callers, Main
  <2> DEFINE in2 == stdin'  held2 == plug'.inflight  out2 == stdout'
  <2>3. /\ \A i \in DOMAIN in2 : \E j \in DOMAIN stdin : in2[i] = stdin[j]
        /\ \A r \in held2 : r \in plug.inflight \/ (\E j \in DOMAIN stdin : r = stdin[j] /\ r.from \in Callers)
        /\ \A i \in DOMAIN out2 : out2[i].id <= nextID /\ (out2[i].answer = "safe" => out2[i].id # 0)
    BY <2>1
  <2> HIDE DEF in2, held2, out2
  <2>4. Addressed(call, in2, held2, out2, pending, nextID)
    <3>1. nextID \in Nat /\ Addressed(call, stdin, plug.inflight, stdout, pending, nextID)
      BY <1>1
    <3> QED BY ONLY <2>2, <2>3, <3>1, AddressesKept
  <2> QED
    BY <2>4 DEF in2, held2, out2
<1>5. ASSUME NEW w \in Workers, verb[w] \in Mutating
      PROVE  Told(call'[w], stdout', pending', effects'[w])
  <2>1. Told(call[w], stdout, pending, effects[w]) /\ effects[w] \in Nat /\ effects'[w] \in Nat
        /\ effects'[w] >= effects[w]
    BY <1>1, <1>5 DEF PluginInv
  <2>2. CASE stdout' = stdout
    BY <2>1, <2>2 DEF Told
  <2>3. CASE stdout' # stdout
    <3>1. Told(call[w], Append(stdout, line), pending, effects'[w])
      BY <1>1, <1>5, <2>1, <2>3, ToldOneMore
    <3> QED
      BY <2>3, <3>1
  <2> QED
    BY <2>2, <2>3
<1> QED
  BY <1>3, <1>4, <1>5, Assembled

\* A line that says nothing of a worker leaves it as it was.
LEMMA OnceBesideLine ==
  ASSUME NEW w, NEW c, NEW in, NEW held, NEW out \in Seq(Said), NEW made, Once(w, c, in, held, out, made),
         NEW line \in Said, line.answer # "safe" \/ line.id # c.id,
         NEW in2, NEW held2,
         OneLive(w, in, held) => OneLive(w, in2, held2),
         NoneLive(w, in, held) => NoneLive(w, in2, held2)
  PROVE  Once(w, c, in2, held2, out, made) /\ Once(w, c, in2, held2, Append(out, line), made)
<1>1. \A i \in DOMAIN Append(out, line) :
        (\E j \in DOMAIN out : Append(out, line)[i] = out[j]) \/ Append(out, line)[i] = line
  BY AppendFacts
<1>2. c.pc \in {"idle", "ready", "registered", "backoff"} =>
        c.pc \in {"idle", "ready", "registered", "backoff"} \/ c.answer = "safe"
  OBVIOUS
<1>3. \A i \in DOMAIN Append(out, line) :
        Append(out, line)[i].answer = "safe" /\ Append(out, line)[i].id = c.id =>
           \E j \in DOMAIN out : Append(out, line)[i] = out[j]
  BY <1>1
<1>4. Once(w, c, in2, held2, Append(out, line), made)
  <2> DEFINE more == Append(out, line)
  <2>1. \A i \in DOMAIN more : more[i].answer = "safe" /\ more[i].id = c.id =>
           \E j \in DOMAIN out : more[i] = out[j]
    BY <1>3
  <2> HIDE DEF more
  <2>2. Once(w, c, in2, held2, more, made)
    BY <1>2, <2>1, OnceKept
  <2> QED
    BY <2>2 DEF more
<1>5. Once(w, c, in2, held2, out, made)
  BY <1>2, OnceKept
<1> QED
  BY <1>4, <1>5

LEMMA SpeaksUnasked ==
  ASSUME PluginInv, Hello \/ Misspeak
  PROVE  PluginInv'
<1>1. /\ plug \in Plugs /\ stdin \in Seq(Asked) /\ stdout \in Seq(Said) /\ nextID \in Nat
      /\ effects \in [Workers -> Nat] /\ pending \subseteq Nat \ {0} /\ call \in [Callers -> Calls]
  BY DEF PluginInv, PluginType
<1>2. UNCHANGED <<host, reader, verb, call, pending, closed, nextID, stdin, effects>>
  BY DEF Hello, Misspeak, hostVars, quasiConstants
<1>3. \E line \in Said :
        /\ plug' \in Plugs /\ plug'.inflight = plug.inflight
        /\ stdout' = stdout \/ stdout' = Append(stdout, line)
        /\ line.id <= nextID /\ line.answer # "safe"
        /\ line.answer = "ok" /\ line.id \in pending => \E j \in DOMAIN stdout : stdout[j].id = line.id
  <2>1. CASE Hello
    <3>1. PICK answer \in {"hello"} \cup RefusedHello :
            stdout' = stdout \/ stdout' = Append(stdout, Line(0, answer))
      BY <2>1 DEF Hello
    <3>2. plug' \in Plugs /\ plug'.inflight = plug.inflight
      BY <2>1, PlugStatus DEF Hello
    <3>3. Line(0, answer) \in Said /\ Line(0, answer).id = 0 /\ Line(0, answer).answer = answer
      BY DEF Line, Said
    <3>4. answer # "safe" /\ 0 \notin pending
      BY <1>1 DEF RefusedHello
    <3> QED
      BY <1>1, <3>1, <3>2, <3>3, <3>4
  <2>2. CASE Misspeak
    <3>1. PICK id \in {-1} \cup 1..nextID :
            /\ id \in pending => \E i \in 1..Len(stdout) : stdout[i].id = id
            /\ stdout' = Append(stdout, Line(id, "ok")) /\ plug' = plug
      BY <2>2 DEF Misspeak
    <3>2. Line(id, "ok") \in Said /\ Line(id, "ok").id = id /\ Line(id, "ok").answer = "ok"
      BY <1>1 DEF Line, Said, Outcome
    <3>3. id <= nextID
      BY <1>1
    <3> QED
      BY <1>1, <3>1, <3>2, <3>3
  <2> QED
    BY <2>1, <2>2
<1>4. PICK line \in Said :
        /\ plug' \in Plugs /\ plug'.inflight = plug.inflight
        /\ stdout' = stdout \/ stdout' = Append(stdout, line)
        /\ line.id <= nextID /\ line.answer # "safe"
        /\ line.answer = "ok" /\ line.id \in pending => \E j \in DOMAIN stdout : stdout[j].id = line.id
  BY <1>3
<1>5. ASSUME NEW w \in Workers, verb[w] \in {"create", "delete"}
      PROVE  Once(w, call[w], stdin', plug'.inflight, stdout', effects'[w])
  <2>1. Once(w, call[w], stdin, plug.inflight, stdout, effects[w])
    BY <1>5 DEF PluginInv
  <2>2. /\ Once(w, call[w], stdin, plug.inflight, stdout, effects[w])
        /\ Once(w, call[w], stdin, plug.inflight, Append(stdout, line), effects[w])
    BY <1>1, <1>4, <2>1, OnceBesideLine
  <2> QED
    BY <1>2, <1>4, <2>2
<1>6. \A w \in Workers : effects'[w] >= effects[w]
  BY <1>1, <1>2
<1> QED
  BY <1>1, <1>2, <1>4, <1>5, <1>6, PluginMovesOn

LEMMA TakesRequest ==
  ASSUME PluginInv, ServeRequest
  PROVE  PluginInv'
<1> DEFINE req == Head(stdin)
<1>1. /\ plug \in Plugs /\ stdin \in Seq(Asked) /\ stdout \in Seq(Said) /\ nextID \in Nat
      /\ effects \in [Workers -> Nat] /\ Workers \subseteq Callers /\ plug.inflight \subseteq Taken
      /\ Addressed(call, stdin, plug.inflight, stdout, pending, nextID)
      /\ {"cancel", "shutdown"} \cap Callers = {}
  BY PluginAssumption, TypeKnown DEF PluginInv, PluginType, Callers, Main
<1>2. /\ UNCHANGED <<host, reader, verb, call, pending, closed, nextID, effects>>
      /\ stdin # <<>> /\ stdin' = Tail(stdin)
  BY DEF ServeRequest, hostVars, quasiConstants
<1>3. /\ req \in Asked /\ req = stdin[1] /\ 1 \in DOMAIN stdin /\ stdin' \in Seq(Asked)
      /\ \A i \in DOMAIN stdin' : i + 1 \in DOMAIN stdin /\ i + 1 > 1 /\ stdin'[i] = stdin[i + 1] /\ i \in Nat
  BY <1>1, <1>2, TailFacts
<1> DEFINE line == Line(req.id, "ok")
<1>4. line \in Said /\ line.id = req.id /\ line.answer = "ok" /\ line.id <= nextID
  <2>1. req.id \in Nat
    BY <1>3 DEF Asked
  <2>2. req.id <= nextID
    BY <1>1, <1>3 DEF Addressed
  <2> QED
    BY <2>1, <2>2 DEF Line, Said, Outcome
<1> HIDE DEF req, line
<1>5. /\ plug' \in Plugs
      /\ plug'.inflight = plug.inflight \/ (plug'.inflight = plug.inflight \cup {req} /\ req.from \in Callers)
      /\ stdout' = stdout \/ (stdout' = Append(stdout, line) /\ req.from = "shutdown")
  <2>1. CASE req.from = "cancel" /\ UNCHANGED <<plug, stdout>>
    BY <1>1, <2>1
  <2>2. CASE req.from = "shutdown" /\ plug' = [plug EXCEPT !.status = "stopping"] /\ stdout' = Append(stdout, line)
    BY <2>2, PlugStatus
  <2>3. CASE req.from \in Callers /\ plug' = [plug EXCEPT !.inflight = @ \cup {req}] /\ UNCHANGED stdout
    <3>1. req \in Taken
      BY <1>1, <1>3, <2>3 DEF Asked, Taken
    <3> QED
      BY <1>1, <2>3, <3>1 DEF Plugs
  <2> QED
    BY <2>1, <2>2, <2>3 DEF ServeRequest, req, line
<1>6. ASSUME NEW w
      PROVE  /\ NoneLive(w, stdin, plug.inflight) => NoneLive(w, stdin', plug'.inflight)
             /\ OneLive(w, stdin, plug.inflight) => OneLive(w, stdin', plug'.inflight)
  <2>1. NoneLive(w, stdin, plug.inflight) => NoneLive(w, stdin', plug'.inflight)
    BY <1>3, <1>5 DEF NoneLive
  <2>2. ASSUME OneLive(w, stdin, plug.inflight)
        PROVE  OneLive(w, stdin', plug'.inflight)
    <3>1. \A i, j \in DOMAIN stdin' : stdin'[i].from = w /\ stdin'[j].from = w => i = j
      <4> TAKE i, j \in DOMAIN stdin'
      <4> HAVE stdin'[i].from = w /\ stdin'[j].from = w
      <4>1. i + 1 = j + 1 /\ i \in Nat /\ j \in Nat
        BY <1>3, <2>2 DEF OneLive
      <4> QED
        BY <4>1
    <3>2. \A r, q \in plug'.inflight : r.from = w /\ q.from = w => r = q
      BY <1>3, <1>5, <2>2 DEF OneLive
    <3>3. \A i \in DOMAIN stdin', r \in plug'.inflight : ~(stdin'[i].from = w /\ r.from = w)
      <4> TAKE i \in DOMAIN stdin', r \in plug'.inflight
      <4>1. CASE r \in plug.inflight
        BY <1>3, <2>2, <4>1 DEF OneLive
      <4>2. CASE r = req
        <5>1. i \in Nat /\ i + 1 # 1
          BY <1>3
        <5> QED
          BY <1>3, <2>2, <4>2, <5>1 DEF OneLive
      <4> QED
        BY <1>5, <4>1, <4>2
    <3> QED
      BY <3>1, <3>2, <3>3 DEF OneLive
  <2> QED
    BY <2>1, <2>2
<1>7. ASSUME NEW w \in Workers, verb[w] \in {"create", "delete"}
      PROVE  Once(w, call[w], stdin', plug'.inflight, stdout', effects'[w])
  <2>1. Once(w, call[w], stdin, plug.inflight, stdout, effects[w])
    BY <1>7 DEF PluginInv
  <2> DEFINE in2 == stdin'  held2 == plug'.inflight
  <2>2. /\ NoneLive(w, stdin, plug.inflight) => NoneLive(w, in2, held2)
        /\ OneLive(w, stdin, plug.inflight) => OneLive(w, in2, held2)
    BY <1>6
  <2> HIDE DEF in2, held2
  <2>3. /\ Once(w, call[w], in2, held2, stdout, effects[w])
        /\ Once(w, call[w], in2, held2, Append(stdout, line), effects[w])
    BY <1>1, <1>4, <2>1, <2>2, OnceBesideLine
  <2> QED
    BY <1>2, <1>5, <2>3 DEF in2, held2
<1>8. \A w \in Workers : stdout' # stdout => line.id # call[w].id
  BY <1>1, <1>3, <1>4, <1>5 DEF Addressed
<1>9. \A r \in plug'.inflight :
        r \in plug.inflight \/ (\E j \in DOMAIN stdin : r = stdin[j] /\ r.from \in Callers)
  BY <1>3, <1>5
<1>10. /\ \A i \in DOMAIN stdin' : \E j \in DOMAIN stdin : stdin'[i] = stdin[j]
       /\ \A w \in Workers : effects'[w] >= effects[w]
       /\ effects' \in [Workers -> Nat]
  BY <1>1, <1>2, <1>3
<1> QED
  BY <1>2, <1>3, <1>4, <1>5, <1>7, <1>8, <1>9, <1>10, PluginMovesOn


\* What a provider that did nothing may say, and what it says when it has done it.
LEMMA OutcomeFacts ==
  ASSUME NEW v \in Verbs, NEW outcome \in Outcomes(v)
  PROVE  /\ outcome[1] \in {0, 1} /\ outcome[2] \in Outcome
         /\ outcome[2] = "safe" => outcome[1] = 0
         /\ v \in Mutating /\ outcome[2] = "ok" => outcome[1] = 1
<1> DEFINE done == IF v \in Mutating THEN 1 ELSE 0
<1>1. outcome \in {<<done, "ok">>, <<0, "safe">>} \cup ({0, done} \X {"conditional", "unsafe"})
                   \cup {<<done, "absent">>, <<done, "undeclared">>}
  BY DEF Outcomes
<1>2. done \in {0, 1} /\ (v \in Mutating => done = 1)
  OBVIOUS
<1> HIDE DEF done
<1>3. CASE outcome \in {<<done, "ok">>, <<0, "safe">>, <<done, "absent">>, <<done, "undeclared">>}
  BY <1>2, <1>3 DEF Outcome
<1>4. CASE outcome \in {0, done} \X {"conditional", "unsafe"}
  BY <1>2, <1>4 DEF Outcome
<1> QED
  BY <1>1, <1>3, <1>4

LEMMA AnswersRequest ==
  ASSUME PluginInv, NEW r \in plug.inflight, Answer(r)
  PROVE  PluginInv'
<1>1. /\ plug \in Plugs /\ stdin \in Seq(Asked) /\ stdout \in Seq(Said) /\ nextID \in Nat
      /\ effects \in [Workers -> Nat] /\ verb \in [Workers -> Verbs]
      /\ Addressed(call, stdin, plug.inflight, stdout, pending, nextID)
      /\ r.id \in Nat \ {0} /\ r.from \in Callers /\ Main \notin Workers /\ Callers = Workers \cup {Main}
  BY PluginAssumption, TypeKnown DEF PluginInv, PluginType, Callers, Main
<1>2. UNCHANGED <<host, reader, verb, call, pending, closed, nextID, stdin>>
  BY DEF Answer, hostVars, quasiConstants
<1>3. PICK outcome \in IF r.from = Main THEN {<<0, "ok">>, <<0, "unsafe">>}
                       ELSE IF plug.configured THEN Outcomes(verb[r.from]) ELSE {<<0, "unsafe">>} :
       /\ stdout' = Append(stdout, Line(r.id, outcome[2]))
       /\ plug' = [plug EXCEPT !.inflight = @ \ {r},
                               !.configured = @ \/ (host = "configuring" /\ outcome[2] = "ok")]
       /\ effects' = IF r.from = Main THEN effects ELSE [effects EXCEPT ![r.from] = @ + outcome[1]]
  BY DEF Answer
<1>4. /\ outcome[1] \in {0, 1} /\ outcome[2] \in Outcome
      /\ r.from \in Workers => (outcome[2] = "safe" => outcome[1] = 0)
      /\ r.from \in Workers => (verb[r.from] \in Mutating /\ outcome[2] = "ok" => outcome[1] = 1)
  <2>1. CASE outcome \in {<<0, "ok">>, <<0, "unsafe">>} /\ r.from = Main
    BY <1>1, <2>1 DEF Outcome
  <2>2. CASE outcome = <<0, "unsafe">>
    BY <2>2 DEF Outcome
  <2>3. CASE r.from \in Workers /\ outcome \in Outcomes(verb[r.from])
    BY <1>1, <2>3, OutcomeFacts
  <2> QED
    BY <1>1, <1>3, <2>1, <2>2, <2>3
<1> DEFINE line == Line(r.id, outcome[2])  held2 == plug.inflight \ {r}
<1>5. line \in Said /\ line.id = r.id /\ line.answer = outcome[2]
  BY <1>1, <1>4 DEF Line, Said
<1>6. line.id <= nextID /\ line.id # 0
  BY <1>1, <1>5 DEF Addressed
<1>7. plug' \in Plugs /\ plug'.inflight = held2
  <2> DEFINE configured == plug.configured \/ (host = "configuring" /\ outcome[2] = "ok")
  <2>1. plug' = [plug EXCEPT !.inflight = held2, !.configured = configured]
    BY <1>3
  <2>2. configured \in BOOLEAN
    BY TypeKnown
  <2>3. held2 \in SUBSET Taken
    BY <1>1 DEF Plugs
  <2> HIDE DEF configured, held2
  <2> QED
    BY <1>1, <2>1, <2>2, <2>3 DEF Plugs
<1>8. stdout' = Append(stdout, line)
  BY <1>3
<1>9. /\ effects' \in [Workers -> Nat] /\ \A w \in Workers : effects'[w] >= effects[w]
      /\ \A w \in Workers : effects'[w] = IF w = r.from THEN effects[w] + outcome[1] ELSE effects[w]
  BY <1>1, <1>3, <1>4
<1>10. \A w \in Workers : line.id = call[w].id => r.from = w /\ call[w].pc = "waiting"
  <2>1. \A c \in Callers : r.id = call[c].id => r.from = c /\ call[c].pc = "waiting"
    BY <1>1 DEF Addressed
  <2> QED
    BY <1>1, <1>5, <2>1
<1> HIDE DEF line, held2
<1>11. ASSUME NEW w
       PROVE  /\ NoneLive(w, stdin, plug.inflight) => NoneLive(w, stdin, held2)
              /\ OneLive(w, stdin, plug.inflight) => OneLive(w, stdin, held2)
              /\ OneLive(w, stdin, plug.inflight) /\ r.from = w => NoneLive(w, stdin, held2)
  BY DEF NoneLive, OneLive, held2
<1>12. ASSUME NEW w \in Workers, verb[w] \in {"create", "delete"}
       PROVE  Once(w, call[w], stdin, held2, Append(stdout, line), effects'[w])
  <2>1. Once(w, call[w], stdin, plug.inflight, stdout, effects[w])
    BY <1>12 DEF PluginInv
  <2>2. CASE r.from # w
    <3>1. line.id # call[w].id /\ effects'[w] = effects[w]
      BY <1>9, <1>10, <2>2
    <3>2. Once(w, call[w], stdin, held2, Append(stdout, line), effects[w])
      BY <1>1, <1>5, <1>11, <2>1, <3>1, OnceBesideLine
    <3> QED
      BY <3>1, <3>2
  <2>3. CASE r.from = w
    <3>1. ~NoneLive(w, stdin, plug.inflight)
      BY <2>3 DEF NoneLive
    <3>2. effects[w] = 0 /\ OneLive(w, stdin, plug.inflight)
      BY <2>1, <3>1 DEF Once
    <3>3. /\ call[w].pc \notin {"idle", "ready", "registered", "backoff"} /\ call[w].answer # "safe"
          /\ \A i \in DOMAIN stdout : ~(stdout[i].id = call[w].id /\ stdout[i].answer = "safe")
      BY <2>1, <3>1 DEF Once, Fresh
    <3>4. effects'[w] = outcome[1]
      BY <1>4, <1>9, <2>3, <3>2
    <3>5. NoneLive(w, stdin, held2) /\ OneLive(w, stdin, held2)
      BY <1>11, <2>3, <3>2
    <3> DEFINE more == Append(stdout, line)
    <3>6. \A i \in DOMAIN more : (i \in DOMAIN stdout /\ more[i] = stdout[i]) \/ more[i] = line
      BY <1>1, <1>5, AppendFacts
    <3> HIDE DEF more
    <3>7. \A i \in DOMAIN more : more[i].id = call[w].id /\ more[i].answer = "safe" =>
            call[w].pc = "waiting" /\ effects'[w] = 0
      BY <1>1, <1>4, <1>5, <1>10, <2>3, <3>3, <3>4, <3>6
    <3>8. Once(w, call[w], stdin, held2, more, effects'[w])
      BY <1>4, <3>3, <3>4, <3>5, <3>7 DEF Once, Fresh
    <3> QED
      BY <3>8 DEF more
  <2> QED
    BY <2>2, <2>3
<1>13. \A w \in Workers : verb[w] \in Mutating /\ line.answer = "ok" /\ line.id = call[w].id => effects'[w] > 0
  <2> TAKE w \in Workers
  <2> HAVE verb[w] \in Mutating /\ line.answer = "ok" /\ line.id = call[w].id
  <2>1. r.from = w /\ outcome[1] = 1 /\ effects[w] \in Nat
    BY <1>1, <1>4, <1>5, <1>10
  <2> QED
    BY <1>9, <2>1
<1>14. \A q \in plug'.inflight : q \in plug.inflight
  BY <1>7 DEF held2
<1>15. \A w \in Workers : verb[w] \in {"create", "delete"} =>
         Once(w, call[w], stdin', plug'.inflight, stdout', effects'[w])
  BY <1>2, <1>7, <1>8, <1>12
<1>16. stdin' \in Seq(Asked) /\ \A i \in DOMAIN stdin' : \E j \in DOMAIN stdin : stdin'[i] = stdin[j]
  BY <1>1, <1>2
<1> QED
  BY <1>2, <1>5, <1>6, <1>7, <1>8, <1>9, <1>13, <1>14, <1>15, <1>16, PluginMovesOn

LEMMA PluginKilled ==
  ASSUME PluginInv, Killed, UNCHANGED <<host, reader, verb, call, pending, closed, nextID, stdin, stdout>>
  PROVE  PluginInv'
<1>1. /\ plug \in Plugs /\ stdin \in Seq(Asked) /\ stdout \in Seq(Said) /\ nextID \in Nat
      /\ effects \in [Workers -> Nat]
  BY DEF PluginInv, PluginType
<1>2. PICK done \in SUBSET {w \in Workers : verb[w] \in Mutating /\ \E r \in plug.inflight : r.from = w} :
        effects' = [w \in Workers |-> IF w \in done THEN effects[w] + 1 ELSE effects[w]]
  BY DEF Killed
<1>3. plug' \in Plugs /\ plug'.inflight = {}
  BY <1>1 DEF Killed, Plugs
<1>4. /\ effects' \in [Workers -> Nat] /\ \A w \in Workers : effects'[w] >= effects[w]
      /\ \A w \in Workers : effects'[w] = IF w \in done THEN effects[w] + 1 ELSE effects[w]
  BY <1>1, <1>2
<1>5. ASSUME NEW w \in Workers, verb[w] \in {"create", "delete"}
      PROVE  Once(w, call[w], stdin, {}, stdout, effects'[w])
  <2>1. Once(w, call[w], stdin, plug.inflight, stdout, effects[w])
    BY <1>5 DEF PluginInv
  <2>2. /\ NoneLive(w, stdin, plug.inflight) => NoneLive(w, stdin, {})
        /\ OneLive(w, stdin, plug.inflight) => OneLive(w, stdin, {})
    BY DEF NoneLive, OneLive
  <2>3. CASE w \notin done
    <3>1. Line(0, "ok") \in Said /\ Line(0, "ok").answer # "safe"
      BY DEF Line, Said, Outcome
    <3>2. Once(w, call[w], stdin, {}, stdout, effects[w])
      BY <1>1, <2>1, <2>2, <3>1, OnceBesideLine
    <3> QED
      BY <1>4, <2>3, <3>2
  <2>4. CASE w \in done
    <3>1. ~NoneLive(w, stdin, plug.inflight)
      BY <1>2, <2>4 DEF NoneLive
    <3>2. effects'[w] = 1
      BY <1>4, <2>1, <2>4, <3>1 DEF Once
    <3>3. NoneLive(w, stdin, {})
      BY <1>2, <2>1, <2>4 DEF Once, OneLive, NoneLive
    <3> QED
      BY <2>1, <2>2, <3>1, <3>2, <3>3 DEF Once, Fresh
  <2> QED
    BY <2>3, <2>4
<1>6. Line(0, "ok") \in Said /\ Line(0, "ok").id = 0 /\ Line(0, "ok").answer = "ok" /\ 0 <= nextID
  BY <1>1 DEF Line, Said, Outcome
<1>7. \A w \in Workers : verb[w] \in {"create", "delete"} =>
         Once(w, call[w], stdin', plug'.inflight, stdout', effects'[w])
  BY <1>3, <1>5
<1>8. stdin' \in Seq(Asked) /\ \A i \in DOMAIN stdin' : \E j \in DOMAIN stdin : stdin'[i] = stdin[j]
  BY <1>1
<1>9. \A r \in plug'.inflight : r \in plug.inflight
  BY <1>3
<1> QED
  BY <1>3, <1>4, <1>6, <1>7, <1>8, <1>9, PluginMovesOn

LEMMA DiesOrInterrupted ==
  ASSUME PluginInv, Die \/ Interrupt
  PROVE  PluginInv'
<1>1. CASE Die
  BY <1>1, PluginKilled DEF Die, hostVars, quasiConstants
<1>2. CASE Interrupt
  <2>1. UNCHANGED <<host, reader, verb, call, pending, closed, nextID, stdin, stdout>>
    BY <1>2 DEF Interrupt, hostVars, quasiConstants
  <2>2. CASE Killed
    BY <2>1, <2>2, PluginKilled
  <2>3. CASE UNCHANGED <<plug, effects>>
    <3>1. plug' \in Plugs /\ HostInv'
      BY <2>1, <2>3 DEF PluginInv, PluginType, HostInv
    <3> QED
      BY <2>1, <2>3, <3>1, SameMessages
  <2> QED
    BY <1>2, <2>2, <2>3 DEF Interrupt
<1> QED
  BY <1>1, <1>2


-----------------------------------------------------------------------------
(***************************************************************************)
(* A call that goes out.                                                   *)
(***************************************************************************)
\* What a request of somebody else does not change.
LEMMA LiveBesideRequest ==
  ASSUME NEW w, NEW in \in Seq(Asked), NEW held, NEW req \in Asked
  PROVE  /\ req.from # w /\ NoneLive(w, in, held) => NoneLive(w, Append(in, req), held)
         /\ req.from # w /\ OneLive(w, in, held) => OneLive(w, Append(in, req), held)
         /\ NoneLive(w, in, held) => OneLive(w, Append(in, req), held)
<1> DEFINE more == Append(in, req)
<1>1. \A i \in DOMAIN more : (i \in DOMAIN in /\ more[i] = in[i]) \/ (more[i] = req /\ i = Len(in) + 1)
  BY AppendFacts
<1> HIDE DEF more
<1>2. \A i \in DOMAIN more : more[i].from = w /\ req.from # w => i \in DOMAIN in /\ more[i] = in[i]
  BY <1>1
<1>3. NoneLive(w, in, held) => \A i \in DOMAIN more : more[i].from = w => i = Len(in) + 1
  BY <1>1 DEF NoneLive
<1>4. req.from # w /\ NoneLive(w, in, held) => NoneLive(w, more, held)
  BY <1>2 DEF NoneLive
<1>5. req.from # w /\ OneLive(w, in, held) => OneLive(w, more, held)
  BY <1>2 DEF OneLive
<1>6. NoneLive(w, in, held) => OneLive(w, more, held)
  BY <1>3 DEF OneLive, NoneLive
<1> QED
  BY <1>4, <1>5, <1>6 DEF more

\* A step that sends one request, or none, and says nothing else.
LEMMA RequestSent ==
  ASSUME PluginInv, NEW req \in Asked, stdin' = stdin \/ stdin' = Append(stdin, req),
         HostInv', call' \in [Callers -> Calls], pending' \subseteq Nat \ {0}, closed' \in BOOLEAN,
         nextID' \in Nat, plug' \in Plugs, plug'.inflight = plug.inflight,
         UNCHANGED <<verb, stdout, effects>>,
         Addressed(call', stdin', plug.inflight, stdout, pending', nextID'),
         \A w \in Workers :
           \/ call'[w] = call[w]
           \/ /\ call'[w].pc = "waiting" /\ call[w].pc \in {"ready", "registered", "waiting"}
              /\ call'[w].id = call[w].id \/ call'[w].id = 0
              /\ call'[w].answer \in {call[w].answer, "broken"}
           \/ /\ call'[w].pc = "registered" /\ call[w].pc = "ready" /\ stdin' = stdin
              /\ call'[w].answer = call[w].answer /\ \A i \in DOMAIN stdout : stdout[i].id # call'[w].id,
         stdin' # stdin => \A w \in Workers :
           req.from = w => call[w].pc = "registered" /\ call'[w].pc = "waiting",
         \A w \in Workers : call'[w].id = call[w].id /\ call[w].id \in pending' => call[w].id \in pending,
         0 \notin pending'
  PROVE  PluginInv'
<1>1. stdin \in Seq(Asked) /\ stdout \in Seq(Said) /\ Addressed(call, stdin, plug.inflight, stdout, pending, nextID)
  BY DEF PluginInv, PluginType
<1>2. stdin' \in Seq(Asked)
  <2>1. CASE stdin' = stdin
    BY <1>1, <2>1
  <2>2. CASE stdin' = Append(stdin, req)
    BY <1>1, <2>2, AppendFacts
  <2> QED
    BY <2>1, <2>2
<1>3. PluginType'
  BY <1>2 DEF PluginInv, PluginType
<1>4. ASSUME NEW w \in Workers, verb[w] \in {"create", "delete"}
      PROVE  Once(w, call'[w], stdin', plug'.inflight, stdout', effects'[w])
  <2>1. Once(w, call[w], stdin, plug.inflight, stdout, effects[w])
    BY <1>4 DEF PluginInv
  <2>2. CASE stdin' = Append(stdin, req) /\ stdin' # stdin /\ req.from = w
    <3>1. call[w].pc = "registered" /\ Fresh(w, stdin, plug.inflight, effects[w])
      BY <2>1, <2>2 DEF Once
    <3>2. call[w].answer # "safe" /\ \A i \in DOMAIN stdout : stdout[i].id = call[w].id => stdout[i].answer # "safe"
      BY <2>1, <3>1 DEF Once
    <3>3. OneLive(w, Append(stdin, req), plug.inflight) /\ effects[w] = 0
      BY <1>1, <3>1, LiveBesideRequest DEF Fresh
    <3>4. \A i \in DOMAIN stdout : stdout[i].answer = "safe" => stdout[i].id # call[w].id /\ stdout[i].id # 0
      BY <1>1, <3>2 DEF Addressed
    <3>5. /\ call'[w].pc = "waiting" /\ call'[w].answer # "safe"
          /\ call'[w].id = call[w].id \/ call'[w].id = 0
      BY <2>2, <3>1, <3>2
    <3> QED
      BY <2>2, <3>1, <3>2, <3>3, <3>4, <3>5 DEF Once, Fresh
  <2>3. CASE ~(stdin' = Append(stdin, req) /\ stdin' # stdin /\ req.from = w)
    <3> DEFINE in2 == stdin'
    <3>1. /\ NoneLive(w, stdin, plug.inflight) => NoneLive(w, in2, plug.inflight)
          /\ OneLive(w, stdin, plug.inflight) => OneLive(w, in2, plug.inflight)
      <4>1. CASE stdin' = stdin
        BY <4>1
      <4>2. CASE stdin' = Append(stdin, req) /\ req.from # w
        BY <1>1, <4>2, LiveBesideRequest
      <4> QED
        BY <2>3, <4>1, <4>2
    <3>2. \A i \in DOMAIN stdout : stdout[i].answer = "safe" => stdout[i].id # 0
      BY <1>1 DEF Addressed
    <3>3. call[w].answer = "safe" => call[w].pc = "waiting"
      BY <2>1 DEF Once
    <3>4. \A i \in DOMAIN stdout : stdout[i].answer = "safe" /\ stdout[i].id = call[w].id => call[w].pc = "waiting"
      BY <2>1 DEF Once
    <3> HIDE DEF in2
    <3>5. Once(w, call'[w], in2, plug.inflight, stdout, effects[w])
      BY <2>1, <3>1, <3>2, <3>3, <3>4, OnceKept
    <3> QED
      BY <3>5 DEF in2
  <2> QED
    BY <2>2, <2>3
<1>5. ASSUME NEW w \in Workers, verb[w] \in Mutating
      PROVE  Told(call'[w], stdout', pending', effects'[w])
  <2>1. Told(call[w], stdout, pending, effects[w])
    BY <1>5 DEF PluginInv
  <2>2. CASE call'[w].id = call[w].id
    BY <2>1, <2>2 DEF Told
  <2>3. CASE call'[w].id # call[w].id
    BY <2>1, <2>3 DEF Told
  <2> QED
    BY <2>2, <2>3
<1> QED
  BY <1>3, <1>4, <1>5, Assembled

LEMMA CallTyped ==
  ASSUME PluginInv, NEW c \in Callers
  PROVE  /\ call \in [Callers -> Calls] /\ call[c] \in Calls /\ call[c].id \in Nat
         /\ plug \in Plugs /\ stdin \in Seq(Asked) /\ stdout \in Seq(Said)
         /\ pending \subseteq Nat \ {0} /\ closed \in BOOLEAN /\ nextID \in Nat /\ HostInv
         /\ Addressed(call, stdin, plug.inflight, stdout, pending, nextID)
         /\ Workers \subseteq Callers /\ {"cancel", "shutdown"} \cap Callers = {}
BY PluginAssumption DEF PluginInv, PluginType, Callers, Main, Calls

LEMMA AddressesAfter ==
  ASSUME NEW calls, NEW in, NEW held, NEW out, NEW awaited, NEW last \in Nat,
         Addressed(calls, in, held, out, awaited, last),
         calls \in [Callers -> Calls], in \in Seq(Asked), held \subseteq Taken, out \in Seq(Said),
         awaited \subseteq Nat
  PROVE  Addressed(calls, in, held, out, awaited, last + 1)
<1>1. /\ \A c \in Callers : calls[c].id \in Nat
      /\ \A i \in DOMAIN in : in[i].id \in Nat
      /\ \A r \in held : r.id \in Nat
      /\ \A i \in DOMAIN out : out[i].id \in Int
  <2>1. \A i \in DOMAIN in : in[i] \in Asked
    OBVIOUS
  <2>2. \A i \in DOMAIN out : out[i] \in Said
    OBVIOUS
  <2> QED
    BY <2>1, <2>2 DEF Calls, Asked, Taken, Said
<1>2. \A n \in Int : n <= last => n <= last + 1
  OBVIOUS
<1> QED
  BY <1>1, <1>2 DEF Addressed

LEMMA RegisterKept ==
  ASSUME PluginInv, NEW c \in Callers, Register(c)
  PROVE  PluginInv'
<1> DEFINE n == nextID + 1
<1>1. /\ call[c].pc = "ready" /\ nextID' = n
      /\ UNCHANGED <<host, reader, closed, verb, plug, stdin, stdout, effects>>
  BY DEF Register, pluginVars, quasiConstants
<1>2. /\ call \in [Callers -> Calls] /\ call[c] \in Calls /\ call[c].id \in Nat
      /\ plug \in Plugs /\ stdin \in Seq(Asked) /\ stdout \in Seq(Said)
      /\ pending \subseteq Nat \ {0} /\ closed \in BOOLEAN /\ nextID \in Nat /\ HostInv
      /\ Addressed(call, stdin, plug.inflight, stdout, pending, nextID)
      /\ Workers \subseteq Callers /\ plug.inflight \subseteq Taken
  BY CallTyped, TypeKnown
<1>3. Addressed(call, stdin, plug.inflight, stdout, pending, n)
  BY <1>2, AddressesAfter
<1>4. call[c].id = 0
  BY <1>1, <1>2 DEF Addressed
<1>5. /\ \A i \in DOMAIN stdin : stdin[i].from # "cancel" => stdin[i].id # 0
      /\ \A i \in DOMAIN stdin : stdin[i].id \in Nat
      /\ \A r \in plug.inflight : r.id # 0 /\ r.id \in Nat
      /\ "cancel" \notin Callers
      /\ \A e \in Callers : call[e].id \in Nat
      /\ \A i \in DOMAIN stdout : stdout[i].id \in Int
      /\ \A id \in pending : id \in Nat /\ id # 0
  BY <1>2, TypeKnown, PluginAssumption DEF Callers, Main
<1>6. Line(0, "ok") \in Said /\ [id |-> 1, from |-> "cancel"] \in Asked
  BY DEF Line, Said, Outcome, Asked
<1>7. HostInv' <=> (closed => pending' = {}) /\ (reader = "draining" => closed)
                     /\ (host \in {"asked", "handshake", "schemas", "loaded", "configuring"} => \A w \in Workers : call'[w] = Idle)
  BY <1>1 DEF HostInv
<1>8. host \in {"asked", "handshake", "schemas", "loaded", "configuring"} => c \notin Workers
  BY <1>1, <1>2, IdleCall DEF HostInv
<1>9. CASE closed
  <2> DEFINE d == [call[c] EXCEPT !.answer = "broken", !.pc = "waiting"]
  <2>1. call' = [call EXCEPT ![c] = d] /\ pending' = pending
    BY <1>9 DEF Register
  <2>2. d \in Calls /\ d.id = 0 /\ d.pc = "waiting" /\ d.answer = "broken"
    BY <1>2, <1>4 DEF Calls, CallStates, CallAnswers
  <2> HIDE DEF d
  <2>3. /\ call' \in [Callers -> Calls] /\ call'[c] = d
        /\ \A e \in Callers \ {c} : call'[e] = call[e]
    BY <1>2, <2>1, <2>2
  <2>4. Addressed(call', stdin, plug.inflight, stdout, pending, n)
    <3> DEFINE calls2 == call'
    <3>1. \A e \in Callers : \/ calls2[e].id = call[e].id /\ calls2[e].pc = call[e].pc
                             \/ calls2[e].id = 0 /\ calls2[e].pc # "registered"
      BY <2>2, <2>3
    <3>2. \A i \in DOMAIN stdout : stdout[i].id <= n /\ (stdout[i].answer = "safe" => stdout[i].id # 0)
      BY <1>3 DEF Addressed
    <3>3. n \in Nat
      BY <1>2
    <3> HIDE DEF calls2, n
    <3> QED
      BY <1>3, <1>5, <3>1, <3>2, <3>3, AddressesKept DEF calls2
  <2>5. HostInv'
    BY <1>2, <1>7, <1>8, <2>1, <2>3 DEF HostInv
  <2>6. \A w \in Workers : call'[w] = call[w] \/
           (call'[w].pc = "waiting" /\ call[w].pc = "ready" /\ call'[w].id = 0 /\ call'[w].answer = "broken")
    BY <1>1, <1>2, <2>2, <2>3
  <2> QED
    <3>1. nextID' \in Nat /\ Addressed(call', stdin', plug.inflight, stdout, pending', nextID')
      BY <1>1, <1>2, <2>1, <2>4
    <3>2. /\ stdin' = stdin /\ plug' \in Plugs /\ plug'.inflight = plug.inflight
          /\ pending' \subseteq Nat \ {0} /\ closed' \in BOOLEAN /\ 0 \notin pending'
      BY <1>1, <1>2, <2>1
    <3> QED
      BY <1>1, <1>6, <2>1, <2>3, <2>5, <2>6, <3>1, <3>2, RequestSent
<1>10. CASE ~closed
  <2> DEFINE d == [call[c] EXCEPT !.id = n, !.pc = "registered"]
  <2>1. call' = [call EXCEPT ![c] = d] /\ pending' = pending \cup {n}
    BY <1>10 DEF Register
  <2>2. d \in Calls /\ d.id = n /\ d.pc = "registered" /\ d.answer = call[c].answer
    <3>1. n \in Nat
      BY <1>2
    <3> HIDE DEF n
    <3> QED
      BY <1>2, <3>1 DEF Calls, CallStates
  <2> HIDE DEF d
  <2>3. /\ call' \in [Callers -> Calls] /\ call'[c] = d
        /\ \A e \in Callers \ {c} : call'[e] = call[e]
    BY <1>2, <2>1, <2>2
  <2>4. /\ \A e \in Callers : call[e].id < n
        /\ \A i \in DOMAIN stdin : stdin[i].id < n
        /\ \A r \in plug.inflight : r.id < n
        /\ \A i \in DOMAIN stdout : stdout[i].id < n
        /\ \A id \in pending : id < n
        /\ n \in Nat \ {0}
    <3>1. n \in Nat \ {0} /\ \A m \in Int : m <= nextID => m < n
      BY <1>2
    <3>2. /\ \A e \in Callers : call[e].id <= nextID
          /\ \A i \in DOMAIN stdin : stdin[i].id <= nextID
          /\ \A r \in plug.inflight : r.id <= nextID
          /\ \A i \in DOMAIN stdout : stdout[i].id <= nextID
          /\ \A id \in pending : id <= nextID
      BY <1>2 DEF Addressed
    <3> HIDE DEF n
    <3> QED
      BY <1>5, <3>1, <3>2
  <2> HIDE DEF n
  <2>5. Addressed(call', stdin, plug.inflight, stdout, pending', n)
    <3>1. \A e \in Callers : call'[e].id <= n
      BY <1>5, <2>2, <2>3, <2>4
    <3>2. /\ \A e \in Callers : call'[e].pc \notin {"registered", "waiting"} => call'[e].id = 0
          /\ \A e \in Callers : call'[e].pc = "registered" => call'[e].id # 0
      BY <1>3, <2>2, <2>3, <2>4 DEF Addressed
    <3>3. \A e, k \in Callers : call'[e].id = call'[k].id => e = k \/ call'[e].id = 0
      BY <1>3, <1>5, <2>2, <2>3, <2>4 DEF Addressed
    <3>4. \A i \in DOMAIN stdin, e \in Callers :
            stdin[i].from \in Callers /\ stdin[i].id = call'[e].id => stdin[i].from = e /\ call'[e].pc = "waiting"
      BY <1>3, <1>5, <2>2, <2>3, <2>4 DEF Addressed
    <3>5. \A i \in DOMAIN stdin, e \in Callers : stdin[i].from = "shutdown" => stdin[i].id # call'[e].id
      BY <1>3, <1>5, <2>2, <2>3, <2>4 DEF Addressed
    <3>6. \A r \in plug.inflight, e \in Callers : r.id = call'[e].id => r.from = e /\ call'[e].pc = "waiting"
      BY <1>3, <1>5, <2>2, <2>3, <2>4 DEF Addressed
    <3>7. \A id \in pending' : id <= n
      <4>1. n <= n /\ \A id \in pending : id <= n
        BY <1>5, <2>4
      <4> QED
        BY <2>1, <4>1
    <3> QED
      BY <1>3, <3>1, <3>2, <3>3, <3>4, <3>5, <3>6, <3>7 DEF Addressed
  <2>6. HostInv'
    BY <1>2, <1>7, <1>8, <1>10, <2>3 DEF HostInv
  <2>7. \A w \in Workers : call'[w] = call[w] \/
           (/\ call'[w].pc = "registered" /\ call[w].pc = "ready"
            /\ call'[w].answer = call[w].answer /\ \A i \in DOMAIN stdout : stdout[i].id # call'[w].id)
    BY <1>1, <1>2, <1>5, <2>2, <2>3, <2>4
  <2>8. /\ \A w \in Workers : call'[w].id = call[w].id /\ call[w].id \in pending' => call[w].id \in pending
        /\ pending' \subseteq Nat \ {0} /\ 0 \notin pending'
    <3>1. \A e \in Callers : call[e].id # n
      BY <1>5, <2>4
    <3> QED
      BY <1>2, <1>5, <2>1, <2>4, <3>1
  <2> QED
    BY <1>1, <1>2, <1>6, <2>3, <2>4, <2>5, <2>6, <2>7, <2>8, RequestSent
<1> QED
  BY <1>9, <1>10

\* One more request, on behalf of the call it names or of none.
LEMMA AddressesOnTheWay ==
  ASSUME NEW calls, NEW in \in Seq(Asked), NEW held, NEW out, NEW awaited, NEW last \in Nat,
         Addressed(calls, in, held, out, awaited, last),
         NEW req \in Asked, req.id <= last,
         \A c \in Callers : req.from \in Callers /\ req.id = calls[c].id =>
           req.from = c /\ calls[c].pc = "waiting",
         \A c \in Callers : req.from = "shutdown" => req.id # calls[c].id
  PROVE  Addressed(calls, Append(in, req), held, out, awaited, last)
<1> DEFINE more == Append(in, req)
<1>1. \A i \in DOMAIN more : (i \in DOMAIN in /\ more[i] = in[i]) \/ more[i] = req
  BY AppendFacts
<1> HIDE DEF more
<1>2. \A i \in DOMAIN more : more[i].id <= last
  BY <1>1 DEF Addressed
<1>3. \A i \in DOMAIN more, c \in Callers :
        more[i].from \in Callers /\ more[i].id = calls[c].id => more[i].from = c /\ calls[c].pc = "waiting"
  BY <1>1 DEF Addressed
<1>4. \A i \in DOMAIN more, c \in Callers : more[i].from = "shutdown" => more[i].id # calls[c].id
  BY <1>1 DEF Addressed
<1> QED
  BY <1>2, <1>3, <1>4 DEF Addressed, more

LEMMA WriteKept ==
  ASSUME PluginInv, NEW c \in Callers, Write(c)
  PROVE  PluginInv'
<1>1. /\ call[c].pc = "registered"
      /\ UNCHANGED <<host, reader, closed, nextID, verb, plug, stdout, effects>>
  BY DEF Write, quasiConstants
<1>2. /\ call \in [Callers -> Calls] /\ call[c] \in Calls /\ call[c].id \in Nat
      /\ plug \in Plugs /\ stdin \in Seq(Asked) /\ stdout \in Seq(Said)
      /\ pending \subseteq Nat \ {0} /\ closed \in BOOLEAN /\ nextID \in Nat /\ HostInv
      /\ Addressed(call, stdin, plug.inflight, stdout, pending, nextID)
      /\ Workers \subseteq Callers
  BY CallTyped
<1>3. /\ \A i \in DOMAIN stdin : stdin[i].from # "cancel" => stdin[i].id # 0
      /\ \A r \in plug.inflight : r.id # 0
      /\ "cancel" \notin Callers /\ "shutdown" \notin Callers
  BY TypeKnown, PluginAssumption DEF Callers, Main
<1>4. call[c].id # 0 /\ call[c].id <= nextID
  BY <1>1, <1>2 DEF Addressed
<1> DEFINE req == [id |-> call[c].id, from |-> c]
           d == call'[c]
<1>5. req \in Asked /\ req.id = call[c].id /\ req.from = c
  BY <1>2, <1>3, <1>4 DEF Asked
<1>6. /\ call' \in [Callers -> Calls] /\ \A e \in Callers \ {c} : call'[e] = call[e]
      /\ d.id = call[c].id /\ d.pc = "waiting" /\ d.answer \in {call[c].answer, "broken"}
      /\ pending' \subseteq pending
      /\ stdin' = stdin \/ stdin' = Append(stdin, req)
  <2>1. CASE plug.status = "exited"
    <3> DEFINE said == IF call[c].answer = NoAnswer THEN "broken" ELSE call[c].answer
    <3>1. call' = [call EXCEPT ![c].pc = "waiting", ![c].answer = said]
          /\ pending' = pending \ {call[c].id} /\ stdin' = stdin
      BY <2>1 DEF Write
    <3>2. said \in CallAnswers /\ said \in {call[c].answer, "broken"}
      BY <1>2 DEF Calls, CallAnswers
    <3> HIDE DEF said
    <3> QED
      BY <1>2, <3>1, <3>2 DEF Calls, CallStates
  <2>2. CASE plug.status # "exited"
    <3>1. call' = [call EXCEPT ![c].pc = "waiting"] /\ pending' = pending /\ stdin' = Append(stdin, req)
      BY <2>2 DEF Write
    <3> HIDE DEF req
    <3> QED
      BY <1>2, <3>1 DEF Calls, CallStates
  <2> QED
    BY <2>1, <2>2
<1> HIDE DEF d, req
<1>7. d = call'[c]
  BY DEF d
<1>8. HostInv'
  <2>1. host \in {"asked", "handshake", "schemas", "loaded", "configuring"} => c \notin Workers
    BY <1>1, <1>2, IdleCall DEF HostInv
  <2>2. closed => pending' = {}
    BY <1>2, <1>6 DEF HostInv
  <2>3. host \in {"asked", "handshake", "schemas", "loaded", "configuring"} => \A w \in Workers : call'[w] = Idle
    BY <1>2, <1>6, <2>1 DEF HostInv
  <2>4. reader = "draining" => closed
    BY <1>2 DEF HostInv
  <2> QED
    BY <1>1, <2>2, <2>3, <2>4 DEF HostInv
<1>9. Addressed(call', stdin, plug.inflight, stdout, pending', nextID)
  <2> DEFINE calls2 == call'
             awaited2 == pending'
  <2>1. \A e \in Callers : \/ /\ calls2[e].id = call[e].id
                              /\ calls2[e].pc = call[e].pc
                                   \/ (call[e].pc = "registered" /\ calls2[e].pc = "waiting")
                           \/ calls2[e].id = 0 /\ calls2[e].pc # "registered"
    BY <1>1, <1>6, <1>7
  <2>2. \A i \in DOMAIN stdout : stdout[i].id <= nextID /\ (stdout[i].answer = "safe" => stdout[i].id # 0)
    BY <1>2 DEF Addressed
  <2>3. awaited2 \subseteq pending
    BY <1>6
  <2> HIDE DEF calls2, awaited2
  <2>4. Addressed(calls2, stdin, plug.inflight, stdout, awaited2, nextID)
    BY <1>2, <1>3, <2>1, <2>2, <2>3, AddressesKept
  <2> QED
    BY <2>4 DEF calls2, awaited2
<1>10. Addressed(call', stdin', plug.inflight, stdout, pending', nextID')
  <2>1. CASE stdin' = stdin
    BY <1>1, <1>9, <2>1
  <2>2. CASE stdin' = Append(stdin, req)
    <3>1. \A e \in Callers : req.id = call'[e].id => c = e
      BY <1>4, <1>5, <1>6, <1>7, <1>9 DEF Addressed
    <3>2. \A e \in Callers : req.from \in Callers /\ req.id = call'[e].id => req.from = e /\ call'[e].pc = "waiting"
      BY <1>5, <1>6, <1>7, <3>1
    <3>3. \A e \in Callers : req.from = "shutdown" => req.id # call'[e].id
      BY <1>3, <1>5
    <3>4. req.id <= nextID
      BY <1>4, <1>5
    <3>5. Addressed(call', Append(stdin, req), plug.inflight, stdout, pending', nextID)
      BY <1>2, <1>5, <1>9, <3>2, <3>3, <3>4, AddressesOnTheWay
    <3> QED
      BY <1>1, <2>2, <3>5
  <2> QED
    BY <1>6, <2>1, <2>2
<1>11. \A w \in Workers : call'[w] = call[w] \/
         (/\ call'[w].pc = "waiting" /\ call[w].pc = "registered"
          /\ call'[w].id = call[w].id /\ call'[w].answer \in {call[w].answer, "broken"})
  BY <1>1, <1>2, <1>6, <1>7
<1>12. \A w \in Workers : req.from = w => call[w].pc = "registered" /\ call'[w].pc = "waiting"
  BY <1>1, <1>5, <1>6, <1>7
<1>13. /\ pending' \subseteq Nat \ {0} /\ 0 \notin pending'
       /\ \A w \in Workers : call'[w].id = call[w].id /\ call[w].id \in pending' => call[w].id \in pending
  BY <1>2, <1>6
<1> QED
  BY <1>1, <1>2, <1>5, <1>6, <1>8, <1>10, <1>11, <1>12, <1>13, RequestSent

LEMMA CancelKept ==
  ASSUME PluginInv, NEW w \in Workers, Cancel(w)
  PROVE  PluginInv'
<1> DEFINE req == [id |-> call[w].id, from |-> "cancel"]
<1>1. /\ call[w].pc = "waiting" /\ call' = [call EXCEPT ![w].cancelled = TRUE]
      /\ stdin' = stdin \/ stdin' = Append(stdin, req)
      /\ UNCHANGED <<host, reader, pending, closed, nextID, verb, plug, stdout, effects>>
  BY DEF Cancel, quasiConstants
<1>2. w \in Callers
  BY DEF Callers
<1>3. /\ call \in [Callers -> Calls] /\ call[w] \in Calls /\ call[w].id \in Nat
      /\ plug \in Plugs /\ stdin \in Seq(Asked) /\ stdout \in Seq(Said)
      /\ pending \subseteq Nat \ {0} /\ closed \in BOOLEAN /\ nextID \in Nat /\ HostInv
      /\ Addressed(call, stdin, plug.inflight, stdout, pending, nextID)
      /\ Workers \subseteq Callers
  BY <1>2, CallTyped
<1>4. /\ \A i \in DOMAIN stdin : stdin[i].from # "cancel" => stdin[i].id # 0
      /\ \A r \in plug.inflight : r.id # 0
      /\ "cancel" \notin Callers /\ "cancel" \notin Workers
  BY TypeKnown, PluginAssumption DEF Callers, Main
<1>5. req \in Asked /\ req.id = call[w].id /\ req.from = "cancel" /\ req.id <= nextID
  BY <1>3 DEF Asked, Addressed
<1> HIDE DEF req
<1>6. /\ call' \in [Callers -> Calls] /\ \A e \in Callers \ {w} : call'[e] = call[e]
      /\ call'[w].id = call[w].id /\ call'[w].pc = call[w].pc /\ call'[w].answer = call[w].answer
  BY <1>1, <1>2, <1>3 DEF Calls
<1>7. HostInv'
  <2>1. host \notin {"asked", "handshake", "schemas", "loaded", "configuring"}
    BY <1>1, <1>3, IdleCall DEF HostInv
  <2> QED
    BY <1>1, <1>3, <2>1 DEF HostInv
<1>8. Addressed(call', stdin, plug.inflight, stdout, pending, nextID)
  <2> DEFINE calls2 == call'
  <2>1. \A e \in Callers : calls2[e].id = call[e].id /\ calls2[e].pc = call[e].pc
    BY <1>6
  <2>2. \A i \in DOMAIN stdout : stdout[i].id <= nextID /\ (stdout[i].answer = "safe" => stdout[i].id # 0)
    BY <1>3 DEF Addressed
  <2> HIDE DEF calls2
  <2>3. Addressed(calls2, stdin, plug.inflight, stdout, pending, nextID)
    BY <1>3, <1>4, <2>1, <2>2, AddressesKept
  <2> QED
    BY <2>3 DEF calls2
<1>9. Addressed(call', stdin', plug.inflight, stdout, pending', nextID')
  <2>1. CASE stdin' = stdin
    BY <1>1, <1>8, <2>1
  <2>2. CASE stdin' = Append(stdin, req)
    <3>1. Addressed(call', Append(stdin, req), plug.inflight, stdout, pending, nextID)
      BY <1>3, <1>4, <1>5, <1>8, AddressesOnTheWay
    <3> QED
      BY <1>1, <2>2, <3>1
  <2> QED
    BY <1>1, <2>1, <2>2
<1>10. \A k \in Workers : call'[k] = call[k] \/
         (/\ call'[k].pc = "waiting" /\ call[k].pc = "waiting"
          /\ call'[k].id = call[k].id /\ call'[k].answer = call[k].answer)
  BY <1>1, <1>3, <1>6
<1>11. \A k \in Workers : req.from # k
  BY <1>4, <1>5
<1> QED
  BY <1>1, <1>3, <1>5, <1>6, <1>7, <1>9, <1>10, <1>11, RequestSent

LEMMA CloseKept ==
  ASSUME PluginInv, Close
  PROVE  PluginInv'
<1> DEFINE n == nextID + 1
           req == [id |-> nextID + 1, from |-> "shutdown"]
<1>1. /\ host' \in {"closing", "refusing"} /\ nextID' = n
      /\ plug' = [plug EXCEPT !.eof = TRUE]
      /\ stdin' = stdin \/ stdin' = Append(stdin, req)
      /\ UNCHANGED <<reader, pending, closed, call, verb, stdout, effects>>
  BY DEF Close, quasiConstants
<1>2. /\ call \in [Callers -> Calls] /\ plug \in Plugs /\ stdin \in Seq(Asked) /\ stdout \in Seq(Said)
      /\ pending \subseteq Nat \ {0} /\ closed \in BOOLEAN /\ nextID \in Nat /\ HostInv
      /\ Addressed(call, stdin, plug.inflight, stdout, pending, nextID)
  BY DEF PluginInv, PluginType
<1>3. plug' \in Plugs /\ plug'.inflight = plug.inflight /\ plug.inflight \subseteq Taken
  BY <1>1, <1>2, TypeKnown DEF Plugs
<1>4. "shutdown" \notin Callers /\ "shutdown" \notin Workers /\ \A e \in Callers : call[e].id \in Nat
  BY TypeKnown, PluginAssumption DEF Callers, Main
<1>5. n \in Nat \ {0} /\ \A e \in Callers : call[e].id # n
  BY <1>2, <1>4 DEF Addressed
<1>6. req \in Asked /\ req.id = n /\ req.from = "shutdown"
  BY <1>5 DEF Asked
<1>7. HostInv'
  BY <1>1, <1>2 DEF HostInv
<1>8. Addressed(call, stdin, plug.inflight, stdout, pending, n)
  BY <1>2, <1>3, AddressesAfter
<1> HIDE DEF n, req
<1>9. Addressed(call', stdin', plug.inflight, stdout, pending', nextID')
  <2>1. CASE stdin' = stdin
    BY <1>1, <1>8, <2>1
  <2>2. CASE stdin' = Append(stdin, req)
    <3>1. req.id <= n
      BY <1>5, <1>6
    <3>2. Addressed(call, Append(stdin, req), plug.inflight, stdout, pending, n)
      BY <1>2, <1>4, <1>5, <1>6, <1>8, <3>1, AddressesOnTheWay
    <3> QED
      BY <1>1, <2>2, <3>2
  <2> QED
    BY <1>1, <2>1, <2>2
<1>10. \A w \in Workers : req.from # w
  BY <1>4, <1>6
<1>11. nextID' \in Nat /\ 0 \notin pending'
  BY <1>1, <1>2, <1>5
<1> QED
  BY <1>1, <1>2, <1>3, <1>6, <1>7, <1>9, <1>10, <1>11, RequestSent

-----------------------------------------------------------------------------
LEMMA PluginInvInit == PluginInit => PluginInv
<1> SUFFICES ASSUME PluginInit
             PROVE  PluginInv
  OBVIOUS
<1>1. /\ verb \in [Workers -> Verbs] /\ call = [c \in Callers |-> Idle]
      /\ effects = [w \in Workers |-> 0] /\ stdin = <<>> /\ stdout = <<>>
      /\ pending = {} /\ closed = FALSE /\ nextID = 0 /\ reader = "off" /\ plug = NotRunning
  BY PluginAssumption DEF PluginInit
<1>2. plug \in Plugs /\ plug.inflight = {}
  BY <1>1 DEF NotRunning, Plugs
<1>3. PluginType
  <2>1. stdin \in Seq(Asked) /\ stdout \in Seq(Said)
    BY <1>1, EmptySequence
  <2>2. call \in [Callers -> Calls] /\ effects \in [Workers -> Nat]
    BY <1>1, IdleCall
  <2>3. pending \subseteq Nat \ {0} /\ closed \in BOOLEAN /\ nextID \in Nat
    BY <1>1
  <2> QED
    BY <1>1, <1>2, <2>1, <2>2, <2>3 DEF PluginType
<1>4. HostInv
  BY <1>1 DEF HostInv, Callers
<1>5. Addressed(call, stdin, plug.inflight, stdout, pending, nextID)
  BY <1>1, <1>2, IdleCall DEF Addressed
<1>6. ASSUME NEW w \in Workers
      PROVE  /\ Once(w, call[w], stdin, plug.inflight, stdout, effects[w])
             /\ Told(call[w], stdout, pending, effects[w])
  <2>1. call[w] = Idle /\ effects[w] = 0
    BY <1>1 DEF Callers
  <2>2. Fresh(w, stdin, plug.inflight, 0) /\ OneLive(w, stdin, plug.inflight)
    BY <1>1, <1>2 DEF Fresh, NoneLive, OneLive
  <2> QED
    BY <1>1, <2>1, <2>2, IdleCall DEF Once, Told
<1> QED
  BY <1>3, <1>4, <1>5, <1>6 DEF PluginInv

LEMMA PluginInvStep == PluginInv /\ [PluginNext]_pluginClientVars => PluginInv'
<1> SUFFICES ASSUME PluginInv, [PluginNext]_pluginClientVars
             PROVE  PluginInv'
  OBVIOUS
<1>1. CASE HostStep
  BY <1>1, MovesOn, LoadingMovesOn, LoadingReads, CloseKept DEF HostStep
<1>2. CASE ReaderStep
  BY <1>2, ReaderMovesOn
<1>3. CASE PluginStep
  BY <1>3, MovesOn, SpeaksUnasked, TakesRequest, AnswersRequest DEF PluginStep
<1>4. ASSUME NEW c \in Callers, CallStep(c)
      PROVE  PluginInv'
  BY <1>4, RegisterKept, WriteKept, AttemptMovesOn DEF CallStep
<1>5. ASSUME NEW w \in Workers, Cancel(w)
      PROVE  PluginInv'
  BY <1>5, CancelKept
<1>6. CASE Die \/ Misspeak \/ Interrupt
  BY <1>6, DiesOrInterrupted, SpeaksUnasked
<1>7. CASE UNCHANGED pluginClientVars
  BY <1>7, MovesOn
<1> QED
  BY <1>1, <1>2, <1>3, <1>4, <1>5, <1>6, <1>7 DEF PluginNext

LEMMA PluginInvariant == PluginSpec => []PluginInv
<1>1. PluginInit => PluginInv
  BY PluginInvInit
<1>2. PluginInv /\ [PluginNext]_pluginClientVars => PluginInv'
  BY PluginInvStep
<1> QED
  BY <1>1, <1>2, PTL DEF PluginSpec

(***************************************************************************)
(* A create or a delete is carried out once at most, for any number of     *)
(* workers, attempts, faults and lines in the pipe: the request of one     *)
(* call is in one place only, and a call is made again only when nothing   *)
(* of it is left and nothing came of it (client.go, retry.go).             *)
(***************************************************************************)
THEOREM ChangesAreMadeOnce == PluginSpec => []CarriedOutOnce
<1>1. PluginInv => CarriedOutOnce
  <2> SUFFICES ASSUME PluginInv, NEW w \in Workers, verb[w] \in {"create", "delete"}
               PROVE  effects[w] <= 1
    BY DEF CarriedOutOnce
  <2>1. effects[w] \in {0, 1}
    BY DEF PluginInv, Once
  <2> QED
    BY <2>1
<1> QED
  BY <1>1, PluginInvariant, PTL

(***************************************************************************)
(* A change the host takes for made was made, whatever the plugin repeats  *)
(* or says unasked: the first answer to a call that is awaited is the      *)
(* plugin's own, and an id is never used again (client.go serve, call).    *)
(***************************************************************************)
THEOREM AnswersReachTheirCall == PluginSpec => []AcceptedMeansDone
<1>1. PluginInv => AcceptedMeansDone
  BY DEF PluginInv, Told, AcceptedMeansDone
<1> QED
  BY <1>1, PluginInvariant, PTL
=============================================================================
