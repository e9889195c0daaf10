--------------------------- MODULE BackendClient ---------------------------
(***************************************************************************)
(* State kept by a backend plugin: commands that lock, read, write and     *)
(* unlock one environment (cli/interrupt.go) over a pipe to a child of     *)
(* their own (backendhost/host.go), which serves one request at a time     *)
(* (pkg/backendsdk/serve.go) on a store that all of them share.            *)
(*                                                                         *)
(* The store is external and keeps the contract of pkg/backend: Lock is    *)
(* exclusive, Put and Unlock refuse whoever does not hold the lock, and an *)
(* error means that nothing changed.  Everything between the command and   *)
(* the store may be lost, late, repeated or nonsense.                      *)
(***************************************************************************)
EXTENDS Integers, Sequences

CONSTANTS
  Hosts,        \* infrena processes, by PID
  Nobody,
  MaxPuts,      \* writes of each command
  MaxSerial,    \* bound on the serial stored
  MaxMishaps    \* bound on failures of the store, deaths, kills and nonsense

ASSUME BackendAssumption ==
  /\ Nobody \notin Hosts
  /\ MaxPuts \in [Hosts -> Nat] /\ MaxSerial \in Nat /\ MaxMishaps \in Nat

VARIABLES
  store,     \* what the store holds for the environment: a lock and a state
  versions,  \* every state that was ever stored
  cmd,       \* each command
  client,    \* its connection: the fields of client
  child,     \* the backend process: request being read, output, life
  mishaps

backendVars == <<store, versions, cmd, client, child, mishaps>>

Empty == [serial |-> 0, log |-> <<>>]
Off == [pc |-> "off", method |-> "none", mem |-> Empty, left |-> 0, cancelled |-> FALSE]
NoClient == [id |-> 0, closed |-> FALSE]
NoChild == [status |-> "none", eof |-> FALSE, in |-> <<>>, out |-> <<>>]

BackendInit ==
  /\ store = [lock |-> Nobody, state |-> Empty]
  /\ versions = {Empty}
  /\ cmd = [h \in Hosts |-> Off]
  /\ client = [h \in Hosts |-> NoClient]
  /\ child = [h \in Hosts |-> NoChild]
  /\ mishaps = 0

Calling(c, method) == [c EXCEPT !.pc = "call", !.method = method]
Closing(c) == [c EXCEPT !.pc = "close", !.method = "none"]
Nonsense == [id |-> -1, answer |-> "nonsense", state |-> Empty]

-----------------------------------------------------------------------------
\* Open: find, checkLock and launch, up to the handshake.
StartCommand(h) ==
  /\ cmd[h].pc = "off" /\ child[h].status = "none"
  /\ cmd' = [cmd EXCEPT ![h] = [Off EXCEPT !.pc = "handshake", !.left = MaxPuts[h]]]
  /\ client' = [client EXCEPT ![h] = NoClient]
  /\ child' = [child EXCEPT ![h] = [NoChild EXCEPT !.status = "starting"]]
  /\ UNCHANGED <<store, versions, mishaps>>

\* The hello, then configure.  A backend refused for its hello has its input
\* closed and is killed before it is waited for.
Greeting(h) ==
  /\ cmd[h].pc = "handshake" /\ child[h].out # <<>>
  /\ IF Head(child[h].out).answer = "hello"
     THEN /\ cmd' = [cmd EXCEPT ![h] = Calling(@, "configure")]
          /\ child' = [child EXCEPT ![h].out = Tail(@)]
     ELSE /\ cmd' = [cmd EXCEPT ![h] = Off]
          /\ child' = [child EXCEPT ![h] = [NoChild EXCEPT !.status = "exited"]]
  /\ UNCHANGED <<store, versions, client, mishaps>>

NoGreeting(h) ==
  /\ cmd[h].pc = "handshake" /\ child[h].out = <<>> /\ child[h].status = "exited"
  /\ cmd' = [cmd EXCEPT ![h] = Off]
  /\ UNCHANGED <<store, versions, client, child, mishaps>>

(***************************************************************************)
(* What the command does next, with the answer to its last call in hand:   *)
(* withLockedEnvironment around Get and Puts.  Put stamps the serial in    *)
(* memory before it calls and takes the stamp back unless it is answered.  *)
(***************************************************************************)
After(c, answer, state) ==
  CASE c.method = "configure" -> IF answer = "ok" THEN Calling(c, "lock") ELSE Closing(c)
    [] c.method = "lock" -> IF answer = "ok" THEN Calling(c, "get") ELSE Closing(c)
    [] c.method = "get" -> IF answer = "ok" THEN [c EXCEPT !.pc = "work", !.mem = state]
                           ELSE Calling(c, "unlock")
    [] c.method = "put" -> IF answer = "ok" THEN [c EXCEPT !.pc = "work"]
                           ELSE [c EXCEPT !.pc = "work", !.mem.serial = @ - 1]
    [] c.method = "unlock" -> Closing(c)

\* A write: the memory holds one more change whether or not it gets stored.
Work(h) ==
  /\ cmd[h].pc = "work"
  /\ \/ /\ cmd[h].left > 0 /\ cmd[h].mem.serial < MaxSerial
        /\ cmd' = [cmd EXCEPT ![h] = [Calling(cmd[h], "put") EXCEPT !.left = @ - 1,
             !.mem = [serial |-> cmd[h].mem.serial + 1, log |-> Append(cmd[h].mem.log, h)]]]
     \/ cmd' = [cmd EXCEPT ![h] = Calling(@, "unlock")]
  /\ UNCHANGED <<store, versions, client, child, mishaps>>

\* fail: the connection has ended for good, and its output is emptied.
EndConnection(h) ==
  /\ client' = [client EXCEPT ![h].closed = TRUE]
  /\ child' = [child EXCEPT ![h].out = <<>>]

\* call, up to the write.  A connection that ended, or a context cancelled
\* before anything was written, refuses; Put and Unlock are never cancelled.
Ask(h) ==
  /\ cmd[h].pc = "call"
  /\ IF \/ client[h].closed
        \/ cmd[h].cancelled /\ cmd[h].method \in {"configure", "lock", "get"}
     THEN /\ cmd' = [cmd EXCEPT ![h] = After(@, "failed", Empty)]
          /\ UNCHANGED <<client, child>>
     ELSE IF child[h].status = "exited"
     THEN /\ cmd' = [cmd EXCEPT ![h] = After(@, "failed", Empty)]
          /\ EndConnection(h)
     ELSE /\ cmd' = [cmd EXCEPT ![h].pc = "wait"]
          /\ client' = [client EXCEPT ![h].id = @ + 1]
          /\ child' = [child EXCEPT ![h].in = Append(@,
               [id |-> client[h].id + 1, method |-> cmd[h].method, state |-> cmd[h].mem])]
  /\ UNCHANGED <<store, versions, mishaps>>

\* Mutant: the next line is the answer.
TakeReplyUnchecked(h) ==
  /\ cmd[h].pc = "wait" /\ child[h].out # <<>> /\ Head(child[h].out).id # -1
  /\ LET line == Head(child[h].out) IN
     /\ cmd' = [cmd EXCEPT ![h] = After(@, line.answer, line.state)]
     /\ child' = [child EXCEPT ![h].out = Tail(@)]
     /\ UNCHANGED client
  /\ UNCHANGED <<store, versions, mishaps>>

\* call, from the next line on: an answer to another question, like a line that
\* is none, ends the connection.
TakeReply(h) ==
  /\ cmd[h].pc = "wait" /\ child[h].out # <<>>
  /\ LET line == Head(child[h].out) IN
     IF line.id = client[h].id
     THEN /\ cmd' = [cmd EXCEPT ![h] = After(@, line.answer, line.state)]
          /\ child' = [child EXCEPT ![h].out = Tail(@)]
          /\ UNCHANGED client
     ELSE cmd' = [cmd EXCEPT ![h] = After(@, "failed", Empty)] /\ EndConnection(h)
  /\ UNCHANGED <<store, versions, mishaps>>

NoReply(h) ==
  /\ cmd[h].pc = "wait" /\ child[h].out = <<>> /\ child[h].status = "exited"
  /\ cmd' = [cmd EXCEPT ![h] = After(@, "failed", Empty)]
  /\ EndConnection(h)
  /\ UNCHANGED <<store, versions, mishaps>>

\* close: shutdown and the end of input, then the wait for the exit.
CloseConnection(h) ==
  /\ cmd[h].pc = "close"
  /\ cmd' = [cmd EXCEPT ![h].pc = "closing"]
  /\ client' = [client EXCEPT ![h].id = @ + 1]
  /\ child' = [child EXCEPT ![h].eof = TRUE,
       ![h].in = IF child[h].status = "exited" THEN @
                 ELSE Append(@, [id |-> client[h].id + 1, method |-> "shutdown", state |-> Empty])]
  /\ UNCHANGED <<store, versions, mishaps>>

Disconnected(h) ==
  /\ cmd[h].pc = "closing" /\ child[h].status = "exited"
  /\ cmd' = [cmd EXCEPT ![h] = Off]
  /\ UNCHANGED <<store, versions, client, child, mishaps>>

InterruptCommand(h) ==
  /\ cmd[h].pc \notin {"off", "handshake", "closing"} /\ ~cmd[h].cancelled
  /\ cmd' = [cmd EXCEPT ![h].cancelled = TRUE]
  /\ UNCHANGED <<store, versions, client, child, mishaps>>

\* The command is killed; the child reads what is left in its input, then its end.
KillCommand(h) ==
  /\ mishaps < MaxMishaps /\ cmd[h].pc # "off"
  /\ mishaps' = mishaps + 1
  /\ cmd' = [cmd EXCEPT ![h] = Off]
  /\ child' = [child EXCEPT ![h].eof = TRUE]
  /\ UNCHANGED <<store, versions, client>>

\* `infrena state unlock`, by a person who saw the command dead and its child gone.
ForceUnlock ==
  /\ store.lock # Nobody
  /\ cmd[store.lock].pc = "off" /\ child[store.lock].status \in {"none", "exited"}
  /\ store' = [store EXCEPT !.lock = Nobody]
  /\ UNCHANGED <<versions, cmd, client, child, mishaps>>

-----------------------------------------------------------------------------
(***************************************************************************)
(* The child: pkg/backendsdk's loop.                                       *)
(***************************************************************************)
Reply(req, answer, state) == [id |-> req.id, answer |-> answer, state |-> state]

RemoteHello(h) ==
  /\ child[h].status = "starting"
  /\ \E said \in {"hello", "refused", "nothing"} :
       child' = [child EXCEPT ![h] = IF said = "nothing" THEN [@ EXCEPT !.status = "exited"]
         ELSE [@ EXCEPT !.status = "serving", !.out = <<[id |-> 0, answer |-> said, state |-> Empty]>>]]
  /\ UNCHANGED <<store, versions, cmd, client, mishaps>>

(***************************************************************************)
(* What the store does with a request: the store afterwards and the        *)
(* answer.  A store that fails changes nothing.                            *)
(***************************************************************************)
Performed(h, req) ==
  CASE req.method \in {"configure", "get"} -> <<store, "ok">>
    [] req.method = "lock" ->
         IF store.lock = Nobody THEN <<[store EXCEPT !.lock = h], "ok">> ELSE <<store, "locked">>
    [] req.method = "put" ->
         IF store.lock = h THEN <<[store EXCEPT !.state = req.state], "ok">> ELSE <<store, "not_locked">>
    [] req.method = "unlock" ->
         IF store.lock = h THEN <<[store EXCEPT !.lock = Nobody], "ok">> ELSE <<store, "not_locked">>

\* The loop, one request whole before the next is read: the answer goes out
\* before the next line is looked at.  `shutdown` ends it.
RemoteServe(h) ==
  /\ child[h].status = "serving" /\ child[h].in # <<>>
  /\ LET req == Head(child[h].in) IN
     IF req.method = "shutdown"
     THEN /\ child' = [child EXCEPT ![h].status = "exited", ![h].in = <<>>]
          /\ UNCHANGED <<store, versions, mishaps>>
     ELSE \E done \in {Performed(h, req)} \cup (IF mishaps < MaxMishaps THEN {<<store, "failed">>} ELSE {}) :
            /\ store' = done[1]
            /\ versions' = versions \cup {done[1].state}
            /\ child' = [child EXCEPT ![h].in = Tail(@),
                 ![h].out = Append(@, Reply(req, done[2], done[1].state))]
            /\ mishaps' = IF done[2] = "failed" THEN mishaps + 1 ELSE mishaps
  /\ UNCHANGED <<cmd, client>>

RemoteEndOfInput(h) ==
  /\ child[h].status = "serving" /\ child[h].in = <<>> /\ child[h].eof
  /\ child' = [child EXCEPT ![h].status = "exited"]
  /\ UNCHANGED <<store, versions, cmd, client, mishaps>>

\* A state past the line limit: the child is still writing it when the host
\* has given up, and goes on once somebody empties its output or nobody can.
RemoteTooLong(h) ==
  /\ mishaps < MaxMishaps /\ mishaps' = mishaps + 1
  /\ child[h].status = "serving" /\ child[h].in # <<>> /\ Head(child[h].in).method = "get"
  /\ child' = [child EXCEPT ![h].status = "blocked", ![h].in = Tail(@), ![h].out = Append(@, Nonsense)]
  /\ UNCHANGED <<store, versions, cmd, client>>

RemoteUnblocked(h) ==
  /\ child[h].status = "blocked" /\ (client[h].closed \/ cmd[h].pc = "off")
  /\ child' = [child EXCEPT ![h].status = "serving"]
  /\ UNCHANGED <<store, versions, cmd, client, mishaps>>

\* The child dies, with the request it was reading carried out or not.
RemoteDie(h) ==
  /\ mishaps < MaxMishaps /\ mishaps' = mishaps + 1
  /\ child[h].status \in {"starting", "serving"}
  /\ \E result \in {store} \cup (IF child[h].in = <<>> \/ Head(child[h].in).method = "shutdown" THEN {}
                                ELSE {Performed(h, Head(child[h].in))[1]}) :
       store' = result /\ versions' = versions \cup {result.state}
  /\ child' = [child EXCEPT ![h].status = "exited", ![h].in = <<>>]
  /\ UNCHANGED <<cmd, client>>

\* A child built by somebody else: a stray line, or an answer said once more.
RemoteMisspeak(h) ==
  /\ mishaps < MaxMishaps /\ mishaps' = mishaps + 1
  /\ child[h].status = "serving" /\ cmd[h].pc \in {"wait", "work"}
  /\ child' = [child EXCEPT ![h].out = Append(@,
       IF client[h].id > 1 /\ cmd[h].pc = "wait"
       THEN [id |-> client[h].id - 1, answer |-> "ok", state |-> Empty] ELSE Nonsense)]
  /\ UNCHANGED <<store, versions, cmd, client>>

-----------------------------------------------------------------------------
CommandStep(h) ==
  \/ Greeting(h) \/ NoGreeting(h) \/ Work(h) \/ Ask(h) \/ TakeReply(h) \/ NoReply(h)
  \/ CloseConnection(h) \/ Disconnected(h)

RemoteStep(h) ==
  RemoteHello(h) \/ RemoteServe(h) \/ RemoteEndOfInput(h) \/ RemoteUnblocked(h)

BackendNext ==
  \/ \E h \in Hosts :
       \/ StartCommand(h) \/ CommandStep(h) \/ RemoteStep(h)
       \/ InterruptCommand(h) \/ KillCommand(h)
       \/ RemoteTooLong(h) \/ RemoteDie(h) \/ RemoteMisspeak(h)
  \/ ForceUnlock

\* A command and its child keep running until one of them is killed or dies.
BackendFairness ==
  \A h \in Hosts : WF_backendVars(CommandStep(h)) /\ WF_backendVars(RemoteStep(h))

BackendSpec == BackendInit /\ [][BackendNext]_backendVars /\ BackendFairness

-----------------------------------------------------------------------------
\* A command whose lock was answered, until its unlock is sent.
Believes(h) ==
  \/ cmd[h].pc = "work"
  \/ cmd[h].pc \in {"call", "wait"} /\ cmd[h].method \in {"get", "put"}
  \/ cmd[h].pc = "call" /\ cmd[h].method = "unlock"

(***************************************************************************)
(* A command that goes to work holds the lock, though the answer that told *)
(* it so came through a pipe that may repeat an earlier one (host.go call: *)
(* "the answer is the next line", and its id is checked).                  *)
(***************************************************************************)
RemoteHolderIsAlone == \A h \in Hosts : Believes(h) => store.lock = h

(***************************************************************************)
(* A serial names one state for good, over lost answers, dead children and *)
(* dead commands: a stamp is taken back when a Put fails (host.go Put),    *)
(* although the state may have been stored.                                *)
(***************************************************************************)
SerialNamesOneState ==
  \A s, t \in versions : s.serial = t.serial => s = t

(***************************************************************************)
(* A backend plugin is trusted with what the local backend guarantees: one *)
(* command inside the lock, and one state for every serial.                *)
(***************************************************************************)
RemoteStateIsSound == RemoteHolderIsAlone /\ SerialNamesOneState

(***************************************************************************)
(* A command whose state is kept by a backend comes to an end, whatever     *)
(* becomes of the child: a connection that fails has failed for good, and  *)
(* what the child still has to write is read (host.go fail).               *)
(***************************************************************************)
RemoteCommandEnds == \A h \in Hosts : cmd[h].pc # "off" ~> cmd[h].pc = "off"
=============================================================================
