---------------------------- MODULE PluginClient ----------------------------
(***************************************************************************)
(* A provider plugin as the host meets it: finding, checking, launching    *)
(* and closing it (pluginhost/loader.go, connect.go), the calls multi-     *)
(* plexed on its two pipes (client.go), what the adapter makes of an       *)
(* answer (adapter.go), the retries above it (retry/retry.go), and the     *)
(* SDK's loop on the other side (pkg/pluginsdk/serve.go).                  *)
(*                                                                         *)
(* Host and plugin share the two pipes only.  The goroutines of the host   *)
(* are the one that loads and closes (host), the reader of the plugin's    *)
(* output (reader), and one per operation (call).  What a provider does    *)
(* with a request is external: it may carry it out or not, and answer in   *)
(* every way the protocol has.                                             *)
(***************************************************************************)
EXTENDS Integers, Sequences, FiniteSets

CONSTANTS
  Workers,       \* operations in flight at once: executor, refresh or discovery workers
  Assignments,   \* what each of them asks for; "nothing" is a worker without work
  Binaries,      \* what may be found under the plugin's name
  MaxAttempts,   \* RetryPolicy.MaxAttempts
  MaxFaults,     \* bound on deaths, stray lines and repeated answers
  PipeCap,       \* lines the plugin's output pipe holds
  TerminalSignal \* an interrupt typed at a terminal reaches the plugin's process too

\* The provider methods a worker may call.
Verbs == {"create", "update", "delete", "read", "discover", "import", "nothing"}

ASSUME PluginAssumption ==
  /\ MaxAttempts \in Nat \ {0} /\ MaxFaults \in Nat /\ PipeCap \in Nat \ {0}
  /\ TerminalSignal \in BOOLEAN
  /\ Assignments \subseteq [Workers -> Verbs]
  /\ Workers \cap {"main", "cancel", "shutdown"} = {}

VARIABLES
  binary,    \* what there is under the plugin's name; it does not change
  verb,      \* the provider method each worker calls
  host,      \* the goroutine in Load, New or Close
  plug,      \* the plugin process
  stdin, stdout,
  reader,    \* the goroutine in serve
  pending, closed, nextID,   \* the fields of Client
  call,      \* each caller's goroutine
  effects,   \* how often the remote system carried out a worker's change
  interrupted, faults

hostVars == <<host, reader, pending, closed, nextID, call>>
pluginVars == <<plug, stdin, stdout, effects>>
quasiConstants == <<binary, verb>>
pluginClientVars == <<hostVars, pluginVars, quasiConstants, interrupted, faults>>

Main == "main"
Callers == Workers \cup {Main}

\* A binary that says hello and is refused for it.
RefusedHello == {"garbled", "old_protocol", "misnamed"}

Mutating == {"create", "update", "delete"}
NoAnswer == "none"
Idle == [pc |-> "idle", id |-> 0, attempt |-> 0, answer |-> NoAnswer, cancelled |-> FALSE]
NotRunning == [status |-> "absent", eof |-> FALSE, inflight |-> {}, configured |-> FALSE]

PluginInit ==
  /\ binary \in Binaries
  /\ verb \in Assignments
  /\ host = "asked"
  /\ plug = NotRunning
  /\ stdin = <<>> /\ stdout = <<>>
  /\ reader = "off" /\ pending = {} /\ closed = FALSE /\ nextID = 0
  /\ call = [c \in Callers |-> Idle]
  /\ effects = [w \in Workers |-> 0]
  /\ interrupted = FALSE /\ faults = 0

-----------------------------------------------------------------------------
(***************************************************************************)
(* One call: Client.call.                                                  *)
(***************************************************************************)
Ready(attempt) == [Idle EXCEPT !.pc = "ready", !.attempt = attempt]

\* An id of its own; a connection that has ended refuses at once.
Register(c) ==
  /\ call[c].pc = "ready"
  /\ nextID' = nextID + 1
  /\ IF closed
     THEN /\ call' = [call EXCEPT ![c].answer = "broken", ![c].pc = "waiting"]
          /\ UNCHANGED pending
     ELSE /\ pending' = pending \cup {nextID + 1}
          /\ call' = [call EXCEPT ![c].id = nextID + 1, ![c].pc = "registered"]
  /\ UNCHANGED <<host, reader, closed, pluginVars, quasiConstants, interrupted, faults>>

\* A pipe nobody reads any more refuses the write, and nobody waits.  The plugin
\* may also go after the write: then the reader ends the call.
Write(c) ==
  /\ call[c].pc = "registered"
  /\ IF plug.status = "exited"
     THEN /\ call' = [call EXCEPT ![c].pc = "waiting",
                                  ![c].answer = IF @ = NoAnswer THEN "broken" ELSE @]
          /\ pending' = pending \ {call[c].id}
          /\ UNCHANGED stdin
     ELSE /\ call' = [call EXCEPT ![c].pc = "waiting"]
          /\ stdin' = Append(stdin, [id |-> call[c].id, from |-> c])
          /\ UNCHANGED pending
  /\ UNCHANGED <<host, reader, closed, nextID, plug, stdout, effects, quasiConstants, interrupted, faults>>

\* Cancelled: the plugin is told, and the answer still awaited.  Only reads
\* and discovery pass on a context that an interrupt cancels.
Cancel(w) ==
  /\ interrupted /\ verb[w] \notin Mutating
  /\ call[w].pc = "waiting" /\ call[w].answer = NoAnswer /\ ~call[w].cancelled
  /\ call' = [call EXCEPT ![w].cancelled = TRUE]
  /\ stdin' = IF plug.status = "exited" THEN stdin
              ELSE Append(stdin, [id |-> call[w].id, from |-> "cancel"])
  /\ UNCHANGED <<host, reader, pending, closed, nextID, plug, stdout, effects, quasiConstants, interrupted, faults>>

(***************************************************************************)
(* The reader: serve and fail.                                             *)
(***************************************************************************)
\* Each waiter whose id is in ids finds answer in its channel.
Delivered(ids, answer) ==
  [c \in Callers |->
     IF call[c].pc \in {"registered", "waiting"} /\ call[c].id \in ids
     THEN [call[c] EXCEPT !.answer = answer] ELSE call[c]]

Fail ==
  /\ closed' = TRUE /\ pending' = {}
  /\ call' = Delivered(pending, "lost")

\* Mutant: an answer goes to whoever has waited longest.
TakeInOrder ==
  /\ reader = "serving" /\ stdout # <<>> /\ Head(stdout).id # -1
  /\ stdout' = Tail(stdout)
  /\ LET oldest == {id \in pending : \A other \in pending : id <= other} IN
     /\ pending' = pending \ oldest
     /\ call' = Delivered(oldest, Head(stdout).answer)
  /\ UNCHANGED <<host, reader, closed, nextID, plug, stdin, effects, quasiConstants, interrupted, faults>>

\* One answer, to the caller its id names; an id nobody waits for is dropped.
TakeAnswer ==
  /\ reader = "serving" /\ stdout # <<>> /\ Head(stdout).id # -1
  /\ stdout' = Tail(stdout)
  /\ LET ids == pending \cap {Head(stdout).id} IN
     /\ pending' = pending \ ids
     /\ call' = Delivered(ids, Head(stdout).answer)
  /\ UNCHANGED <<host, reader, closed, nextID, plug, stdin, effects, quasiConstants, interrupted, faults>>

\* A line that is no message, or one too long, ends the connection: from here
\* on the stream is only emptied.
TakeGarbage ==
  /\ reader = "serving" /\ stdout # <<>> /\ Head(stdout).id = -1
  /\ stdout' = Tail(stdout)
  /\ reader' = "draining"
  /\ Fail
  /\ UNCHANGED <<host, nextID, plug, stdin, effects, quasiConstants, interrupted, faults>>

\* Mutant: the reader leaves as soon as it has failed.
NoDrain == FALSE /\ UNCHANGED pluginClientVars

Drain ==
  /\ reader = "draining" /\ stdout # <<>>
  /\ stdout' = Tail(stdout)
  /\ UNCHANGED <<hostVars, plug, stdin, effects, quasiConstants, interrupted, faults>>

EndOfOutput ==
  /\ reader \in {"serving", "draining"} /\ stdout = <<>> /\ plug.status = "exited"
  /\ reader' = "done"
  /\ IF reader = "serving" THEN Fail ELSE UNCHANGED <<closed, pending, call>>
  /\ UNCHANGED <<host, nextID, pluginVars, quasiConstants, interrupted, faults>>

-----------------------------------------------------------------------------
(***************************************************************************)
(* What the adapter makes of an answer, and whether it is tried again.     *)
(***************************************************************************)
\* ClassifyError: the plugin's own word; a failure on the host's side - a dead
\* plugin, an answer the adapter refuses - is not safe to retry.
ClassifyError(answer) == IF answer \in {"safe", "conditional"} THEN answer ELSE "unsafe"

\* An answer the adapter rebuilds into a result.  Nothing there is an answer to
\* read only; an attribute the schema does not declare is never one.
Accepted(v, answer) == answer = "ok" \/ (answer = "absent" /\ v = "read")

\* Mutant: a call whose outcome is unknown is repeated whatever it was.
RetryableAny(v, class) == class \in {"safe", "conditional"}

Retryable(v, class) ==
  \/ class = "safe"
  \/ class = "conditional" /\ v \in {"read", "update"}

\* The failures Attempt tries again.  Discovery retries as a read; import
\* goes to the plugin once.
TriedAgain(w) ==
  /\ verb[w] # "import"
  /\ call[w].attempt < MaxAttempts
  /\ Retryable(IF verb[w] = "discover" THEN "read" ELSE verb[w], ClassifyError(call[w].answer))

\* Attempt, with one answer in hand: the end - a result, or an error - or a
\* wait before the next try.
Conclude(w) ==
  /\ call[w].pc = "waiting" /\ call[w].answer # NoAnswer
  /\ call' = [call EXCEPT ![w] =
       IF Accepted(verb[w], call[w].answer) THEN [Idle EXCEPT !.pc = "done", !.answer = "ok"]
       ELSE IF TriedAgain(w) THEN [Idle EXCEPT !.pc = "backoff", !.attempt = call[w].attempt]
       ELSE [Idle EXCEPT !.pc = "done", !.answer = IF call[w].answer = "lost" THEN "lost" ELSE "failed"]]
  /\ UNCHANGED <<host, reader, pending, closed, nextID, pluginVars, quasiConstants, interrupted, faults>>

\* The wait is over; an interrupt ends it, and the attempts, early.
Backoff(w) ==
  /\ call[w].pc = "backoff"
  /\ \/ call' = [call EXCEPT ![w] = Ready(call[w].attempt + 1)]
     \/ interrupted /\ call' = [call EXCEPT ![w] = [Idle EXCEPT !.pc = "done", !.answer = "failed"]]
  /\ UNCHANGED <<host, reader, pending, closed, nextID, pluginVars, quasiConstants, interrupted, faults>>

-----------------------------------------------------------------------------
(***************************************************************************)
(* The goroutine that loads the plugin, configures an instance and closes  *)
(* it: Loader.Load, Launch, finish, Plugin.New, Client.Close.              *)
(***************************************************************************)
\* Find, checkLock and Launch.  A binary that is not the one plugins.lock
\* recorded never runs; no binary and no builtin is a failure that is cached.
Open ==
  /\ host = "asked"
  /\ IF binary \in {"missing", "tampered"}
     THEN host' = "failed" /\ UNCHANGED plug
     ELSE host' = "handshake" /\ plug' = [plug EXCEPT !.status = "starting"]
  /\ UNCHANGED <<reader, pending, closed, nextID, call, stdin, stdout, effects, quasiConstants, interrupted, faults>>

\* start: the first line.  Refused, the host stops: it waits for the process
\* to exit, and closes nothing before.
Handshake ==
  /\ host = "handshake"
  /\ \/ /\ stdout # <<>> /\ stdout' = Tail(stdout)
        /\ IF Head(stdout).answer = "hello"
           THEN /\ host' = "schemas" /\ reader' = "serving"
                /\ call' = [call EXCEPT ![Main] = Ready(1)]
           ELSE host' = "refusing" /\ UNCHANGED <<reader, call>>
     \/ /\ stdout = <<>> /\ plug.status = "exited"
        /\ host' = "refusing" /\ UNCHANGED <<reader, call, stdout>>
  /\ UNCHANGED <<pending, closed, nextID, plug, stdin, effects, quasiConstants, interrupted, faults>>

\* loadSchemas, then checkVersion: definitions that break a rule, or a version
\* outside the project's constraint, close the plugin again.
Schemas ==
  /\ host = "schemas"
  /\ call[Main].pc = "waiting" /\ call[Main].answer # NoAnswer
  /\ host' = IF call[Main].answer = "ok" /\ binary \notin {"bad_schemas", "old_version"}
             THEN "loaded" ELSE "rejecting"
  /\ call' = [call EXCEPT ![Main] = Idle]
  /\ UNCHANGED <<reader, pending, closed, nextID, pluginVars, quasiConstants, interrupted, faults>>

\* Plugin.New: one instance, and its handle.
Configure ==
  /\ host = "loaded"
  /\ host' = "configuring"
  /\ call' = [call EXCEPT ![Main] = Ready(1)]
  /\ UNCHANGED <<reader, pending, closed, nextID, pluginVars, quasiConstants, interrupted, faults>>

Configured ==
  /\ host = "configuring"
  /\ call[Main].pc = "waiting" /\ call[Main].answer # NoAnswer
  /\ host' = IF call[Main].answer = "ok" THEN "working" ELSE "finished"
  /\ call' = [c \in Callers |->
               IF c = Main \/ host' = "finished" THEN Idle
               ELSE IF verb[c] = "nothing" THEN [Idle EXCEPT !.pc = "done"] ELSE Ready(1)]
  /\ UNCHANGED <<reader, pending, closed, nextID, pluginVars, quasiConstants, interrupted, faults>>

Finish ==
  /\ host = "working" /\ \A w \in Workers : call[w].pc = "done"
  /\ host' = "finished"
  /\ UNCHANGED <<reader, pending, closed, nextID, call, pluginVars, quasiConstants, interrupted, faults>>

\* Close: `shutdown`, whose answer nobody waits for, and the input closed;
\* what was written before stays readable.
Close ==
  /\ host \in {"finished", "rejecting"}
  /\ host' = IF host = "finished" THEN "closing" ELSE "refusing"
  /\ nextID' = nextID + 1
  /\ plug' = [plug EXCEPT !.eof = TRUE]
  /\ stdin' = IF plug.status = "exited" THEN stdin
              ELSE Append(stdin, [id |-> nextID + 1, from |-> "shutdown"])
  /\ UNCHANGED <<reader, pending, closed, call, stdout, effects, quasiConstants, interrupted, faults>>

\* stop: cmd.Wait returns when the process has exited, and closes what is left
\* of its output.  A failure is remembered for the rest of the command.
Stop ==
  /\ host \in {"closing", "refusing"} /\ plug.status = "exited"
  /\ host' = IF host = "closing" THEN "closed" ELSE "failed"
  /\ stdout' = <<>>
  /\ UNCHANGED <<reader, pending, closed, nextID, call, plug, stdin, effects, quasiConstants, interrupted, faults>>

-----------------------------------------------------------------------------
(***************************************************************************)
(* The plugin: pluginsdk's Serve, and what a provider may do.              *)
(***************************************************************************)
Line(id, answer) == [id |-> id, answer |-> answer]
Room == Len(stdout) < PipeCap

Hello ==
  /\ plug.status = "starting"
  /\ IF binary = "mute"
     THEN plug' = [plug EXCEPT !.status = "exited"] /\ UNCHANGED stdout
     ELSE /\ plug' = [plug EXCEPT !.status = "serving"]
          /\ stdout' = Append(stdout, Line(0,
               IF binary \in RefusedHello THEN binary ELSE "hello"))
  /\ UNCHANGED <<hostVars, stdin, effects, quasiConstants, interrupted, faults>>

\* The loop over its input: `shutdown` is answered and ends the loop, `cancel`
\* reaches the request's context and changes nothing here, as a cancelled request
\* is answered like any other; the rest get a goroutine each.
ServeRequest ==
  /\ plug.status = "serving" /\ stdin # <<>>
  /\ LET req == Head(stdin) IN
     \/ req.from = "cancel" /\ UNCHANGED <<plug, stdout>>
     \/ /\ req.from = "shutdown" /\ Room
        /\ stdout' = Append(stdout, Line(req.id, "ok"))
        /\ plug' = [plug EXCEPT !.status = "stopping"]
     \/ /\ req.from \in Callers
        /\ plug' = [plug EXCEPT !.inflight = @ \cup {req}]
        /\ UNCHANGED stdout
  /\ stdin' = Tail(stdin)
  /\ UNCHANGED <<hostVars, effects, quasiConstants, interrupted, faults>>

EndOfInput ==
  /\ plug.status = "serving" /\ stdin = <<>> /\ plug.eof
  /\ plug' = [plug EXCEPT !.status = "stopping"]
  /\ UNCHANGED <<hostVars, stdin, stdout, effects, quasiConstants, interrupted, faults>>

(***************************************************************************)
(* What the provider may do with a request: change something or not, and   *)
(* say so.  "safe" promises that nothing changed.                          *)
(***************************************************************************)
Outcomes(v) ==
  LET done == IF v \in Mutating THEN 1 ELSE 0 IN
  {<<done, "ok">>, <<0, "safe">>} \cup ({0, done} \X {"conditional", "unsafe"})
    \cup (IF v # "delete" THEN {<<done, "absent">>, <<done, "undeclared">>} ELSE {})

\* A request's goroutine, dispatch and respond: schemas and configure are the
\* plugin's own business, the others go to the configured instance, and fail
\* without one.  The answer is one line, written when there is room for it.
Answer(r) ==
  /\ plug.status \in {"serving", "stopping"} /\ r \in plug.inflight
  /\ Room
  /\ \E outcome \in IF r.from = Main THEN {<<0, "ok">>, <<0, "unsafe">>}
                   ELSE IF plug.configured THEN Outcomes(verb[r.from]) ELSE {<<0, "unsafe">>} :
       /\ stdout' = Append(stdout, Line(r.id, outcome[2]))
       /\ plug' = [plug EXCEPT !.inflight = @ \ {r},
                               !.configured = @ \/ (host = "configuring" /\ outcome[2] = "ok")]
       /\ effects' = IF r.from = Main THEN effects ELSE [effects EXCEPT ![r.from] = @ + outcome[1]]
  /\ UNCHANGED <<hostVars, stdin, quasiConstants, interrupted, faults>>

\* Serve returns when every request it took has been answered.
Exit ==
  /\ plug.status = "stopping" /\ plug.inflight = {}
  /\ plug' = [plug EXCEPT !.status = "exited"]
  /\ UNCHANGED <<hostVars, stdin, stdout, effects, quasiConstants, interrupted, faults>>

\* Killed, with some of what was in flight carried out and none of it answered.
Killed ==
  /\ plug' = [plug EXCEPT !.status = "exited", !.inflight = {}]
  /\ \E done \in SUBSET {w \in Workers : verb[w] \in Mutating /\ \E r \in plug.inflight : r.from = w} :
       effects' = [w \in Workers |-> IF w \in done THEN effects[w] + 1 ELSE effects[w]]

Die ==
  /\ faults < MaxFaults /\ plug.status \in {"starting", "serving", "stopping"}
  /\ faults' = faults + 1
  /\ Killed
  /\ UNCHANGED <<hostVars, stdin, stdout, quasiConstants, interrupted>>

\* A plugin built by somebody else: a stray line, or an answer said twice.
Misspeak ==
  /\ faults < MaxFaults /\ plug.status = "serving" /\ reader # "off" /\ Room
  /\ faults' = faults + 1
  /\ \E id \in {-1} \cup 1..nextID :
       /\ \A r \in plug.inflight : r.id # id
       /\ \A i \in 1..Len(stdin) : stdin[i].id # id
       /\ id \in pending => \E i \in 1..Len(stdout) : stdout[i].id = id
       /\ stdout' = Append(stdout, Line(id, "ok"))
  /\ UNCHANGED <<hostVars, plug, stdin, effects, quasiConstants, interrupted>>

\* The first interrupt.  Typed at a terminal it goes to every process of the
\* group: Launch leaves the plugin in the host's, and the SDK does not ignore it.
Interrupt ==
  /\ ~interrupted /\ host = "working"
  /\ interrupted' = TRUE
  /\ IF TerminalSignal THEN Killed ELSE UNCHANGED <<plug, effects>>
  /\ UNCHANGED <<hostVars, stdin, stdout, quasiConstants, faults>>

-----------------------------------------------------------------------------
HostStep ==
  \/ Open \/ Handshake \/ Schemas \/ Configure \/ Configured \/ Finish \/ Close \/ Stop

CallStep(c) ==
  \/ Register(c) \/ Write(c)
  \/ c \in Workers /\ (Conclude(c) \/ Backoff(c))

ReaderStep == TakeAnswer \/ TakeGarbage \/ Drain \/ EndOfOutput

PluginStep ==
  \/ Hello \/ ServeRequest \/ EndOfInput \/ Exit
  \/ \E r \in plug.inflight : Answer(r)

PluginNext ==
  \/ HostStep \/ ReaderStep \/ PluginStep
  \/ \E c \in Callers : CallStep(c)
  \/ \E w \in Workers : Cancel(w)
  \/ Die \/ Misspeak \/ Interrupt

(***************************************************************************)
(* Every goroutine keeps running; so does the plugin, until it dies: it    *)
(* reads, and answers what it read.                                        *)
(***************************************************************************)
PluginFairness ==
  /\ WF_pluginClientVars(HostStep) /\ WF_pluginClientVars(ReaderStep)
  /\ \A c \in Callers : WF_pluginClientVars(CallStep(c))
  /\ WF_pluginClientVars(Hello \/ ServeRequest \/ EndOfInput \/ Exit)
  /\ WF_pluginClientVars(\E r \in plug.inflight : Answer(r))

PluginSpec == PluginInit /\ [][PluginNext]_pluginClientVars /\ PluginFairness

-----------------------------------------------------------------------------
(***************************************************************************)
(* A create or a delete is carried out once at most, whatever is lost on   *)
(* the way back and however often it is tried: only a failure the plugin   *)
(* itself calls harmless is tried again (retry.go, client.go fail).        *)
(***************************************************************************)
CarriedOutOnce ==
  \A w \in Workers : verb[w] \in {"create", "delete"} => effects[w] <= 1

(***************************************************************************)
(* A result the host accepts was given to that very call: its change was   *)
(* carried out, though answers come in any order, twice or not at all, *)
(* on a pipe all calls share (client.go serve).                            *)
(***************************************************************************)
AcceptedMeansDone ==
  \A w \in Workers :
    verb[w] \in Mutating /\ call[w].answer = "ok" => effects[w] > 0

(***************************************************************************)
(* Whatever the plugin does, the command that loaded it goes through       *)
(* loading, its calls and Close to its end: nothing the plugin still       *)
(* writes keeps it, and the host, from exiting (client.go serve: it "then  *)
(* drains r to the end").                                                  *)
(***************************************************************************)
PluginCommandEnds == host = "asked" ~> host \in {"closed", "failed"}

(***************************************************************************)
(* A plugin that is refused is reported: loading ends (errors.go: "The     *)
(* errors a user meets when a plugin is wrong").                           *)
(***************************************************************************)
LoadingEnds == host = "asked" ~> host \in {"loaded", "failed"}

(***************************************************************************)
(* An interrupt does not cost an operation in flight its answer: as long   *)
(* as the plugin itself neither dies nor goes mad, what is in flight is    *)
(* allowed to finish (cli/interrupt.go errInterrupted).                    *)
(***************************************************************************)
InterruptSparesInFlight ==
  faults = 0 => \A w \in Workers : call[w].answer # "lost"
=============================================================================
