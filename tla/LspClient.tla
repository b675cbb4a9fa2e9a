----------------------------- MODULE LspClient ------------------------------
(***************************************************************************)
(* One language server process and the client that talks to it: the gate   *)
(* that holds requests back while the server indexes (ProgressTracker),    *)
(* the pending map, and the writer and reader threads that own the         *)
(* server's pipes.  Requests of several threads are in flight at a time;   *)
(* the server answers them in any order, late, or not at all.              *)
(*                                                                         *)
(* Time is what may run out: the debounce window since the last progress   *)
(* token ended, a waiter's index_timeout and a request's response_timeout  *)
(* pass at any moment after they start.                                    *)
(***************************************************************************)
EXTENDS Naturals, Sequences, FiniteSets

CONSTANTS
    Threads,   \* threads that use the client
    NoThread,  \* no thread is registered
    Starter,   \* the one that spawns it, sends initialize and arms the gate
    Tokens,    \* progress tokens
    MaxCalls,  \* requests over the client's life
    MaxEvents  \* progress cycles and requests of the server's own

ASSUME ThreadsAssumption == IsFiniteSet(Threads) /\ Starter \in Threads /\ NoThread \notin Threads
ASSUME BoundsAssumption == MaxCalls \in Nat \ {0} /\ MaxEvents \in Nat

VARIABLES
    gate,     \* [phase, open, settled]: the tracker; settled when the debounce
              \* window has passed since it fell quiescent
    call,     \* call[t]: the request thread t is in, or its last one
    nextId,
    pending,  \* pending[i]: the thread registered for request i
    outbox,   \* messages handed to the writer thread: requests and acks
    asked,    \* requests the server has read and not answered
    inbox,    \* messages the server has written and the reader not read
    up,       \* [server, writer, reader]: which of them run
    events    \* [open, left]: progress tokens the server has open, events left

vars == <<gate, call, nextId, pending, outbox, asked, inbox, up, events>>

Ids == 1..MaxCalls
Ack == 0             \* in outbox: the acknowledgement of a server's request
None == 0            \* in call: no id yet, no result yet
Failed == MaxCalls + 1
Indexing == {"active", "quiescent"}

Idle == [pc |-> "idle", id |-> None, got |-> None, on |-> "none",
         woken |-> FALSE, late |-> FALSE]
Message(k, x) == [kind |-> k, of |-> x]

TypeOK ==
    /\ gate \in [phase : Indexing \cup {"uninitialized", "ready", "shutdown"},
                 open : SUBSET Tokens, settled : BOOLEAN]
    /\ gate.phase = "active" => gate.open # {}
    /\ gate.open # {} => gate.phase \in {"active", "uninitialized"}
    /\ call \in [Threads -> [pc : {"idle", "gated", "asleep", "passed", "registered",
                                   "waiting"},
                             id : Ids \cup {None}, got : Ids \cup {None, Failed},
                             on : Indexing \cup {"none"}, woken : BOOLEAN, late : BOOLEAN]]
    /\ nextId \in 1..(MaxCalls + 1)
    /\ pending \in [Ids -> Threads \cup {NoThread}]
    /\ outbox \in Seq(Ids \cup {Ack}) /\ asked \subseteq Ids
    /\ inbox \in Seq([kind : {"begin", "end"}, of : Tokens]
                       \cup [kind : {"answer"}, of : Ids] \cup [kind : {"request"}, of : {Ack}])
    /\ up \in [server : BOOLEAN, writer : BOOLEAN, reader : BOOLEAN]
    /\ events \in [open : SUBSET Tokens, left : 0..MaxEvents]

Init ==
    /\ gate = [phase |-> "uninitialized", open |-> {}, settled |-> FALSE]
    /\ call = [t \in Threads |-> Idle]
    /\ nextId = 1
    /\ pending = [i \in Ids |-> NoThread]
    /\ outbox = <<>> /\ asked = {} /\ inbox = <<>>
    /\ up = [server |-> TRUE, writer |-> TRUE, reader |-> TRUE]
    /\ events = [open |-> {}, left |-> MaxEvents]

At(t, pc) == call[t].pc = pc
Goto(t, pc) == call' = [call EXCEPT ![t].pc = pc]
InGate(t) == call[t].pc \in {"gated", "asleep"}

\* notify_all: every sleeper is to look again.
Notified(c) == [t \in Threads |-> [c[t] EXCEPT !.woken = @ \/ c[t].pc = "asleep"]]

io == <<outbox, asked, inbox, up, events>>

-----------------------------------------------------------------------------
(* The client's life: only the spawning thread has the client before arm,  *)
(* and only the dropping one after the last reference has gone.            *)

MayCall(t) ==
    CASE gate.phase = "uninitialized" -> t = Starter /\ call[t] = Idle
      [] gate.phase = "shutdown" -> \A u \in Threads : At(u, "idle")
      [] OTHER -> TRUE

\* send_request comes first to the gate.
Call(t) ==
    /\ At(t, "idle") /\ MayCall(t)
    /\ nextId + Cardinality({u \in Threads : InGate(u) \/ At(u, "passed")}) <= MaxCalls
    /\ call' = [call EXCEPT ![t] = [Idle EXCEPT !.pc = "gated"]]
    /\ UNCHANGED <<gate, nextId, pending, io>>

(* Mutant: arming starts the debounce whatever was seen before. *)
ArmQuiescent ==
    /\ gate.phase = "uninitialized"
    /\ At(Starter, "idle") /\ call[Starter].got \in Ids
    /\ gate' = [phase |-> "quiescent", open |-> {}, settled |-> FALSE]
    /\ call' = Notified(call)
    /\ UNCHANGED <<nextId, pending, io>>

\* initialize was answered: the tokens seen so far are carried over.
Arm ==
    /\ gate.phase = "uninitialized"
    /\ At(Starter, "idle") /\ call[Starter].got \in Ids
    /\ gate' = [gate EXCEPT !.phase = IF gate.open = {} THEN "quiescent" ELSE "active",
                            !.settled = FALSE]
    /\ call' = Notified(call)
    /\ UNCHANGED <<nextId, pending, io>>

\* Client::drop, which goes on to send the shutdown request.
Shutdown ==
    /\ gate.phase # "shutdown"
    /\ \A t \in Threads : At(t, "idle")
    /\ gate' = [phase |-> "shutdown", open |-> {}, settled |-> FALSE]
    /\ call' = Notified(call)
    /\ UNCHANGED <<nextId, pending, io>>

-----------------------------------------------------------------------------
(* wait_ready, one pass of its loop at a time.                             *)

PassGate(t) ==
    /\ At(t, "gated")
    /\ gate.phase \notin Indexing
    /\ Goto(t, "passed")
    /\ UNCHANGED <<gate, nextId, pending, io>>

(* Mutant: the gate opens without a signal. *)
OpenGateSilently(t) ==
    /\ At(t, "gated")
    /\ gate.phase \in Indexing
    /\ call[t].late \/ (gate.phase = "quiescent" /\ gate.settled)
    /\ gate' = [phase |-> "ready", open |-> {}, settled |-> FALSE]
    /\ Goto(t, "passed")
    /\ UNCHANGED <<nextId, pending, io>>

\* The window passed without a new cycle, or this waiter's patience ran out.
OpenGate(t) ==
    /\ At(t, "gated")
    /\ gate.phase \in Indexing
    /\ call[t].late \/ (gate.phase = "quiescent" /\ gate.settled)
    /\ gate' = [phase |-> "ready", open |-> {}, settled |-> FALSE]
    /\ call' = Notified([call EXCEPT ![t].pc = "passed"])
    /\ UNCHANGED <<nextId, pending, io>>

Sleep(t) ==
    /\ At(t, "gated")
    /\ gate.phase \in Indexing
    /\ ~call[t].late /\ ~(gate.phase = "quiescent" /\ gate.settled)
    /\ call' = [call EXCEPT ![t] = [@ EXCEPT !.pc = "asleep", !.on = gate.phase, !.woken = FALSE]]
    /\ UNCHANGED <<gate, nextId, pending, io>>

\* A sleeper that was signalled and finds the phase it slept on gone, or that
\* has slept its time (at most the debounce window, if the gate was quiescent).
Wake(t) ==
    /\ At(t, "asleep")
    /\ \/ call[t].woken /\ gate.phase # call[t].on
       \/ call[t].late
       \/ call[t].on = "quiescent"
    /\ call' = [call EXCEPT ![t] = [@ EXCEPT !.pc = "gated", !.on = "none", !.woken = FALSE]]
    /\ UNCHANGED <<gate, nextId, pending, io>>

SleepOn(t) ==
    /\ At(t, "asleep")
    /\ call[t].woken /\ gate.phase = call[t].on
    /\ call' = [call EXCEPT ![t].woken = FALSE]
    /\ UNCHANGED <<gate, nextId, pending, io>>

DebouncePasses ==
    /\ gate.phase = "quiescent" /\ ~gate.settled
    /\ gate' = [gate EXCEPT !.settled = TRUE]
    /\ UNCHANGED <<call, nextId, pending, io>>

IndexTimeout(t) ==
    /\ InGate(t) /\ ~call[t].late
    /\ call' = [call EXCEPT ![t].late = TRUE]
    /\ UNCHANGED <<gate, nextId, pending, io>>

-----------------------------------------------------------------------------
(* send_request, past the gate.                                            *)

Register(t) ==
    /\ At(t, "passed")
    /\ call' = [call EXCEPT ![t] = [@ EXCEPT !.pc = "registered", !.id = nextId]]
    /\ pending' = [pending EXCEPT ![nextId] = t]
    /\ nextId' = nextId + 1
    /\ UNCHANGED <<gate, io>>

\* The channel is closed once the writer has gone.
HandToWriter(t) ==
    /\ At(t, "registered")
    /\ IF up.writer
       THEN /\ outbox' = Append(outbox, call[t].id)
            /\ Goto(t, "waiting")
            /\ UNCHANGED pending
       ELSE /\ pending' = [pending EXCEPT ![call[t].id] = NoThread]
            /\ call' = [call EXCEPT ![t] = [Idle EXCEPT !.got = Failed]]
            /\ UNCHANGED outbox
    /\ UNCHANGED <<gate, nextId, asked, inbox, up, events>>

Receive(t) ==
    /\ At(t, "waiting")
    /\ call[t].got # None
    /\ call' = [call EXCEPT ![t] = [Idle EXCEPT !.got = call[t].got]]
    /\ UNCHANGED <<gate, nextId, pending, io>>

(* Mutant: the deadline is not kept against a server that has gone. *)
ResponseTimeoutUp(t) ==
    /\ At(t, "waiting") /\ up.server
    /\ call[t].got = None
    /\ pending' = [pending EXCEPT ![call[t].id] = NoThread]
    /\ call' = [call EXCEPT ![t] = [Idle EXCEPT !.got = Failed]]
    /\ UNCHANGED <<gate, nextId, io>>

ResponseTimeout(t) ==
    /\ At(t, "waiting")
    /\ call[t].got = None
    /\ pending' = [pending EXCEPT ![call[t].id] = NoThread]
    /\ call' = [call EXCEPT ![t] = [Idle EXCEPT !.got = Failed]]
    /\ UNCHANGED <<gate, nextId, io>>

-----------------------------------------------------------------------------
(* writer_loop and reader_loop *)

\* A write to a server that has gone ends the thread and loses the message.
WriterForwards ==
    /\ up.writer /\ outbox # <<>>
    /\ outbox' = Tail(outbox)
    /\ IF up.server
       THEN asked' = asked \cup ({Head(outbox)} \ {Ack}) /\ UNCHANGED up
       ELSE up' = [up EXCEPT !.writer = FALSE] /\ UNCHANGED asked
    /\ UNCHANGED <<gate, call, nextId, pending, inbox, events>>

Began(g, k) ==
    CASE g.phase = "quiescent" -> [phase |-> "active", open |-> {k}, settled |-> FALSE]
      [] g.phase \in {"uninitialized", "active"} -> [g EXCEPT !.open = @ \cup {k}]
      [] OTHER -> g

Ended(g, k) ==
    IF g.phase = "active" /\ g.open = {k}
    THEN [phase |-> "quiescent", open |-> {}, settled |-> FALSE]
    ELSE [g EXCEPT !.open = @ \ {k}]

NoteBegin ==
    /\ up.reader /\ inbox # <<>> /\ Head(inbox).kind = "begin"
    /\ gate' = Began(gate, Head(inbox).of)
    /\ inbox' = Tail(inbox)
    /\ UNCHANGED <<call, nextId, pending, outbox, asked, up, events>>

NoteEnd ==
    /\ up.reader /\ inbox # <<>> /\ Head(inbox).kind = "end"
    /\ gate' = Ended(gate, Head(inbox).of)
    /\ call' = IF gate'.phase # gate.phase THEN Notified(call) ELSE call
    /\ inbox' = Tail(inbox)
    /\ UNCHANGED <<nextId, pending, outbox, asked, up, events>>

\* An answer whose waiter has gone is dropped.
Deliver ==
    /\ up.reader /\ inbox # <<>> /\ Head(inbox).kind = "answer"
    /\ LET i == Head(inbox).of IN
       /\ call' = [t \in Threads |-> IF pending[i] = t THEN [call[t] EXCEPT !.got = i] ELSE call[t]]
       /\ pending' = [pending EXCEPT ![i] = NoThread]
    /\ inbox' = Tail(inbox)
    /\ UNCHANGED <<gate, nextId, outbox, asked, up, events>>

(* Mutant: the map is cleared and nobody told. *)
DrainedSilently ==
    /\ up' = [up EXCEPT !.reader = FALSE]
    /\ pending' = [i \in Ids |-> NoThread]
    /\ UNCHANGED call

\* drain_pending, as the reader ends.
Drained ==
    /\ up' = [up EXCEPT !.reader = FALSE]
    /\ call' = [t \in Threads |-> IF \E i \in Ids : pending[i] = t
                                  THEN [call[t] EXCEPT !.got = Failed] ELSE call[t]]
    /\ pending' = [i \in Ids |-> NoThread]

\* The server's own requests are acknowledged, while there is a writer.
Acknowledge ==
    /\ up.reader /\ inbox # <<>> /\ Head(inbox).kind = "request"
    /\ inbox' = Tail(inbox)
    /\ IF up.writer
       THEN outbox' = Append(outbox, Ack) /\ UNCHANGED <<up, call, pending>>
       ELSE Drained /\ UNCHANGED outbox
    /\ UNCHANGED <<gate, nextId, asked, events>>

EndOfFile ==
    /\ up.reader /\ ~up.server /\ inbox = <<>>
    /\ Drained
    /\ UNCHANGED <<gate, nextId, outbox, asked, inbox, events>>

-----------------------------------------------------------------------------
(* The server process. *)

Says(m) == up.server /\ inbox' = Append(inbox, m)

ServerAnswers ==
    /\ \E i \in asked : Says(Message("answer", i)) /\ asked' = asked \ {i}
    /\ UNCHANGED <<gate, call, nextId, pending, outbox, up, events>>

ServerBegins ==
    /\ events.left > 0
    /\ \E k \in Tokens \ events.open :
         /\ Says(Message("begin", k))
         /\ events' = [open |-> events.open \cup {k}, left |-> events.left - 1]
    /\ UNCHANGED <<gate, call, nextId, pending, outbox, asked, up>>

ServerEnds ==
    /\ \E k \in events.open :
         Says(Message("end", k)) /\ events' = [events EXCEPT !.open = @ \ {k}]
    /\ UNCHANGED <<gate, call, nextId, pending, outbox, asked, up>>

ServerAsks ==
    /\ events.left > 0
    /\ Says(Message("request", Ack))
    /\ events' = [events EXCEPT !.left = @ - 1]
    /\ UNCHANGED <<gate, call, nextId, pending, outbox, asked, up>>

ServerDies ==
    /\ up.server
    /\ up' = [up EXCEPT !.server = FALSE]
    /\ asked' = {}
    /\ UNCHANGED <<gate, call, nextId, pending, outbox, inbox, events>>

-----------------------------------------------------------------------------
Step(t) ==
    \/ PassGate(t) \/ OpenGate(t) \/ Sleep(t) \/ Wake(t) \/ SleepOn(t)
    \/ Register(t) \/ HandToWriter(t) \/ Receive(t)

TimePasses(t) == IndexTimeout(t) \/ ResponseTimeout(t)

Read == NoteBegin \/ NoteEnd \/ Deliver \/ Acknowledge \/ EndOfFile

Server == ServerAnswers \/ ServerBegins \/ ServerEnds \/ ServerAsks \/ ServerDies

Next ==
    \/ \E t \in Threads : Call(t) \/ Step(t) \/ TimePasses(t)
    \/ Arm \/ Shutdown \/ DebouncePasses \/ WriterForwards \/ Read \/ Server

Spec == Init /\ [][Next]_vars

\* The client's threads run and its deadlines pass; nothing is asked of the
\* server.
Fairness ==
    /\ \A t \in Threads : WF_vars(Step(t)) /\ WF_vars(TimePasses(t))
    /\ WF_vars(DebouncePasses) /\ WF_vars(WriterForwards) /\ WF_vars(Read)

FairSpec == Spec /\ Fairness

-----------------------------------------------------------------------------
\* The pending map holds exactly the requests whose threads wait and were told
\* nothing yet: timeouts, refusals, late answers and the reader's end neither
\* leave an entry behind nor forget a waiter.
PendingMatchesWaiters ==
    \A i \in Ids, t \in Threads :
        pending[i] = t <=> /\ call[t].id = i
                           /\ call[t].pc \in {"registered", "waiting"}
                           /\ call[t].got = None

\* No one sleeps before an open gate: whoever opens it wakes the sleepers.
OpenGateWakesSleepers ==
    gate.phase \notin Indexing => \A t \in Threads : At(t, "asleep") => call[t].woken

\* Progress cycles the reader has seen begin and not end; one that begins
\* again behind its end is left out.
SeenOpen ==
    LET Unread(k) == {inbox[i].of : i \in {j \in DOMAIN inbox : inbox[j].kind = k}} IN
    (events.open \cup Unread("end")) \ Unread("begin")

\* The gate stays shut while a cycle is known to be open, those that began
\* before arm included, until the patience of a waiter runs out or the client
\* is dropped.
GateWaitsForCycles ==
    [][(gate.phase \in Indexing /\ gate'.phase = "ready")
          => SeenOpen = {} \/ \E t \in Threads : call[t].late]_vars

\* Every request returns, whatever the server does.
EveryCallReturns == \A t \in Threads : ~At(t, "idle") ~> At(t, "idle")
=============================================================================
