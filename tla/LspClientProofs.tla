-------------------------- MODULE LspClientProofs --------------------------
(***************************************************************************)
(* Proofs about LspClient, for any number of threads, requests and         *)
(* progress tokens.                                                        *)
(***************************************************************************)
EXTENDS LspClient, FiniteSetTheorems, TLAPS

Calls ==
    [pc : {"idle", "gated", "asleep", "passed", "registered", "waiting"},
     id : Ids \cup {None}, got : Ids \cup {None, Failed},
     on : Indexing \cup {"none"}, woken : BOOLEAN, late : BOOLEAN]
Sent == {"registered", "waiting"}
Before == {"gated", "asleep", "passed"}

(* A request that is registered has a number given out to it alone.        *)
NumbersOwned ==
    /\ \A t \in Threads : call[t].pc \in Sent => call[t].id \in Ids /\ call[t].id < nextId
    /\ \A t, u \in Threads :
          call[t].pc \in Sent /\ call[u].pc \in Sent /\ call[t].id = call[u].id => t = u

(* Who sleeps knows the phase it went to sleep in.                         *)
SleepersKnow == \A t \in Threads : At(t, "asleep") => call[t].on \in Indexing

(* There is a number left for each request on its way through the gate.    *)
Coming == {t \in Threads : call[t].pc \in Before}
NumbersLast == nextId + Cardinality(Coming) <= MaxCalls + 1

(* No result before the request is registered.                             *)
GotLater == \A t \in Threads : call[t].pc \in Before => call[t].got = None

Rest ==
    /\ NumbersOwned /\ SleepersKnow /\ NumbersLast /\ GotLater
    /\ PendingMatchesWaiters /\ OpenGateWakesSleepers
Inv == TypeOK /\ Rest

LEMMA CallTypes == TypeOK => call \in [Threads -> Calls]
BY DEF TypeOK, Calls

LEMMA Numbers ==
    /\ MaxCalls \in Nat /\ MaxEvents \in Nat /\ None \notin Ids /\ Failed # None /\ Failed \notin Ids
    /\ Ids \subseteq Nat /\ Ack \notin Ids
BY BoundsAssumption DEF Ids, None, Failed, Ack

LEMMA ComingFacts ==
    /\ IsFiniteSet(Coming) /\ Cardinality(Coming) \in Nat
    /\ \A t \in Threads : t \notin Coming =>
          /\ IsFiniteSet(Coming \cup {t})
          /\ Cardinality(Coming \cup {t}) = Cardinality(Coming) + 1
    /\ \A t \in Coming :
          /\ Cardinality(Coming \ {t}) = Cardinality(Coming) - 1
          /\ Cardinality(Coming) >= 1
<1>1. IsFiniteSet(Coming)
  BY ThreadsAssumption, FS_Subset DEF Coming
<1>2. Cardinality(Coming) \in Nat
  BY <1>1, FS_CardinalityType
<1>3. ASSUME NEW t \in Threads, t \notin Coming
      PROVE  IsFiniteSet(Coming \cup {t}) /\ Cardinality(Coming \cup {t}) = Cardinality(Coming) + 1
  BY <1>1, <1>3, FS_AddElement
<1>4. ASSUME NEW t \in Coming
      PROVE  Cardinality(Coming \ {t}) = Cardinality(Coming) - 1 /\ Cardinality(Coming) >= 1
  <2>1. Cardinality(Coming \ {t}) = Cardinality(Coming) - 1 /\ IsFiniteSet(Coming \ {t})
    BY <1>1, FS_RemoveElement
  <2>2. Cardinality(Coming \ {t}) \in Nat
    BY <2>1, FS_CardinalityType
  <2> QED
    BY <1>2, <2>1, <2>2
<1> QED
  BY <1>1, <1>2, <1>3, <1>4

(* One thread's call changes.                                              *)
LEMMA OneCall ==
    ASSUME TypeOK, NEW t \in Threads, NEW c \in Calls, call' = [call EXCEPT ![t] = c]
    PROVE  /\ call' \in [Threads -> Calls] /\ call'[t] = c
           /\ \A u \in Threads \ {t} : call'[u] = call[u]
BY CallTypes

LEMMA IdleFields ==
    /\ Idle \in Calls /\ Idle.pc = "idle" /\ Idle.id = None /\ Idle.got = None
    /\ \A g \in Ids \cup {None, Failed} :
          LET c == [Idle EXCEPT !.got = g] IN c \in Calls /\ c.pc = "idle" /\ c.got = g
    /\ LET c == [Idle EXCEPT !.pc = "gated"] IN c \in Calls /\ c.pc = "gated" /\ c.got = None
BY DEF Idle, Calls

(* Steps before the gate or after it: numbers stay with their requests.    *)
LEMMA MovesKeep ==
    ASSUME Inv, call' \in [Threads -> Calls], UNCHANGED <<nextId, pending>>,
           \A u \in Threads :
              /\ call'[u].id = call[u].id /\ call'[u].got = call[u].got
              /\ \/ call'[u].pc = call[u].pc
                 \/ call[u].pc \in Before /\ call'[u].pc \in Before
                 \/ call[u].pc \in Sent /\ call'[u].pc \in Sent
              /\ call'[u].pc = "asleep" =>
                    call'[u].on \in Indexing /\ (gate'.phase \notin Indexing => call'[u].woken)
    PROVE  Rest'
<1>1. NumbersOwned'
  BY DEF Inv, Rest, NumbersOwned, Sent, Before
<1>2. SleepersKnow' /\ OpenGateWakesSleepers'
  BY DEF SleepersKnow, OpenGateWakesSleepers, At
<1>3. Coming' = Coming
  BY DEF Coming, Before, Sent
<1>4. NumbersLast'
  BY <1>3 DEF Inv, Rest, NumbersLast
<1>5. PendingMatchesWaiters' /\ GotLater'
  BY DEF Inv, Rest, PendingMatchesWaiters, GotLater, Sent, Before
<1> QED
  BY <1>1, <1>2, <1>4, <1>5 DEF Rest

(* What notify_all leaves of the calls.                                    *)
LEMMA NotifiedFacts ==
    ASSUME NEW c \in [Threads -> Calls]
    PROVE  /\ Notified(c) \in [Threads -> Calls]
           /\ \A u \in Threads :
                /\ Notified(c)[u].pc = c[u].pc /\ Notified(c)[u].id = c[u].id
                /\ Notified(c)[u].got = c[u].got /\ Notified(c)[u].on = c[u].on
                /\ c[u].pc = "asleep" => Notified(c)[u].woken
<1> DEFINE woken(u) == c[u].woken \/ c[u].pc = "asleep"
<1>1. Notified(c) = [u \in Threads |-> [c[u] EXCEPT !.woken = woken(u)]]
  BY DEF Notified
<1>2. \A u \in Threads : c[u] \in Calls /\ woken(u) \in BOOLEAN /\ (c[u].pc = "asleep" => woken(u))
  BY DEF Calls
<1> HIDE DEF woken
<1>3. \A u \in Threads : [c[u] EXCEPT !.woken = woken(u)] \in Calls
  BY <1>2 DEF Calls
<1>4. \A u \in Threads : Notified(c)[u] = [c[u] EXCEPT !.woken = woken(u)]
  BY <1>1
<1>5. Notified(c) \in [Threads -> Calls]
  BY <1>1, <1>3
<1> QED
  BY <1>2, <1>4, <1>5 DEF Calls

-----------------------------------------------------------------------------
(* The gate.                                                               *)
Gates == [phase : Indexing \cup {"uninitialized", "ready", "shutdown"},
          open : SUBSET Tokens, settled : BOOLEAN]
GateFits(g) ==
    /\ g \in Gates
    /\ g.phase = "active" => g.open # {}
    /\ g.open # {} => g.phase \in {"active", "uninitialized"}

LEMMA GateTypes ==
    ASSUME TypeOK, GateFits(gate'), call' \in [Threads -> Calls], UNCHANGED <<nextId, pending, io>>
    PROVE  TypeOK'
BY DEF TypeOK, GateFits, Gates, Calls, io

LEMMA GateFacts ==
    ASSUME TypeOK
    PROVE  /\ GateFits(gate)
           /\ \A k \in Tokens : GateFits(Began(gate, k)) /\ GateFits(Ended(gate, k))
<1>1. GateFits(gate)
  BY DEF TypeOK, GateFits, Gates
<1>2. ASSUME NEW k \in Tokens PROVE GateFits(Began(gate, k))
  <2>1. CASE gate.phase = "quiescent"
    BY <1>1, <2>1 DEF Began, GateFits, Gates, Indexing
  <2>2. CASE gate.phase \in {"uninitialized", "active"}
    BY <1>1, <2>2 DEF Began, GateFits, Gates, Indexing
  <2>3. CASE gate.phase \in {"ready", "shutdown"}
    BY <1>1, <2>3 DEF Began
  <2> QED
    BY <1>1, <2>1, <2>2, <2>3 DEF GateFits, Gates, Indexing
<1>3. ASSUME NEW k \in Tokens PROVE GateFits(Ended(gate, k))
  BY <1>1 DEF Ended, GateFits, Gates, Indexing
<1> QED
  BY <1>1, <1>2, <1>3

LEMMA PhasesMove ==
    ASSUME TypeOK, NEW k \in Tokens
    PROVE  /\ Began(gate, k).phase \in Indexing <=> gate.phase \in Indexing
           /\ Ended(gate, k).phase \in Indexing <=> gate.phase \in Indexing
<1>1. gate \in Gates
  BY DEF TypeOK, Gates
<1> QED
  BY <1>1 DEF Began, Ended, Gates, Indexing

LEMMA ClientKeeps ==
    ASSUME Inv
    PROVE  (Arm => Inv') /\ (Shutdown => Inv')
<1>0. call \in [Threads -> Calls]
  BY CallTypes DEF Inv
<1>1. ASSUME GateFits(gate'), call' = Notified(call), UNCHANGED <<nextId, pending, io>> PROVE Inv'
  <2>1. Rest'
    BY <1>0, <1>1, NotifiedFacts, MovesKeep DEF Inv, Rest, SleepersKnow, At
  <2> QED
    BY <1>0, <1>1, <2>1, NotifiedFacts, GateTypes DEF Inv
<1>2. ASSUME Arm PROVE Inv'
  <2>1. GateFits(gate')
    BY <1>2, GateFacts DEF Arm, GateFits, Gates, Inv, Indexing
  <2> QED
    BY <1>1, <1>2, <2>1 DEF Arm
<1>3. ASSUME Shutdown PROVE Inv'
  <2>1. GateFits(gate')
    BY <1>3 DEF Shutdown, GateFits, Gates
  <2> QED
    BY <1>1, <1>3, <2>1 DEF Shutdown
<1> QED
  BY <1>2, <1>3

(* wait_ready and the deadlines of its callers.                            *)
LEMMA WaitKeeps ==
    ASSUME Inv, NEW t \in Threads,
           PassGate(t) \/ Sleep(t) \/ Wake(t) \/ SleepOn(t) \/ IndexTimeout(t)
    PROVE  Inv'
<1>0. call[t] \in Calls /\ gate \in Gates
  BY CallTypes DEF Inv, TypeOK, Gates
<1>1. PICK c \in Calls :
        /\ call' = [call EXCEPT ![t] = c] /\ c.id = call[t].id /\ c.got = call[t].got
        /\ call[t].pc \in Before /\ c.pc \in Before
        /\ c.pc = "asleep" => c.on \in Indexing /\ (gate.phase \notin Indexing => c.woken)
  <2>1. CASE PassGate(t)
    <3> DEFINE c == [call[t] EXCEPT !.pc = "passed"]
    <3>1. call' = [call EXCEPT ![t] = c] /\ call[t].pc = "gated"
      BY <2>1 DEF PassGate, Goto, At
    <3>2. c \in Calls /\ c.id = call[t].id /\ c.got = call[t].got /\ c.pc = "passed"
      BY <1>0 DEF Calls
    <3> QED
      BY <3>1, <3>2 DEF Before
  <2>2. CASE Sleep(t)
    <3> DEFINE c == [call[t] EXCEPT !.pc = "asleep", !.on = gate.phase, !.woken = FALSE]
    <3>1. call' = [call EXCEPT ![t] = c] /\ call[t].pc = "gated" /\ gate.phase \in Indexing
      BY <2>2 DEF Sleep, At
    <3>2. c \in Calls /\ c.id = call[t].id /\ c.got = call[t].got /\ c.pc = "asleep" /\ c.on = gate.phase
      BY <1>0, <3>1 DEF Calls
    <3> HIDE DEF c
    <3> QED
      BY <3>1, <3>2 DEF Before
  <2>3. CASE Wake(t)
    <3> DEFINE c == [call[t] EXCEPT !.pc = "gated", !.on = "none", !.woken = FALSE]
    <3>1. call' = [call EXCEPT ![t] = c] /\ call[t].pc = "asleep"
      BY <2>3 DEF Wake, At
    <3>2. c \in Calls /\ c.id = call[t].id /\ c.got = call[t].got /\ c.pc = "gated"
      BY <1>0 DEF Calls
    <3> HIDE DEF c
    <3> QED
      BY <3>1, <3>2 DEF Before
  <2>4. CASE SleepOn(t)
    <3> DEFINE c == [call[t] EXCEPT !.woken = FALSE]
    <3>1. call' = [call EXCEPT ![t] = c] /\ call[t].pc = "asleep" /\ gate.phase = call[t].on
      BY <2>4 DEF SleepOn, At
    <3>2. c \in Calls /\ c.id = call[t].id /\ c.got = call[t].got /\ c.pc = "asleep" /\ c.on = call[t].on
      BY <1>0, <3>1 DEF Calls
    <3>3. call[t].on \in Indexing
      BY <3>1 DEF Inv, Rest, SleepersKnow, At
    <3> HIDE DEF c
    <3> QED
      BY <3>1, <3>2, <3>3 DEF Before
  <2>5. CASE IndexTimeout(t)
    <3> DEFINE c == [call[t] EXCEPT !.late = TRUE]
    <3>1. call' = [call EXCEPT ![t] = c] /\ call[t].pc \in {"gated", "asleep"}
      BY <2>5 DEF IndexTimeout, InGate
    <3>2. c \in Calls /\ c.id = call[t].id /\ c.got = call[t].got /\ c.pc = call[t].pc
          /\ c.on = call[t].on /\ c.woken = call[t].woken
      BY <1>0 DEF Calls
    <3>3. call[t].pc = "asleep" => call[t].on \in Indexing /\ (gate.phase \notin Indexing => call[t].woken)
      BY DEF Inv, Rest, SleepersKnow, OpenGateWakesSleepers, At
    <3> HIDE DEF c
    <3> QED
      BY <3>1, <3>2, <3>3 DEF Before
  <2> QED
    BY <2>1, <2>2, <2>3, <2>4, <2>5
<1>2. UNCHANGED <<gate, nextId, pending, io>>
  BY DEF PassGate, Sleep, Wake, SleepOn, IndexTimeout
<1>3. /\ call' \in [Threads -> Calls] /\ call'[t] = c
      /\ \A u \in Threads \ {t} : call'[u] = call[u]
  BY <1>1, OneCall DEF Inv
<1>4. \A u \in Threads : call[u].pc = "asleep" =>
          call[u].on \in Indexing /\ (gate.phase \notin Indexing => call[u].woken)
  BY DEF Inv, Rest, SleepersKnow, OpenGateWakesSleepers, At
<1>5. Rest'
  BY <1>1, <1>2, <1>3, <1>4, MovesKeep
<1>6. TypeOK'
  BY <1>2, <1>3, GateFacts, GateTypes DEF Inv
<1> QED
  BY <1>5, <1>6 DEF Inv

LEMMA OpenGateKeeps == ASSUME Inv, NEW t \in Threads, OpenGate(t) PROVE Inv'
<1> DEFINE c == [call[t] EXCEPT !.pc = "passed"]
           d == [call EXCEPT ![t] = c]
<1>0. call \in [Threads -> Calls] /\ call[t] \in Calls
  BY CallTypes DEF Inv
<1>1. call' = Notified(d) /\ call[t].pc = "gated" /\ UNCHANGED <<nextId, pending, io>>
      /\ gate' = [phase |-> "ready", open |-> {}, settled |-> FALSE]
  BY DEF OpenGate, At
<1>2. c \in Calls /\ c.id = call[t].id /\ c.got = call[t].got /\ c.pc = "passed"
  BY <1>0 DEF Calls
<1> HIDE DEF c
<1>3. d \in [Threads -> Calls] /\ d[t] = c /\ \A u \in Threads \ {t} : d[u] = call[u]
  BY <1>0, <1>2
<1> HIDE DEF d
<1>4. /\ call' \in [Threads -> Calls]
      /\ \A u \in Threads :
            /\ call'[u].pc = d[u].pc /\ call'[u].id = d[u].id
            /\ call'[u].got = d[u].got /\ call'[u].on = d[u].on
            /\ d[u].pc = "asleep" => call'[u].woken
  BY <1>1, <1>3, NotifiedFacts
<1>5. Rest'
  <2>1. \A u \in Threads : call[u].pc = "asleep" => call[u].on \in Indexing
    BY DEF Inv, Rest, SleepersKnow, At
  <2> QED
    BY <1>1, <1>2, <1>3, <1>4, <2>1, MovesKeep DEF Before
<1>6. GateFits(gate')
  BY <1>1 DEF GateFits, Gates
<1> QED
  BY <1>1, <1>4, <1>5, <1>6, GateTypes DEF Inv

-----------------------------------------------------------------------------
(* A request begins, is given its number, and ends.                        *)
LEMMA CallKeeps == ASSUME Inv, NEW t \in Threads, Call(t) PROVE Inv'
<1> DEFINE c == [Idle EXCEPT !.pc = "gated"]
<1>1. /\ call' = [call EXCEPT ![t] = c] /\ call[t].pc = "idle"
      /\ UNCHANGED <<gate, nextId, pending, io>>
      /\ nextId + Cardinality({u \in Threads : InGate(u) \/ At(u, "passed")}) <= MaxCalls
  BY DEF Call, At
<1>2. c \in Calls /\ c.pc = "gated" /\ c.got = None
  BY IdleFields
<1> HIDE DEF c
<1>3. /\ call' \in [Threads -> Calls] /\ call'[t] = c
      /\ \A u \in Threads \ {t} : call'[u] = call[u]
  BY <1>1, <1>2, OneCall DEF Inv
<1>4. TypeOK'
  BY <1>1, <1>3, GateFacts, GateTypes DEF Inv
<1>5. NumbersOwned' /\ SleepersKnow' /\ OpenGateWakesSleepers'
  BY <1>1, <1>2, <1>3 DEF Inv, Rest, NumbersOwned, SleepersKnow, OpenGateWakesSleepers, At, Sent
<1>6. NumbersLast'
  <2>1. t \notin Coming /\ Coming' = Coming \cup {t}
    BY <1>1, <1>2, <1>3 DEF Coming, Before
  <2>2. {u \in Threads : InGate(u) \/ At(u, "passed")} = Coming
    BY DEF InGate, At, Coming, Before
  <2>3. nextId + Cardinality(Coming) <= MaxCalls
    BY <1>1, <2>2
  <2>4. nextId \in Nat /\ MaxCalls \in Nat
    BY Numbers DEF Inv, TypeOK
  <2> QED
    BY <1>1, <2>1, <2>3, <2>4, ComingFacts DEF NumbersLast
<1>7. PendingMatchesWaiters' /\ GotLater'
  BY <1>1, <1>2, <1>3 DEF Inv, Rest, PendingMatchesWaiters, GotLater
<1> QED
  BY <1>4, <1>5, <1>6, <1>7 DEF Inv, Rest

LEMMA RegisterKeeps == ASSUME Inv, NEW t \in Threads, Register(t) PROVE Inv'
<1> DEFINE c == [call[t] EXCEPT !.pc = "registered", !.id = nextId]
<1>1. /\ call' = [call EXCEPT ![t] = c] /\ call[t].pc = "passed"
      /\ pending' = [pending EXCEPT ![nextId] = t] /\ nextId' = nextId + 1
      /\ UNCHANGED <<gate, io>>
  BY DEF Register, At
<1>2. call[t] \in Calls /\ nextId \in Nat /\ nextId >= 1 /\ MaxCalls \in Nat
  BY CallTypes, Numbers DEF Inv, TypeOK
<1>3. /\ t \in Coming /\ Cardinality(Coming) >= 1 /\ Cardinality(Coming) \in Nat
      /\ Cardinality(Coming \ {t}) = Cardinality(Coming) - 1
  <2>1. t \in Coming
    BY <1>1 DEF Coming, Before
  <2> QED
    BY <2>1, ComingFacts
<1>4. nextId \in Ids
  <2>1. nextId + Cardinality(Coming) <= MaxCalls + 1
    BY DEF Inv, Rest, NumbersLast
  <2>2. nextId <= MaxCalls
    BY <1>2, <1>3, <2>1
  <2> QED
    BY <1>2, <2>2 DEF Ids
<1>5. /\ c \in Calls /\ c.pc = "registered" /\ c.id = nextId /\ c.got = call[t].got
  BY <1>2, <1>4 DEF Calls
<1> HIDE DEF c
<1>6. /\ call' \in [Threads -> Calls] /\ call'[t] = c
      /\ \A u \in Threads \ {t} : call'[u] = call[u]
  BY <1>1, <1>5, OneCall DEF Inv
<1>7. TypeOK'
  <2>1. pending' \in [Ids -> Threads \cup {NoThread}]
    BY <1>1 DEF Inv, TypeOK
  <2>2. nextId' \in 1 .. (MaxCalls + 1)
    BY <1>1, <1>2, <1>4 DEF Ids
  <2> QED
    BY <1>1, <1>6, <2>1, <2>2 DEF Inv, TypeOK, Calls, io
<1>8. NumbersOwned'
  <2>1. \A u \in Threads : call[u].pc \in Sent => call[u].id \in Ids /\ call[u].id < nextId
    BY DEF Inv, Rest, NumbersOwned
  <2>2. \A u \in Threads : call[u].pc \in Sent => call[u].id \in Ids /\ call[u].id < nextId' /\ call[u].id # nextId
    <3> SUFFICES ASSUME NEW u \in Threads, call[u].pc \in Sent
                 PROVE  call[u].id \in Ids /\ call[u].id < nextId' /\ call[u].id # nextId
      OBVIOUS
    <3>1. call[u].id \in Nat /\ call[u].id < nextId
      BY <2>1, Numbers
    <3> QED
      BY <1>1, <1>2, <2>1, <3>1
  <2>3. nextId < nextId'
    BY <1>1, <1>2
  <2> QED
    BY <1>4, <1>5, <1>6, <2>2, <2>3 DEF Inv, Rest, NumbersOwned
<1>9. SleepersKnow' /\ OpenGateWakesSleepers'
  BY <1>1, <1>5, <1>6 DEF Inv, Rest, SleepersKnow, OpenGateWakesSleepers, At
<1>10. NumbersLast'
  <2>1. Coming' = Coming \ {t}
    BY <1>5, <1>6 DEF Coming, Before
  <2> QED
    BY <1>1, <1>2, <1>3, <2>1 DEF Inv, Rest, NumbersLast
<1>11. PendingMatchesWaiters'
  <2> SUFFICES ASSUME NEW i \in Ids, NEW u \in Threads
               PROVE  pending'[i] = u <=> /\ call'[u].id = i /\ call'[u].pc \in {"registered", "waiting"}
                                          /\ call'[u].got = None
    BY DEF PendingMatchesWaiters
  <2>0. pending \in [Ids -> Threads \cup {NoThread}]
    BY DEF Inv, TypeOK
  <2>1. pending[i] = u <=> /\ call[u].id = i /\ call[u].pc \in {"registered", "waiting"}
                           /\ call[u].got = None
    BY DEF Inv, Rest, PendingMatchesWaiters
  <2>2. CASE u = t
    <3>1. call[t].got = None
      BY <1>1 DEF Inv, Rest, GotLater, Before
    <3> QED
      BY <1>1, <1>4, <1>5, <1>6, <2>0, <2>1, <2>2, <3>1
  <2>3. CASE u # t
    <3>1. call[u].pc \in Sent => call[u].id # nextId
      <4>1. call[u].pc \in Sent => call[u].id \in Ids /\ call[u].id < nextId
        BY DEF Inv, Rest, NumbersOwned
      <4> QED
        BY <1>2, <4>1, Numbers
    <3> QED
      BY <1>1, <1>4, <1>6, <2>0, <2>1, <2>3, <3>1 DEF Sent
  <2> QED
    BY <2>2, <2>3
<1>12. GotLater'
  BY <1>5, <1>6 DEF Inv, Rest, GotLater, Before
<1> QED
  BY <1>7, <1>8, <1>9, <1>10, <1>11, <1>12 DEF Inv, Rest

(* The request ends without an answer, and is forgotten.                   *)
LEMMA FailedKeeps ==
    ASSUME Inv, NEW t \in Threads, call[t].pc \in Sent,
           pending' = [pending EXCEPT ![call[t].id] = NoThread],
           call' = [call EXCEPT ![t] = [Idle EXCEPT !.got = Failed]],
           UNCHANGED <<gate, nextId, io>>
    PROVE  Inv'
<1> DEFINE c == [Idle EXCEPT !.got = Failed]
<1>1. c \in Calls /\ c.pc = "idle" /\ c.got = Failed
  BY IdleFields
<1> HIDE DEF c
<1>2. /\ call' \in [Threads -> Calls] /\ call'[t] = c
      /\ \A u \in Threads \ {t} : call'[u] = call[u]
  BY <1>1, OneCall DEF Inv, c
<1>3. pending \in [Ids -> Threads \cup {NoThread}] /\ call[t].id \in Ids
  BY DEF Inv, Rest, TypeOK, NumbersOwned
<1>4. TypeOK'
  BY <1>2, <1>3 DEF Inv, TypeOK, Calls, io
<1>5. NumbersOwned' /\ SleepersKnow' /\ OpenGateWakesSleepers' /\ GotLater'
  BY <1>1, <1>2
  DEF Inv, Rest, NumbersOwned, SleepersKnow, OpenGateWakesSleepers, GotLater, At, Sent, Before
<1>6. NumbersLast'
  <2>1. Coming' = Coming
    BY <1>1, <1>2 DEF Coming, Before, Sent
  <2> QED
    BY <2>1 DEF Inv, Rest, NumbersLast
<1>7. PendingMatchesWaiters'
  <2> SUFFICES ASSUME NEW i \in Ids, NEW u \in Threads
               PROVE  pending'[i] = u <=> /\ call'[u].id = i /\ call'[u].pc \in {"registered", "waiting"}
                                          /\ call'[u].got = None
    BY DEF PendingMatchesWaiters
  <2>1. pending[i] = u <=> /\ call[u].id = i /\ call[u].pc \in {"registered", "waiting"}
                           /\ call[u].got = None
    BY DEF Inv, Rest, PendingMatchesWaiters
  <2>2. u # NoThread
    BY ThreadsAssumption
  <2>3. CASE u = t
    BY <1>1, <1>2, <1>3, <2>1, <2>2, <2>3
  <2>4. CASE u # t
    <3>1. call[u].pc \in Sent => call[u].id # call[t].id
      BY <2>4 DEF Inv, Rest, NumbersOwned
    <3> QED
      BY <1>2, <1>3, <2>1, <2>2, <2>4, <3>1 DEF Sent
  <2> QED
    BY <2>3, <2>4
<1> QED
  BY <1>4, <1>5, <1>6, <1>7 DEF Inv, Rest

LEMMA ReceiveKeeps == ASSUME Inv, NEW t \in Threads, Receive(t) PROVE Inv'
<1> DEFINE c == [Idle EXCEPT !.got = call[t].got]
<1>1. /\ call' = [call EXCEPT ![t] = c] /\ call[t].pc = "waiting" /\ call[t].got # None
      /\ UNCHANGED <<gate, nextId, pending, io>>
  BY DEF Receive, At
<1>2. c \in Calls /\ c.pc = "idle"
  <2>1. call[t].got \in Ids \cup {None, Failed}
    BY CallTypes DEF Inv, Calls
  <2> QED
    BY <2>1, IdleFields
<1> HIDE DEF c
<1>3. /\ call' \in [Threads -> Calls] /\ call'[t] = c
      /\ \A u \in Threads \ {t} : call'[u] = call[u]
  BY <1>1, <1>2, OneCall DEF Inv
<1>4. TypeOK'
  BY <1>1, <1>3, GateFacts, GateTypes DEF Inv
<1>5. NumbersOwned' /\ SleepersKnow' /\ OpenGateWakesSleepers' /\ GotLater'
  BY <1>1, <1>2, <1>3
  DEF Inv, Rest, NumbersOwned, SleepersKnow, OpenGateWakesSleepers, GotLater, At, Sent, Before
<1>6. NumbersLast'
  <2>1. Coming' = Coming
    BY <1>1, <1>2, <1>3 DEF Coming, Before
  <2> QED
    BY <1>1, <2>1 DEF Inv, Rest, NumbersLast
<1>7. PendingMatchesWaiters'
  BY <1>1, <1>2, <1>3 DEF Inv, Rest, PendingMatchesWaiters
<1> QED
  BY <1>4, <1>5, <1>6, <1>7 DEF Inv, Rest

LEMMA SendKeeps ==
    ASSUME Inv, NEW t \in Threads, HandToWriter(t) \/ ResponseTimeout(t)
    PROVE  Inv'
<1>1. CASE ResponseTimeout(t)
  BY <1>1, FailedKeeps DEF ResponseTimeout, At, Sent
<1>2. CASE HandToWriter(t) /\ ~up.writer
  BY <1>2, FailedKeeps DEF HandToWriter, At, Sent, io
<1>3. CASE HandToWriter(t) /\ up.writer
  <2> DEFINE c == [call[t] EXCEPT !.pc = "waiting"]
  <2>1. /\ call' = [call EXCEPT ![t] = c] /\ call[t].pc = "registered"
        /\ outbox' = Append(outbox, call[t].id)
        /\ UNCHANGED <<gate, nextId, pending, asked, inbox, up, events>>
    BY <1>3 DEF HandToWriter, At, Goto
  <2>2. c \in Calls /\ c.id = call[t].id /\ c.got = call[t].got /\ c.pc = "waiting"
    BY CallTypes DEF Inv, Calls
  <2> HIDE DEF c
  <2>3. /\ call' \in [Threads -> Calls] /\ call'[t] = c
        /\ \A u \in Threads \ {t} : call'[u] = call[u]
    BY <2>1, <2>2, OneCall DEF Inv
  <2>4. call[t].id \in Ids
    BY <2>1 DEF Inv, Rest, NumbersOwned, Sent
  <2>5. outbox' \in Seq(Ids \cup {Ack})
    BY <2>1, <2>4 DEF Inv, TypeOK
  <2>6. TypeOK'
    BY <2>1, <2>3, <2>5 DEF Inv, TypeOK, Calls
  <2>7. \A u \in Threads : call[u].pc = "asleep" =>
            call[u].on \in Indexing /\ (gate.phase \notin Indexing => call[u].woken)
    BY DEF Inv, Rest, SleepersKnow, OpenGateWakesSleepers, At
  <2>8. Rest'
    BY <2>1, <2>2, <2>3, <2>7, MovesKeep DEF Sent
  <2> QED
    BY <2>6, <2>8 DEF Inv
<1> QED
  BY <1>1, <1>2, <1>3

-----------------------------------------------------------------------------
(* The pipes: no call changes, or what the reader tells its waiter.        *)
Messages == [kind : {"begin", "end"}, of : Tokens]
              \cup [kind : {"answer"}, of : Ids] \cup [kind : {"request"}, of : {Ack}]

LEMMA PipesKeep ==
    ASSUME Inv, UNCHANGED <<call, nextId, pending>>, GateFits(gate'),
           gate'.phase \in Indexing <=> gate.phase \in Indexing,
           outbox' \in Seq(Ids \cup {Ack}), asked' \subseteq Ids, inbox' \in Seq(Messages),
           up' \in [server : BOOLEAN, writer : BOOLEAN, reader : BOOLEAN],
           events' \in [open : SUBSET Tokens, left : 0..MaxEvents]
    PROVE  Inv'
<1>1. TypeOK'
  BY DEF Inv, TypeOK, GateFits, Gates, Messages
<1>2. call' \in [Threads -> Calls]
  BY CallTypes DEF Inv
<1>3. \A u \in Threads : call[u].pc = "asleep" =>
          call[u].on \in Indexing /\ (gate.phase \notin Indexing => call[u].woken)
  BY DEF Inv, Rest, SleepersKnow, OpenGateWakesSleepers, At
<1>4. Rest'
  BY <1>2, <1>3, MovesKeep
<1> QED
  BY <1>1, <1>4 DEF Inv

LEMMA PipeTypes ==
    ASSUME TypeOK
    PROVE  /\ outbox \in Seq(Ids \cup {Ack}) /\ asked \subseteq Ids /\ inbox \in Seq(Messages)
           /\ up \in [server : BOOLEAN, writer : BOOLEAN, reader : BOOLEAN]
           /\ events \in [open : SUBSET Tokens, left : 0..MaxEvents]
           /\ inbox # <<>> => /\ Head(inbox) \in Messages /\ Tail(inbox) \in Seq(Messages)
                              /\ Head(inbox).kind \in {"begin", "end"} => Head(inbox).of \in Tokens
                              /\ Head(inbox).kind = "answer" => Head(inbox).of \in Ids
           /\ outbox # <<>> => /\ Head(outbox) \in Ids \cup {Ack}
                               /\ Tail(outbox) \in Seq(Ids \cup {Ack})
<1>1. inbox \in Seq(Messages) /\ outbox \in Seq(Ids \cup {Ack})
  BY DEF TypeOK, Messages
<1>2. \A m \in Messages : /\ m.kind \in {"begin", "end"} => m.of \in Tokens
                          /\ m.kind = "answer" => m.of \in Ids
  BY DEF Messages
<1>3. inbox # <<>> => Head(inbox) \in Messages /\ Tail(inbox) \in Seq(Messages)
  BY <1>1
<1>4. outbox # <<>> => Head(outbox) \in Ids \cup {Ack} /\ Tail(outbox) \in Seq(Ids \cup {Ack})
  BY <1>1
<1> QED
  BY <1>1, <1>2, <1>3, <1>4 DEF TypeOK

LEMMA ServerKeeps ==
    ASSUME Inv, Server \/ WriterForwards \/ NoteBegin \/ DebouncePasses
    PROVE  Inv'
<1>0. TypeOK /\ GateFits(gate)
  BY GateFacts DEF Inv
<1>1. \A m \in Messages : Append(inbox, m) \in Seq(Messages)
  BY <1>0, PipeTypes
<1>2. CASE ServerAnswers
  <2>1. PICK i \in asked : inbox' = Append(inbox, Message("answer", i)) /\ asked' = asked \ {i}
    BY <1>2 DEF ServerAnswers, Says
  <2>2. Message("answer", i) \in Messages
    BY <1>0, PipeTypes DEF Message, Messages
  <2> QED
    BY <1>0, <1>1, <1>2, <2>1, <2>2, PipeTypes, PipesKeep DEF ServerAnswers
<1>3. CASE ServerBegins
  <2>1. PICK k \in Tokens \ events.open :
          /\ inbox' = Append(inbox, Message("begin", k))
          /\ events' = [open |-> events.open \cup {k}, left |-> events.left - 1]
    BY <1>3 DEF ServerBegins, Says
  <2>2. Message("begin", k) \in Messages
    BY DEF Message, Messages
  <2>3. events.left - 1 \in 0..MaxEvents
    BY <1>0, <1>3, PipeTypes, Numbers DEF ServerBegins
  <2>4. events' \in [open : SUBSET Tokens, left : 0..MaxEvents]
    BY <1>0, <2>1, <2>3, PipeTypes
  <2> QED
    BY <1>0, <1>1, <1>3, <2>1, <2>2, <2>4, PipeTypes, PipesKeep DEF ServerBegins
<1>4. CASE ServerEnds
  <2>1. PICK k \in events.open :
          /\ inbox' = Append(inbox, Message("end", k))
          /\ events' = [events EXCEPT !.open = @ \ {k}]
    BY <1>4 DEF ServerEnds, Says
  <2>2. Message("end", k) \in Messages
    BY <1>0, PipeTypes DEF Message, Messages
  <2>3. events' \in [open : SUBSET Tokens, left : 0..MaxEvents]
    BY <1>0, <2>1, PipeTypes
  <2> QED
    BY <1>0, <1>1, <1>4, <2>1, <2>2, <2>3, PipeTypes, PipesKeep DEF ServerEnds
<1>5. CASE ServerAsks
  <2>1. Message("request", Ack) \in Messages
    BY DEF Message, Messages
  <2>2. events.left - 1 \in 0..MaxEvents
    BY <1>0, <1>5, PipeTypes, Numbers DEF ServerAsks
  <2> DEFINE b == events.left - 1
  <2>3. events' = [events EXCEPT !.left = b]
    BY <1>5 DEF ServerAsks
  <2> HIDE DEF b
  <2>4. b \in 0..MaxEvents
    BY <2>2 DEF b
  <2>5. events' \in [open : SUBSET Tokens, left : 0..MaxEvents]
    BY <1>0, <2>3, <2>4, PipeTypes
  <2> QED
    BY <1>0, <1>1, <1>5, <2>1, <2>5, PipeTypes, PipesKeep DEF ServerAsks, Says
<1>6. CASE ServerDies
  BY <1>0, <1>6, PipeTypes, PipesKeep DEF ServerDies
<1>7. CASE WriterForwards
  <2>1. asked' \subseteq Ids /\ up' \in [server : BOOLEAN, writer : BOOLEAN, reader : BOOLEAN]
    BY <1>0, <1>7, PipeTypes DEF WriterForwards
  <2> QED
    BY <1>0, <1>7, <2>1, PipeTypes, PipesKeep DEF WriterForwards
<1>8. CASE NoteBegin
  BY <1>0, <1>8, PipeTypes, GateFacts, PhasesMove, PipesKeep DEF NoteBegin
<1>9. CASE DebouncePasses
  <2>1. GateFits(gate') /\ gate'.phase = gate.phase
    BY <1>0, <1>9 DEF DebouncePasses, GateFits, Gates
  <2> QED
    BY <1>0, <1>9, <2>1, PipeTypes, PipesKeep DEF DebouncePasses, io
<1> QED
  BY <1>2, <1>3, <1>4, <1>5, <1>6, <1>7, <1>8, <1>9 DEF Server

LEMMA NoteEndKeeps == ASSUME Inv, NoteEnd PROVE Inv'
<1>0. TypeOK /\ GateFits(gate) /\ call \in [Threads -> Calls]
  BY GateFacts, CallTypes DEF Inv
<1>1. /\ Head(inbox).of \in Tokens /\ gate' = Ended(gate, Head(inbox).of)
      /\ inbox' \in Seq(Messages) /\ UNCHANGED <<nextId, pending, outbox, asked, up, events>>
      /\ call' = call \/ call' = Notified(call)
  BY <1>0, PipeTypes DEF NoteEnd
<1>2. GateFits(gate') /\ (gate'.phase \in Indexing <=> gate.phase \in Indexing)
  BY <1>0, <1>1, GateFacts, PhasesMove
<1>3. /\ call' \in [Threads -> Calls]
      /\ \A u \in Threads :
            /\ call'[u].pc = call[u].pc /\ call'[u].id = call[u].id
            /\ call'[u].got = call[u].got /\ call'[u].on = call[u].on
            /\ call[u].pc = "asleep" /\ call[u].woken => call'[u].woken
  BY <1>0, <1>1, NotifiedFacts
<1>4. \A u \in Threads : call[u].pc = "asleep" =>
          call[u].on \in Indexing /\ (gate.phase \notin Indexing => call[u].woken)
  BY DEF Inv, Rest, SleepersKnow, OpenGateWakesSleepers, At
<1>5. Rest'
  BY <1>1, <1>2, <1>3, <1>4, MovesKeep
<1>6. TypeOK'
  BY <1>0, <1>1, <1>2, <1>3 DEF TypeOK, GateFits, Gates, Messages, Calls
<1> QED
  BY <1>5, <1>6 DEF Inv

(* The reader tells those who wait for some of the numbers.                *)
Told(S, g) ==
    /\ pending' = [i \in Ids |-> IF i \in S THEN NoThread ELSE pending[i]]
    /\ call' = [t \in Threads |-> IF \E i \in S : pending[i] = t
                                  THEN [call[t] EXCEPT !.got = g] ELSE call[t]]

LEMMA ToldTypes ==
    ASSUME NEW c \in Calls, NEW g \in Ids \cup {Failed}
    PROVE  [c EXCEPT !.got = g] \in Calls
BY DEF Calls

LEMMA ToldKeeps ==
    ASSUME Inv, NEW S \in SUBSET Ids, NEW g \in Ids \cup {Failed}, Told(S, g),
           UNCHANGED <<gate, nextId, events>>,
           outbox' \in Seq(Ids \cup {Ack}), asked' \subseteq Ids, inbox' \in Seq(Messages),
           up' \in [server : BOOLEAN, writer : BOOLEAN, reader : BOOLEAN]
    PROVE  Inv'
<1>0. call \in [Threads -> Calls] /\ pending \in [Ids -> Threads \cup {NoThread}]
  BY CallTypes DEF Inv, TypeOK
<1>1. \A u \in Threads : [call[u] EXCEPT !.got = g] \in Calls
  BY <1>0, ToldTypes
<1> USE DEF Told
<1>2. /\ call' \in [Threads -> Calls]
      /\ \A u \in Threads :
            /\ call'[u].pc = call[u].pc /\ call'[u].id = call[u].id
            /\ call'[u].on = call[u].on /\ call'[u].woken = call[u].woken
            /\ call'[u].got = IF \E i \in S : pending[i] = u THEN g ELSE call[u].got
  <2>1. call' \in [Threads -> Calls]
    BY <1>0, <1>1
  <2>2. ASSUME NEW u \in Threads, \E i \in S : pending[i] = u
        PROVE  /\ call'[u].pc = call[u].pc /\ call'[u].id = call[u].id
               /\ call'[u].on = call[u].on /\ call'[u].woken = call[u].woken /\ call'[u].got = g
    <3>1. call'[u] = [call[u] EXCEPT !.got = g] /\ call[u] \in Calls
      BY <1>0, <2>2
    <3> QED
      BY <3>1 DEF Calls
  <2>3. ASSUME NEW u \in Threads, ~\E i \in S : pending[i] = u
        PROVE  call'[u] = call[u]
    BY <2>3
  <2> QED
    BY <2>1, <2>2, <2>3
<1>3. pending' \in [Ids -> Threads \cup {NoThread}]
  BY <1>0
<1>4. TypeOK'
  BY <1>2, <1>3 DEF Inv, TypeOK, Calls, Messages
<1>5. NumbersOwned' /\ SleepersKnow' /\ OpenGateWakesSleepers'
  BY <1>2 DEF Inv, Rest, NumbersOwned, SleepersKnow, OpenGateWakesSleepers, At
<1>6. NumbersLast'
  <2>1. Coming' = Coming
    BY <1>2 DEF Coming
  <2> QED
    BY <2>1 DEF Inv, Rest, NumbersLast
<1>7. \A i \in Ids, u \in Threads :
          pending[i] = u <=> /\ call[u].id = i /\ call[u].pc \in {"registered", "waiting"}
                             /\ call[u].got = None
  BY DEF Inv, Rest, PendingMatchesWaiters
<1>8. GotLater'
  BY <1>2, <1>7 DEF Inv, Rest, GotLater, Before
<1>9. PendingMatchesWaiters'
  <2> SUFFICES ASSUME NEW i \in Ids, NEW u \in Threads
               PROVE  pending'[i] = u <=> /\ call'[u].id = i /\ call'[u].pc \in {"registered", "waiting"}
                                          /\ call'[u].got = None
    BY DEF PendingMatchesWaiters
  <2>1. u # NoThread /\ g # None
    BY ThreadsAssumption, Numbers
  <2>2. CASE \E k \in S : pending[k] = u
    BY <1>2, <1>7, <2>1, <2>2
  <2>3. CASE ~\E k \in S : pending[k] = u
    BY <1>2, <1>7, <2>1, <2>3
  <2> QED
    BY <2>2, <2>3
<1> QED
  BY <1>4, <1>5, <1>6, <1>8, <1>9 DEF Inv, Rest

LEMMA ReaderKeeps ==
    ASSUME Inv, Deliver \/ Acknowledge \/ EndOfFile
    PROVE  Inv'
<1>0. TypeOK /\ GateFits(gate) /\ pending \in [Ids -> Threads \cup {NoThread}]
  BY GateFacts DEF Inv, TypeOK
<1>1. CASE Deliver
  <2>0. PICK i \in Ids : i = Head(inbox).of
    BY <1>0, <1>1, PipeTypes DEF Deliver
  <2>1. /\ inbox' \in Seq(Messages)
        /\ call' = [t \in Threads |-> IF pending[i] = t THEN [call[t] EXCEPT !.got = i] ELSE call[t]]
        /\ pending' = [pending EXCEPT ![i] = NoThread]
        /\ UNCHANGED <<gate, nextId, outbox, asked, up, events>>
    BY <1>0, <1>1, <2>0, PipeTypes DEF Deliver
  <2> DEFINE S == {i}
  <2>2. call' = [t \in Threads |-> IF \E k \in S : pending[k] = t
                                   THEN [call[t] EXCEPT !.got = i] ELSE call[t]]
    BY <2>1
  <2>3. Told(S, i)
    <3>1. pending' = [k \in Ids |-> IF k \in S THEN NoThread ELSE pending[k]]
      BY <1>0, <2>1
    <3> QED
      BY <2>2, <3>1 DEF Told
  <2>4. S \in SUBSET Ids
    OBVIOUS
  <2>5. /\ outbox' \in Seq(Ids \cup {Ack}) /\ asked' \subseteq Ids
        /\ up' \in [server : BOOLEAN, writer : BOOLEAN, reader : BOOLEAN]
    BY <1>0, <2>1, PipeTypes
  <2>6. i \in Ids \cup {Failed} /\ UNCHANGED <<gate, nextId, events>>
    BY <2>1
  <2> HIDE DEF S
  <2> QED
    BY <2>1, <2>3, <2>4, <2>5, <2>6, ToldKeeps
<1>2. ASSUME Drained, inbox' \in Seq(Messages), UNCHANGED <<gate, nextId, outbox, asked, events>>
      PROVE  Inv'
  <2>1. /\ call' = [t \in Threads |-> IF \E k \in Ids : pending[k] = t
                                      THEN [call[t] EXCEPT !.got = Failed] ELSE call[t]]
        /\ up' \in [server : BOOLEAN, writer : BOOLEAN, reader : BOOLEAN]
    BY <1>0, <1>2, PipeTypes DEF Drained
  <2>2. pending' = [k \in Ids |-> IF k \in Ids THEN NoThread ELSE pending[k]]
    BY <1>2 DEF Drained
  <2>3. Ids \in SUBSET Ids /\ Failed \in Ids \cup {Failed} /\ Told(Ids, Failed)
    BY <2>1, <2>2 DEF Told
  <2> QED
    BY <1>0, <1>2, <2>1, <2>3, PipeTypes, ToldKeeps
<1>3. CASE Acknowledge /\ up.writer
  <2>1. outbox' \in Seq(Ids \cup {Ack})
    <3> DEFINE T == Ids \cup {Ack}
    <3>1. outbox \in Seq(T) /\ Ack \in T /\ outbox' = Append(outbox, Ack)
      BY <1>0, <1>3, PipeTypes DEF Acknowledge
    <3> HIDE DEF T
    <3>2. outbox' \in Seq(T)
      BY <3>1
    <3> QED
      BY <3>2 DEF T
  <2> QED
    BY <1>0, <1>3, <2>1, PipeTypes, PipesKeep DEF Acknowledge
<1>4. CASE Acknowledge /\ ~up.writer
  BY <1>0, <1>2, <1>4, PipeTypes DEF Acknowledge
<1>5. CASE EndOfFile
  BY <1>0, <1>2, <1>5, PipeTypes DEF EndOfFile
<1> QED
  BY <1>1, <1>3, <1>4, <1>5

-----------------------------------------------------------------------------
LEMMA Initially == Init => Inv
<1> SUFFICES ASSUME Init PROVE Inv
  OBVIOUS
<1>1. \A t \in Threads : call[t] = Idle
  BY DEF Init
<1>2. TypeOK
  <2>1. call \in [Threads -> Calls]
    BY IdleFields DEF Init
  <2>2. nextId \in 1 .. (MaxCalls + 1) /\ MaxEvents \in 0..MaxEvents
    BY Numbers DEF Init
  <2> QED
    BY <2>1, <2>2 DEF Init, TypeOK, Calls, Indexing
<1>3. NumbersOwned /\ SleepersKnow /\ GotLater /\ OpenGateWakesSleepers
  BY <1>1, IdleFields
  DEF NumbersOwned, SleepersKnow, GotLater, OpenGateWakesSleepers, At, Sent, Before
<1>4. NumbersLast
  <2>1. Coming = {}
    BY <1>1, IdleFields DEF Coming, Before
  <2> QED
    BY <2>1, FS_EmptySet, Numbers, BoundsAssumption DEF NumbersLast, Init
<1>5. PendingMatchesWaiters
  BY <1>1, IdleFields, ThreadsAssumption DEF Init, PendingMatchesWaiters
<1> QED
  BY <1>2, <1>3, <1>4, <1>5 DEF Inv, Rest

LEMMA InvariantKept == Inv /\ [Next]_vars => Inv'
<1> SUFFICES ASSUME Inv, [Next]_vars PROVE Inv'
  OBVIOUS
<1>1. ASSUME NEW t \in Threads, Call(t) \/ Step(t) \/ TimePasses(t) PROVE Inv'
  BY <1>1, CallKeeps, WaitKeeps, OpenGateKeeps, RegisterKeeps, SendKeeps, ReceiveKeeps
  DEF Step, TimePasses
<1>2. ASSUME Arm \/ Shutdown \/ DebouncePasses \/ WriterForwards \/ Read \/ Server PROVE Inv'
  BY <1>2, ClientKeeps, ServerKeeps, NoteEndKeeps, ReaderKeeps DEF Read
<1>3. CASE UNCHANGED vars
  <2>1. TypeOK'
    BY <1>3 DEF vars, Inv, TypeOK
  <2>2. Coming' = Coming
    BY <1>3 DEF vars, Coming
  <2>3. Rest'
    BY <1>3, <2>2 DEF vars, Inv, Rest, NumbersOwned, SleepersKnow, NumbersLast, GotLater,
       PendingMatchesWaiters, OpenGateWakesSleepers, At
  <2> QED
    BY <2>1, <2>3 DEF Inv
<1> QED
  BY <1>1, <1>2, <1>3 DEF Next

LEMMA InvHolds == Spec => []Inv
BY Initially, InvariantKept, PTL DEF Spec

(* Every variable keeps its type, and the tracker has tokens exactly while *)
(* it is active, or not armed yet (ProgressTracker).                       *)
THEOREM TypeCorrect == Spec => []TypeOK
<1>1. Inv => TypeOK
  BY DEF Inv
<1> QED
  BY <1>1, InvHolds, PTL

(* The pending map holds exactly the requests that are waited for and were *)
(* told nothing yet (send_request, route_response, drain_pending).         *)
THEOREM PendingIsExact == Spec => []PendingMatchesWaiters
<1>1. Inv => PendingMatchesWaiters
  BY DEF Inv, Rest
<1> QED
  BY <1>1, InvHolds, PTL

(* Nobody sleeps on at an open gate: whoever opens it has signalled        *)
(* (wait_ready, arm, shutdown).                                            *)
THEOREM NoWakeupIsLost == Spec => []OpenGateWakesSleepers
<1>1. Inv => OpenGateWakesSleepers
  BY DEF Inv, Rest
<1> QED
  BY <1>1, InvHolds, PTL

-----------------------------------------------------------------------------
(* What the reader has still to read of the progress cycles.               *)
Listening == Indexing \cup {"uninitialized"}
Holds(q, from, m) == \E j \in DOMAIN q : j > from /\ q[j] = m

(* A token begins again only once it has ended, and no end comes twice.    *)
CyclesAlternate ==
    \A i \in DOMAIN inbox, k \in Tokens :
        inbox[i] = Message("end", k) /\ (k \in events.open \/ Holds(inbox, i, Message("end", k)))
            => Holds(inbox, i, Message("begin", k))

(* While the gate may be shut, the tracker has every cycle seen to be open. *)
TrackerKnows == gate.phase \in Listening => SeenOpen \subseteq gate.open

Cycles == Inv /\ CyclesAlternate /\ TrackerKnows

LEMMA MessageFacts ==
    /\ \A k : Message("end", k).kind = "end" /\ Message("end", k).of = k
    /\ \A k : Message("begin", k).kind = "begin" /\ Message("begin", k).of = k
    /\ \A m \in Messages : m = Message(m.kind, m.of)
    /\ \A j, k, l : Message(j, k) = Message(j, l) => k = l
    /\ \A k, l : Message("begin", k) # Message("end", l)
BY DEF Message, Messages

LEMMA HoldsFacts ==
    ASSUME NEW q \in Seq(Messages), NEW m
    PROVE  /\ \A x \in Messages, i \in Nat :
                 Holds(Append(q, x), i, m) <=> Holds(q, i, m) \/ (x = m /\ i <= Len(q))
           /\ q # <<>> => /\ \A i \in Nat : Holds(Tail(q), i, m) <=> Holds(q, i + 1, m)
                          /\ Holds(q, 0, m) <=> Head(q) = m \/ Holds(q, 1, m)
<1>1. ASSUME NEW x \in Messages, NEW i \in Nat
      PROVE  Holds(Append(q, x), i, m) <=> Holds(q, i, m) \/ (x = m /\ i <= Len(q))
  <2>1. /\ DOMAIN Append(q, x) = 1..(Len(q) + 1) /\ Append(q, x)[Len(q) + 1] = x
        /\ DOMAIN q = 1..Len(q) /\ \A j \in 1..Len(q) : Append(q, x)[j] = q[j]
        /\ Len(q) \in Nat
    OBVIOUS
  <2> QED
    BY <2>1 DEF Holds
<1>2. ASSUME q # <<>>, NEW i \in Nat PROVE Holds(Tail(q), i, m) <=> Holds(q, i + 1, m)
  <2>1. /\ DOMAIN Tail(q) = 1..(Len(q) - 1) /\ DOMAIN q = 1..Len(q)
        /\ \A j \in 1..(Len(q) - 1) : Tail(q)[j] = q[j + 1] /\ Len(q) \in Nat
    BY <1>2
  <2>2. ASSUME Holds(q, i + 1, m) PROVE Holds(Tail(q), i, m)
    <3>1. PICK j \in 1..Len(q) : j > i + 1 /\ q[j] = m
      BY <2>1, <2>2 DEF Holds
    <3>2. j - 1 \in 1..(Len(q) - 1) /\ j - 1 > i /\ Tail(q)[j - 1] = q[(j - 1) + 1] /\ (j - 1) + 1 = j
      BY <2>1, <3>1
    <3> QED
      BY <2>1, <3>1, <3>2 DEF Holds
  <2> QED
    BY <2>1, <2>2 DEF Holds
<1>3. ASSUME q # <<>> PROVE Holds(q, 0, m) <=> Head(q) = m \/ Holds(q, 1, m)
  <2>1. Head(q) = q[1] /\ DOMAIN q = 1..Len(q) /\ Len(q) \in Nat /\ Len(q) >= 1
    BY <1>3
  <2> QED
    BY <2>1 DEF Holds
<1> QED
  BY <1>1, <1>2, <1>3

(* A cycle seen to be open, in terms of what is unread.                    *)
Sees(k) ==
    /\ k \in events.open \/ Holds(inbox, 0, Message("end", k))
    /\ ~Holds(inbox, 0, Message("begin", k))

LEMMA SeenFacts == TypeOK => \A k : k \in SeenOpen <=> Sees(k)
<1> SUFFICES ASSUME TypeOK, NEW k PROVE k \in SeenOpen <=> Sees(k)
  OBVIOUS
<1> DEFINE Unread(d) == {inbox[i].of : i \in {j \in DOMAIN inbox : inbox[j].kind = d}}
<1>1. DOMAIN inbox = 1..Len(inbox) /\ \A j \in DOMAIN inbox : inbox[j] \in Messages /\ j > 0
  BY PipeTypes
<1>2. \A d : k \in Unread(d) <=> Holds(inbox, 0, Message(d, k))
  <2>1. ASSUME NEW d, k \in Unread(d) PROVE Holds(inbox, 0, Message(d, k))
    BY <1>1, <2>1, MessageFacts DEF Holds
  <2>2. ASSUME NEW d, Holds(inbox, 0, Message(d, k)) PROVE k \in Unread(d)
    BY <1>1, <2>2 DEF Holds, Message
  <2> QED
    BY <2>1, <2>2
<1>3. SeenOpen = (events.open \cup Unread("end")) \ Unread("begin")
  BY DEF SeenOpen
<1> HIDE DEF Unread
<1> QED
  BY <1>2, <1>3 DEF Sees

SeesOpen == gate.phase \in Listening => \A k \in Tokens : Sees(k) => k \in gate.open

LEMMA TrackerByTokens == TypeOK => (TrackerKnows <=> SeesOpen)
<1> SUFFICES ASSUME TypeOK PROVE TrackerKnows <=> SeesOpen
  OBVIOUS
<1>1. \A k \in SeenOpen : k \in Tokens
  <2> SUFFICES ASSUME NEW k \in SeenOpen PROVE k \in Tokens
    OBVIOUS
  <2>1. k \in events.open \/ Holds(inbox, 0, Message("end", k))
    BY SeenFacts DEF Sees
  <2>2. \A j \in DOMAIN inbox : inbox[j] \in Messages
    BY PipeTypes
  <2>3. \A m \in Messages : m.kind = "end" => m.of \in Tokens
    BY DEF Messages
  <2> QED
    BY <2>1, <2>2, <2>3, MessageFacts, PipeTypes DEF Holds
<1> QED
  BY <1>1, SeenFacts DEF TrackerKnows, SeesOpen

(* The reader and the server leave the pipe as it is.                      *)
LEMMA QuietKeeps ==
    ASSUME Cycles, Inv', UNCHANGED <<inbox, events>>,
           gate'.phase \in Listening => gate.phase \in Listening /\ gate.open \subseteq gate'.open
    PROVE  Cycles'
<1>1. CyclesAlternate'
  BY DEF Cycles, CyclesAlternate, Holds
<1>2. \A k \in Tokens : Sees(k)' => Sees(k)
  BY DEF Sees, Holds
<1>3. TrackerKnows'
  <2>1. TypeOK /\ TypeOK'
    BY DEF Cycles, Inv
  <2>2. TrackerKnows <=> SeesOpen
    BY <2>1, TrackerByTokens
  <2>3. (TypeOK => (TrackerKnows <=> SeesOpen))'
    BY TrackerByTokens, PTL
  <2> QED
    BY <1>2, <2>1, <2>2, <2>3 DEF Cycles, SeesOpen
<1> QED
  BY <1>1, <1>3 DEF Cycles

(* The server writes: begins and ends of a token take turns.               *)
LEMMA SaidKeeps ==
    ASSUME Cycles, Inv', UNCHANGED gate, NEW m \in Messages, inbox' = Append(inbox, m),
           \A k \in Tokens : m = Message("begin", k) => k \notin events.open,
           \A k \in Tokens : m = Message("end", k) => k \in events.open /\ k \notin events'.open,
           \A k \in Tokens : m # Message("begin", k) => (k \in events'.open => k \in events.open)
    PROVE  Cycles'
<1>0. TypeOK /\ TypeOK' /\ inbox \in Seq(Messages) /\ inbox' \in Seq(Messages)
  BY PipeTypes DEF Cycles, Inv
<1>1. /\ DOMAIN inbox' = 1..(Len(inbox) + 1) /\ inbox'[Len(inbox) + 1] = m
      /\ DOMAIN inbox = 1..Len(inbox) /\ \A j \in 1..Len(inbox) : inbox'[j] = inbox[j]
      /\ Len(inbox) \in Nat
  BY <1>0
<1>2. \A i \in Nat : \A x : Holds(inbox', i, x) <=> Holds(inbox, i, x) \/ (m = x /\ i <= Len(inbox))
  BY <1>0, HoldsFacts
<1>3. CyclesAlternate'
  <2> SUFFICES ASSUME NEW i \in DOMAIN inbox', NEW k \in Tokens, inbox'[i] = Message("end", k),
                      k \in events'.open \/ Holds(inbox', i, Message("end", k))
               PROVE  Holds(inbox', i, Message("begin", k))
    BY DEF CyclesAlternate, Holds
  <2>1. i \in Nat
    BY <1>1
  <2>2. CASE i = Len(inbox) + 1
    <3>1. m = Message("end", k) /\ k \notin events'.open /\ ~Holds(inbox', i, Message("end", k))
      BY <1>1, <1>2, <2>1, <2>2 DEF Holds
    <3> QED
      BY <3>1
  <2>3. CASE i \in DOMAIN inbox
    <3>1. inbox[i] = Message("end", k) /\ i <= Len(inbox)
      BY <1>1, <2>3
    <3>2. CASE m = Message("begin", k)
      BY <1>2, <2>1, <3>1, <3>2
    <3>3. CASE m # Message("begin", k)
      <4>1. k \in events.open \/ Holds(inbox, i, Message("end", k))
        BY <1>2, <2>1, <3>3
      <4>2. Holds(inbox, i, Message("begin", k))
        BY <2>3, <3>1, <4>1 DEF Cycles, CyclesAlternate
      <4> QED
        BY <1>2, <2>1, <4>2
    <3> QED
      BY <3>2, <3>3
  <2> QED
    BY <1>1, <2>2, <2>3
<1>4. \A k \in Tokens : Sees(k)' => Sees(k)
  <2> SUFFICES ASSUME NEW k \in Tokens, Sees(k)' PROVE Sees(k)
    OBVIOUS
  <2>1. /\ k \in events'.open \/ Holds(inbox', 0, Message("end", k))
        /\ ~Holds(inbox', 0, Message("begin", k))
    BY DEF Sees, Holds
  <2>2. m # Message("begin", k) /\ ~Holds(inbox, 0, Message("begin", k))
    BY <1>1, <1>2, <2>1
  <2>3. k \in events.open \/ Holds(inbox, 0, Message("end", k))
    BY <1>2, <2>1, <2>2
  <2> QED
    BY <2>2, <2>3 DEF Sees
<1>5. TrackerKnows'
  <2>1. TrackerKnows <=> SeesOpen
    BY <1>0, TrackerByTokens
  <2>2. (TypeOK => (TrackerKnows <=> SeesOpen))'
    BY TrackerByTokens, PTL
  <2> QED
    BY <1>0, <1>4, <2>1, <2>2 DEF Cycles, SeesOpen
<1> QED
  BY <1>3, <1>5 DEF Cycles

(* The reader reads: an end it takes from the pipe closes its cycle, unless *)
(* a begin comes after it.                                                  *)
LEMMA ReadKeeps ==
    ASSUME Cycles, Inv', inbox # <<>>, inbox' = Tail(inbox), UNCHANGED events,
           gate'.phase \in Listening => gate.phase \in Listening,
           \A k \in gate.open : k \in gate'.open \/ Head(inbox) = Message("end", k)
                                \/ gate'.phase \notin Listening,
           \A k \in Tokens : Head(inbox) = Message("begin", k)
                                => k \in gate'.open \/ gate'.phase \notin Listening
    PROVE  Cycles'
<1>0. TypeOK /\ TypeOK' /\ inbox \in Seq(Messages) /\ inbox' \in Seq(Messages)
  BY PipeTypes DEF Cycles, Inv
<1>1. /\ DOMAIN inbox = 1..Len(inbox) /\ DOMAIN inbox' = 1..(Len(inbox) - 1) /\ Len(inbox) \in Nat
      /\ Len(inbox) >= 1 /\ Head(inbox) = inbox[1]
      /\ \A j \in 1..(Len(inbox) - 1) : inbox'[j] = inbox[j + 1]
  BY <1>0
<1>2. \A i \in Nat : \A x : Holds(inbox', i, x) <=> Holds(inbox, i + 1, x)
  BY <1>0, HoldsFacts
<1>3. \A x : Holds(inbox, 0, x) <=> Head(inbox) = x \/ Holds(inbox, 1, x)
  BY <1>0, HoldsFacts
<1>4. CyclesAlternate'
  <2> SUFFICES ASSUME NEW i \in DOMAIN inbox', NEW k \in Tokens, inbox'[i] = Message("end", k),
                      k \in events'.open \/ Holds(inbox', i, Message("end", k))
               PROVE  Holds(inbox', i, Message("begin", k))
    BY DEF CyclesAlternate, Holds
  <2>1. i \in Nat /\ i + 1 \in DOMAIN inbox /\ inbox[i + 1] = Message("end", k)
    BY <1>1
  <2>2. k \in events.open \/ Holds(inbox, i + 1, Message("end", k))
    BY <1>2, <2>1
  <2>3. Holds(inbox, i + 1, Message("begin", k))
    BY <2>1, <2>2 DEF Cycles, CyclesAlternate
  <2> QED
    BY <1>2, <2>1, <2>3
<1>5. ASSUME NEW k \in Tokens, Sees(k)', gate'.phase \in Listening PROVE k \in gate'.open
  <2>1. /\ k \in events.open \/ Holds(inbox', 0, Message("end", k))
        /\ ~Holds(inbox', 0, Message("begin", k))
    BY <1>5 DEF Sees, Holds
  <2>2. /\ k \in events.open \/ Holds(inbox, 1, Message("end", k))
        /\ ~Holds(inbox, 1, Message("begin", k))
    BY <1>2, <2>1
  <2>3. CASE Head(inbox) = Message("begin", k)
    BY <1>5, <2>3
  <2>4. CASE Head(inbox) # Message("begin", k)
    <3>1. Sees(k)
      BY <1>3, <2>2, <2>4 DEF Sees
    <3>2. k \in gate.open
      BY <1>0, <1>5, <3>1, TrackerByTokens DEF Cycles, SeesOpen
    <3>3. Head(inbox) # Message("end", k)
      BY <1>1, <2>2 DEF Cycles, CyclesAlternate
    <3> QED
      BY <1>5, <3>2, <3>3
  <2> QED
    BY <2>3, <2>4
<1>6. TrackerKnows'
  <2>1. (TypeOK => (TrackerKnows <=> SeesOpen))'
    BY TrackerByTokens, PTL
  <2> QED
    BY <1>0, <1>5, <2>1 DEF SeesOpen
<1> QED
  BY <1>4, <1>6 DEF Cycles

LEMMA CyclesInitially == Init => Cycles
<1> SUFFICES ASSUME Init PROVE Cycles
  OBVIOUS
<1>1. Inv
  BY Initially
<1>2. DOMAIN inbox = {} /\ events.open = {}
  BY DEF Init
<1>3. CyclesAlternate
  BY <1>2 DEF CyclesAlternate
<1>4. TrackerKnows
  BY <1>1, <1>2, TrackerByTokens DEF Inv, SeesOpen, Sees, Holds
<1> QED
  BY <1>1, <1>3, <1>4 DEF Cycles

LEMMA ReadingKept == ASSUME Cycles, Inv', Read PROVE Cycles'
<1>0. TypeOK /\ GateFits(gate) /\ (inbox # <<>> => Head(inbox) \in Messages)
  BY GateFacts, PipeTypes DEF Cycles, Inv
<1>1. CASE NoteBegin
  <2> DEFINE k == Head(inbox).of
  <2>1. /\ inbox # <<>> /\ inbox' = Tail(inbox) /\ gate' = Began(gate, k) /\ UNCHANGED events
        /\ Head(inbox) = Message("begin", k) /\ k \in Tokens
    BY <1>0, <1>1, PipeTypes, MessageFacts DEF NoteBegin
  <2> HIDE DEF k
  <2>2. gate'.phase \in Listening => gate.phase \in Listening
    BY <1>0, <2>1 DEF Began, GateFits, Gates, Listening, Indexing
  <2>3. gate'.phase \in Listening => k \in gate'.open /\ gate.open \subseteq gate'.open
    BY <1>0, <2>1 DEF Began, GateFits, Gates, Listening, Indexing
  <2>4. \A l \in Tokens : Head(inbox) = Message("begin", l) => l = k
    BY <2>1, MessageFacts
  <2> QED
    BY <2>1, <2>2, <2>3, <2>4, ReadKeeps
<1>2. CASE NoteEnd
  <2> DEFINE k == Head(inbox).of
  <2>1. /\ inbox # <<>> /\ inbox' = Tail(inbox) /\ gate' = Ended(gate, k) /\ UNCHANGED events
        /\ Head(inbox) = Message("end", k) /\ k \in Tokens
    BY <1>0, <1>2, PipeTypes, MessageFacts DEF NoteEnd
  <2> HIDE DEF k
  <2>2. gate'.phase \in Listening => gate.phase \in Listening
    BY <1>0, <2>1 DEF Ended, GateFits, Gates, Listening, Indexing
  <2>3. \A l \in gate.open : l \in gate'.open \/ l = k
    BY <1>0, <2>1 DEF Ended, GateFits, Gates
  <2>4. \A l : Head(inbox) # Message("begin", l)
    BY <2>1, MessageFacts
  <2> QED
    BY <2>1, <2>2, <2>3, <2>4, ReadKeeps
<1>3. CASE Deliver \/ Acknowledge
  <2>1. /\ inbox # <<>> /\ inbox' = Tail(inbox) /\ UNCHANGED <<gate, events>>
        /\ Head(inbox).kind \notin {"begin", "end"}
    BY <1>3 DEF Deliver, Acknowledge
  <2> QED
    BY <2>1, MessageFacts, ReadKeeps
<1>4. CASE EndOfFile
  BY <1>4, QuietKeeps DEF EndOfFile
<1> QED
  BY <1>1, <1>2, <1>3, <1>4 DEF Read

LEMMA SayingKept == ASSUME Cycles, Inv', Server PROVE Cycles'
<1>0. TypeOK /\ events \in [open : SUBSET Tokens, left : 0..MaxEvents] /\ asked \subseteq Ids
  BY PipeTypes DEF Cycles, Inv
<1>1. CASE ServerAnswers
  <2>1. PICK i \in asked : inbox' = Append(inbox, Message("answer", i))
    BY <1>1 DEF ServerAnswers, Says
  <2>2. /\ Message("answer", i) \in Messages
        /\ \A k : Message("answer", i) # Message("begin", k) /\ Message("answer", i) # Message("end", k)
    BY <1>0 DEF Message, Messages
  <2> QED
    BY <1>1, <2>1, <2>2, SaidKeeps DEF ServerAnswers
<1>2. CASE ServerBegins
  <2>1. PICK k \in Tokens \ events.open :
          /\ inbox' = Append(inbox, Message("begin", k))
          /\ events' = [open |-> events.open \cup {k}, left |-> events.left - 1]
    BY <1>2 DEF ServerBegins, Says
  <2>2. Message("begin", k) \in Messages
    BY DEF Message, Messages
  <2>3. \A l : l \in events'.open <=> l \in events.open \/ l = k
    BY <2>1
  <2>4. \A l : Message("begin", k) = Message("begin", l) => l = k
    BY MessageFacts
  <2>5. \A l : Message("begin", k) # Message("end", l)
    BY MessageFacts
  <2> QED
    BY <1>2, <2>1, <2>2, <2>3, <2>4, <2>5, SaidKeeps DEF ServerBegins
<1>3. CASE ServerEnds
  <2>1. PICK k \in events.open :
          /\ inbox' = Append(inbox, Message("end", k))
          /\ events' = [events EXCEPT !.open = @ \ {k}]
    BY <1>3 DEF ServerEnds, Says
  <2>2. Message("end", k) \in Messages
    BY <1>0 DEF Message, Messages
  <2>3. \A l : l \in events'.open <=> l \in events.open /\ l # k
    BY <1>0, <2>1
  <2>4. \A l : Message("end", k) = Message("end", l) => l = k
    BY MessageFacts
  <2>5. \A l : Message("end", k) # Message("begin", l)
    BY MessageFacts
  <2> QED
    BY <1>3, <2>1, <2>2, <2>3, <2>4, <2>5, SaidKeeps DEF ServerEnds
<1>4. CASE ServerAsks
  <2>1. /\ Message("request", Ack) \in Messages
        /\ \A k : Message("request", Ack) # Message("begin", k) /\ Message("request", Ack) # Message("end", k)
    BY DEF Message, Messages
  <2>2. events'.open = events.open
    BY <1>0, <1>4 DEF ServerAsks
  <2> QED
    BY <1>4, <2>1, <2>2, SaidKeeps DEF ServerAsks, Says
<1>5. CASE ServerDies
  BY <1>5, QuietKeeps DEF ServerDies
<1> QED
  BY <1>1, <1>2, <1>3, <1>4, <1>5 DEF Server

LEMMA CyclesKept == Cycles /\ [Next]_vars => Cycles'
<1> SUFFICES ASSUME Cycles, [Next]_vars PROVE Cycles'
  OBVIOUS
<1>0. Inv' /\ TypeOK /\ GateFits(gate)
  BY InvariantKept, GateFacts DEF Cycles, Inv
<1>1. CASE Read \/ Server
  BY <1>0, <1>1, ReadingKept, SayingKept
<1>2. ASSUME NEW t \in Threads, Call(t) \/ Step(t) \/ TimePasses(t) PROVE Cycles'
  <2>1. UNCHANGED <<inbox, events>> /\ (gate' = gate \/ gate'.phase = "ready")
    BY <1>2 DEF Call, Step, TimePasses, PassGate, OpenGate, Sleep, Wake, SleepOn, Register,
       HandToWriter, Receive, IndexTimeout, ResponseTimeout, io
  <2> QED
    BY <1>0, <2>1, QuietKeeps DEF Listening, Indexing
<1>3. CASE Arm \/ Shutdown \/ DebouncePasses \/ WriterForwards \/ UNCHANGED vars
  <2>1. UNCHANGED <<inbox, events>>
    BY <1>3 DEF Arm, Shutdown, DebouncePasses, WriterForwards, vars, io
  <2>2. gate'.phase \in Listening => gate.phase \in Listening /\ gate.open \subseteq gate'.open
    <3>1. CASE Arm
      BY <1>0, <3>1 DEF Arm, GateFits, Gates, Listening, Indexing
    <3>2. CASE Shutdown
      BY <3>2 DEF Shutdown, Listening, Indexing
    <3>3. CASE DebouncePasses
      BY <1>0, <3>3 DEF DebouncePasses, GateFits, Gates, Listening, Indexing
    <3>4. CASE WriterForwards \/ UNCHANGED vars
      BY <3>4 DEF WriterForwards, vars
    <3> QED
      BY <1>3, <3>1, <3>2, <3>3, <3>4
  <2> QED
    BY <1>0, <2>1, <2>2, QuietKeeps
<1> QED
  BY <1>1, <1>2, <1>3 DEF Next

(* The gate stays shut while a cycle is known to be open, those that began *)
(* before arm included, until a waiter's patience runs out (on_begin,      *)
(* on_end, arm, wait_ready).                                               *)
THEOREM GateOpensInTime == Spec => GateWaitsForCycles
<1> DEFINE Patient ==
        gate.phase \in Indexing /\ gate'.phase = "ready"
            => SeenOpen = {} \/ \E t \in Threads : call[t].late
<1>1. Cycles /\ [Next]_vars => [Patient]_vars
  <2> SUFFICES ASSUME Cycles, [Next]_vars, gate.phase \in Indexing, gate'.phase = "ready",
                      \A t \in Threads : ~call[t].late
               PROVE  SeenOpen = {}
    OBVIOUS
  <2>0. TypeOK /\ GateFits(gate)
    BY GateFacts DEF Cycles, Inv
  <2>1. PICK t \in Threads : OpenGate(t)
    <3>1. CASE Arm \/ Shutdown \/ DebouncePasses \/ WriterForwards \/ Server \/ UNCHANGED vars
      BY <2>0, <3>1 DEF Arm, Shutdown, DebouncePasses, WriterForwards, Server, ServerAnswers, ServerBegins,
         ServerEnds, ServerAsks, ServerDies, vars, GateFits, Gates, Indexing
    <3>2. CASE Read
      <4>1. \A k : Began(gate, k).phase # "ready" /\ Ended(gate, k).phase # "ready"
        BY <2>0 DEF Began, Ended, GateFits, Gates, Indexing
      <4> QED
        BY <3>2, <4>1 DEF Read, NoteBegin, NoteEnd, Deliver, Acknowledge, EndOfFile, Indexing
    <3>3. ASSUME NEW t \in Threads, Call(t) \/ Step(t) \/ TimePasses(t), ~OpenGate(t) PROVE FALSE
      <4>1. gate' = gate
        BY <3>3 DEF Call, Step, TimePasses, PassGate, Sleep, Wake, SleepOn, Register,
           HandToWriter, Receive, IndexTimeout, ResponseTimeout
      <4> QED
        BY <4>1 DEF Indexing
    <3> QED
      BY <3>1, <3>2, <3>3 DEF Next
  <2>2. gate.phase = "quiescent"
    BY <2>1 DEF OpenGate
  <2>3. gate.open = {}
    BY <2>0, <2>2 DEF GateFits
  <2> QED
    BY <2>2, <2>3 DEF Cycles, TrackerKnows, Listening, Indexing
<1>2. [][Patient]_vars <=> GateWaitsForCycles
  BY DEF GateWaitsForCycles
<1> QED
  BY CyclesInitially, CyclesKept, <1>1, <1>2, PTL DEF Spec
=============================================================================
