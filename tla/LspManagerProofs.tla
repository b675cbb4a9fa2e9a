--------------------------- MODULE LspManagerProofs ---------------------------
(***************************************************************************)
(* Proofs about the LSP session manager: the choice of servers             *)
(* (LspServers), for any configuration and any number of threads, files    *)
(* and servers, and the messages about one document (LspDocuments), for    *)
(* any number of threads and texts.  The two share no state.               *)
(***************************************************************************)
EXTENDS LspDocuments, LspServers, SequenceTheorems, TLAPS

-----------------------------------------------------------------------------
(* The registry and the clients (LspServers).                              *)

OnCall(t) == call[t].job # "none"
First(f) == Head(Candidates(ExtOf[f]))

(* A call in progress is about a file and holds a client or one it has     *)
(* started, never both.                                                    *)
CallShape ==
    /\ call = [t \in Workers |-> call[t]]
    /\ \A t \in Workers :
        /\ DOMAIN call[t] = {"job", "file", "left", "own", "client"}
        /\ IF OnCall(t) THEN call[t].file \in Sources
           ELSE call[t].left = <<>> /\ call[t].own = NoClient /\ call[t].client = NoClient
        /\ call[t].client # NoClient => call[t].own = NoClient
    /\ toldOf = [f \in Sources |-> toldOf[f]]
    /\ refused \in Nat /\ spawned \in Nat /\ NoClient \notin DOMAIN running

(* While every spawn works nobody gets past the first candidate, whose     *)
(* client, once registered, stays; so it is the one each call has found    *)
(* and the one each file was opened in.                                    *)
FirstChoice ==
    refused = 0 =>
        /\ \A t \in Workers : OnCall(t) =>
            /\ call[t].left = Candidates(ExtOf[call[t].file])
            /\ call[t].client # NoClient =>
                  First(call[t].file) \in DOMAIN clients /\ call[t].client = clients[First(call[t].file)]
        /\ \A f \in Sources : toldOf[f] # NoClient =>
              First(f) \in DOMAIN clients /\ toldOf[f] = clients[First(f)]

ServersInv == CallShape /\ OneClientPerServer /\ FirstChoice

(* What each kind of step does to the call of its thread.                  *)
LEMMA CallsChange ==
    ASSUME CallShape, NEW t \in Workers, NEW c,
           DOMAIN c = {"job", "file", "left", "own", "client"},
           call' = [call EXCEPT ![t] = c]
    PROVE  /\ call' = [u \in Workers |-> call'[u]]
           /\ call'[t] = c
           /\ \A u \in Workers \ {t} : call'[u] = call[u]
           /\ \A u \in Workers : DOMAIN call'[u] = {"job", "file", "left", "own", "client"}
BY DEF CallShape

LEMMA FreeFields ==
    /\ DOMAIN Free = {"job", "file", "left", "own", "client"}
    /\ Free.job = "none" /\ Free.left = <<>> /\ Free.own = NoClient /\ Free.client = NoClient
BY DEF Free

LEMMA ServersInitially == ServersInit => ServersInv
<1> SUFFICES ASSUME ServersInit PROVE ServersInv
  OBVIOUS
<1>1. CallShape
  BY FreeFields DEF ServersInit, CallShape, OnCall, NoClient
<1>2. OneClientPerServer
  BY FreeFields DEF ServersInit, OneClientPerServer
<1>3. FirstChoice
  BY FreeFields DEF ServersInit, FirstChoice, OnCall
<1> QED
  BY <1>1, <1>2, <1>3 DEF ServersInv

(* A call that begins has found nothing and started nothing.               *)
LEMMA BeginKeeps ==
    ASSUME ServersInv, NEW t \in Workers, NEW f \in Sources, NEW task \in {"open", "use", "warm"},
           Begin(t, task, f), UNCHANGED <<clients, running, toldOf, spawned, refused>>
    PROVE  ServersInv'
<1> DEFINE c == [Free EXCEPT !.job = task, !.file = f, !.left = Candidates(ExtOf[f])]
<1>1. /\ DOMAIN c = {"job", "file", "left", "own", "client"}
      /\ c.job = task /\ c.file = f /\ c.left = Candidates(ExtOf[f])
      /\ c.own = NoClient /\ c.client = NoClient
  BY FreeFields
<1>2. call' = [call EXCEPT ![t] = c]
  BY DEF Begin
<1> HIDE DEF c
<1>3. /\ call' = [u \in Workers |-> call'[u]]
      /\ call'[t] = c
      /\ \A u \in Workers \ {t} : call'[u] = call[u]
      /\ \A u \in Workers : DOMAIN call'[u] = {"job", "file", "left", "own", "client"}
  BY <1>1, <1>2, CallsChange DEF ServersInv
<1>4. call[t].own = NoClient
  BY DEF Begin, ServersInv, CallShape, OnCall
<1>5. CallShape'
  BY <1>1, <1>3 DEF ServersInv, CallShape, OnCall
<1>6. OneClientPerServer'
  BY <1>1, <1>3, <1>4 DEF ServersInv, OneClientPerServer
<1>7. FirstChoice'
  BY <1>1, <1>3 DEF ServersInv, FirstChoice, OnCall, First
<1> QED
  BY <1>5, <1>6, <1>7 DEF ServersInv

(* The registered client of the server a call wants is found.              *)
LEMMA FindRunningKeeps ==
    ASSUME ServersInv, NEW t \in Workers, FindRunning(t)
    PROVE  ServersInv'
<1> DEFINE c == [call[t] EXCEPT !.client = clients[Wanted(t)]]
<1>1. /\ DOMAIN c = {"job", "file", "left", "own", "client"}
      /\ c.job = call[t].job /\ c.file = call[t].file /\ c.left = call[t].left
      /\ c.own = NoClient /\ c.client = clients[Head(call[t].left)]
      /\ call' = [call EXCEPT ![t] = c]
  BY DEF FindRunning, Seeking, Wanted, ServersInv, CallShape
<1>2. /\ OnCall(t) /\ Head(call[t].left) \in DOMAIN clients /\ call[t].own = NoClient
      /\ UNCHANGED <<clients, running, toldOf, spawned, refused>>
  BY DEF FindRunning, Wanted, Seeking, ServersInv, CallShape
<1> HIDE DEF c
<1>3. /\ call' = [u \in Workers |-> call'[u]]
      /\ call'[t] = c
      /\ \A u \in Workers \ {t} : call'[u] = call[u]
      /\ \A u \in Workers : DOMAIN call'[u] = {"job", "file", "left", "own", "client"}
  BY <1>1, CallsChange DEF ServersInv
<1>4. CallShape'
  BY <1>1, <1>2, <1>3 DEF ServersInv, CallShape, OnCall
<1>5. OneClientPerServer'
  <2>1. Range(clients') = Range(clients) /\ c.client \in Range(clients)
    BY <1>1, <1>2 DEF Range
  <2>2. \A u \in Workers : call'[u].own = call[u].own
    BY <1>1, <1>2, <1>3
  <2>3. \A u \in Workers : call'[u].client # NoClient => call'[u].client \in Range(clients)
    BY <1>3, <2>1 DEF ServersInv, OneClientPerServer
  <2> QED
    BY <1>2, <2>1, <2>2, <2>3 DEF ServersInv, OneClientPerServer
<1>6. FirstChoice'
  BY <1>1, <1>2, <1>3 DEF ServersInv, FirstChoice, OnCall, First
<1> QED
  BY <1>4, <1>5, <1>6 DEF ServersInv

(* A process is started outside of the lock, in the hands of its thread.   *)
LEMMA SpawnServerKeeps ==
    ASSUME ServersInv, NEW t \in Workers, SpawnServer(t)
    PROVE  ServersInv'
<1> DEFINE c == [call[t] EXCEPT !.own = spawned']
<1>1. /\ DOMAIN c = {"job", "file", "left", "own", "client"}
      /\ c.job = call[t].job /\ c.file = call[t].file /\ c.left = call[t].left
      /\ c.own = spawned' /\ c.client = NoClient
      /\ call' = [call EXCEPT ![t] = c]
  BY DEF SpawnServer, Seeking, ServersInv, CallShape
<1>2. /\ call[t].own = NoClient /\ call[t].client = NoClient
      /\ DOMAIN running' = DOMAIN running \cup {spawned'}
      /\ spawned' = spawned + 1 /\ spawned' # NoClient
      /\ UNCHANGED <<clients, toldOf, refused>>
  BY DEF SpawnServer, Seeking, ServersInv, CallShape, NoClient
<1>3. OnCall(t)
  BY DEF SpawnServer, Seeking, ServersInv, CallShape
<1> HIDE DEF c
<1>4. /\ call' = [u \in Workers |-> call'[u]]
      /\ call'[t] = c
      /\ \A u \in Workers \ {t} : call'[u] = call[u]
      /\ \A u \in Workers : DOMAIN call'[u] = {"job", "file", "left", "own", "client"}
  BY <1>1, CallsChange DEF ServersInv
<1>5. CallShape'
  BY <1>1, <1>2, <1>3, <1>4 DEF ServersInv, CallShape, OnCall
<1>6. OneClientPerServer'
  <2>1. \A u \in Workers : call[u].own # NoClient => call'[u].own = call[u].own
    BY <1>2, <1>4
  <2>2. call'[t].own = spawned'
    BY <1>1, <1>4
  <2>3. \A d \in DOMAIN running' : d \in Range(clients) \/ \E u \in Workers : call'[u].own = d
    <3> SUFFICES ASSUME NEW d \in DOMAIN running, d \notin Range(clients)
                 PROVE  \E u \in Workers : call'[u].own = d
      BY <1>2, <2>2
    <3>1. PICK u \in Workers : call[u].own = d
      BY DEF ServersInv, OneClientPerServer
    <3> QED
      BY <2>1, <3>1 DEF ServersInv, CallShape
  <2>4. \A u \in Workers : call'[u].client = call[u].client
    BY <1>1, <1>2, <1>4
  <2> QED
    BY <1>2, <2>3, <2>4 DEF ServersInv, OneClientPerServer
<1>7. FirstChoice'
  BY <1>1, <1>2, <1>4 DEF ServersInv, FirstChoice, OnCall, First
<1> QED
  BY <1>5, <1>6, <1>7 DEF ServersInv

(* The next candidate's turn: from now on refused is not 0.                *)
LEMMA SpawnFailsKeeps ==
    ASSUME ServersInv, NEW t \in Workers, SpawnFails(t)
    PROVE  ServersInv'
<1> DEFINE rest == Tail(call[t].left)
           c == IF rest = <<>> THEN Free ELSE [call[t] EXCEPT !.left = rest]
<1>1. /\ DOMAIN c = {"job", "file", "left", "own", "client"}
      /\ c.own = NoClient /\ c.client = NoClient
      /\ c = Free \/ (c.job = call[t].job /\ c.file = call[t].file)
      /\ call' = [call EXCEPT ![t] = c]
  BY FreeFields DEF SpawnFails, Seeking, ServersInv, CallShape
<1>2. /\ OnCall(t) /\ call[t].own = NoClient /\ call[t].client = NoClient
      /\ UNCHANGED <<clients, running, toldOf, spawned>>
      /\ refused' = refused + 1
  BY DEF SpawnFails, Seeking, ServersInv, CallShape
<1> HIDE DEF c
<1>3. /\ call' = [u \in Workers |-> call'[u]]
      /\ call'[t] = c
      /\ \A u \in Workers \ {t} : call'[u] = call[u]
      /\ \A u \in Workers : DOMAIN call'[u] = {"job", "file", "left", "own", "client"}
  BY <1>1, CallsChange DEF ServersInv
<1>4. refused' \in Nat /\ refused' # 0
  BY <1>2 DEF ServersInv, CallShape
<1>5. CallShape'
  BY <1>1, <1>2, <1>3, <1>4, FreeFields DEF ServersInv, CallShape, OnCall
<1>6. OneClientPerServer'
  BY <1>1, <1>2, <1>3 DEF ServersInv, OneClientPerServer
<1>7. FirstChoice'
  BY <1>4 DEF FirstChoice
<1> QED
  BY <1>5, <1>6, <1>7 DEF ServersInv

(* Who comes first registers its client; who comes second drops it.        *)
LEMMA RegisterKeeps ==
    ASSUME ServersInv, NEW t \in Workers, Register(t)
    PROVE  ServersInv'
<1> DEFINE s == Head(call[t].left)
           old == s \in DOMAIN clients
           its == IF old THEN clients[s] ELSE call[t].own
           c == [call[t] EXCEPT !.client = its, !.own = NoClient]
<1>1. /\ DOMAIN c = {"job", "file", "left", "own", "client"}
      /\ c.job = call[t].job /\ c.file = call[t].file /\ c.left = call[t].left
      /\ c.own = NoClient /\ c.client = its
      /\ call' = [call EXCEPT ![t] = c]
  BY DEF Register, Wanted, ServersInv, CallShape
<1>2. /\ OnCall(t) /\ call[t].own # NoClient /\ call[t].client = NoClient
      /\ UNCHANGED <<toldOf, spawned, refused>>
  BY DEF Register, ServersInv, CallShape
<1>3. /\ DOMAIN clients' = DOMAIN clients \cup {s}
      /\ \A r \in DOMAIN clients : clients'[r] = clients[r]
      /\ clients'[s] = its
      /\ DOMAIN running' \subseteq DOMAIN running
      /\ call[t].own \notin DOMAIN running' \/ its = call[t].own
  BY DEF Register, Wanted
<1> HIDE DEF c, its, old, s
<1>4. /\ call' = [u \in Workers |-> call'[u]]
      /\ call'[t] = c
      /\ \A u \in Workers \ {t} : call'[u] = call[u]
      /\ \A u \in Workers : DOMAIN call'[u] = {"job", "file", "left", "own", "client"}
  BY <1>1, CallsChange DEF ServersInv
<1>5. Range(clients) \subseteq Range(clients') /\ its \in Range(clients')
  BY <1>3 DEF Range
<1>6. CallShape'
  BY <1>1, <1>2, <1>3, <1>4 DEF ServersInv, CallShape, OnCall
<1>7. OneClientPerServer'
  BY <1>1, <1>2, <1>3, <1>4, <1>5 DEF ServersInv, OneClientPerServer
<1>8. FirstChoice'
  BY <1>1, <1>2, <1>3, <1>4 DEF ServersInv, FirstChoice, OnCall, First, s
<1> QED
  BY <1>6, <1>7, <1>8 DEF ServersInv

(* A call that has its client speaks to it and is over.                    *)
LEMMA DeliverKeeps ==
    ASSUME ServersInv, NEW t \in Workers, Deliver(t)
    PROVE  ServersInv'
<1>1. /\ call' = [call EXCEPT ![t] = Free]
      /\ OnCall(t) /\ call[t].client # NoClient /\ call[t].own = NoClient
      /\ UNCHANGED <<clients, running, spawned, refused>>
      /\ \/ toldOf' = toldOf
         \/ toldOf' = [toldOf EXCEPT ![call[t].file] = call[t].client]
  BY DEF Deliver, ServersInv, CallShape
<1>2. /\ call' = [u \in Workers |-> call'[u]]
      /\ call'[t] = Free
      /\ \A u \in Workers \ {t} : call'[u] = call[u]
      /\ \A u \in Workers : DOMAIN call'[u] = {"job", "file", "left", "own", "client"}
  BY <1>1, FreeFields, CallsChange DEF ServersInv
<1>3. CallShape'
  BY <1>1, <1>2, FreeFields DEF ServersInv, CallShape, OnCall
<1>4. OneClientPerServer'
  BY <1>1, <1>2, FreeFields DEF ServersInv, OneClientPerServer
<1>5. FirstChoice'
  BY <1>1, <1>2, FreeFields DEF ServersInv, CallShape, FirstChoice, OnCall, First
<1> QED
  BY <1>3, <1>4, <1>5 DEF ServersInv

LEMMA ServerDiesKeeps ==
    ASSUME ServersInv, NEW c, ServerDies(c)
    PROVE  ServersInv'
<1>1. /\ DOMAIN running' \subseteq DOMAIN running
      /\ UNCHANGED <<clients, call, toldOf, spawned, refused>>
  BY DEF ServerDies
<1> QED
  BY <1>1 DEF ServersInv, CallShape, OnCall, OneClientPerServer, FirstChoice

LEMMA ServersKept == ServersInv /\ [ServersNext]_serverVars => ServersInv'
<1> SUFFICES ASSUME ServersInv, [ServersNext]_serverVars PROVE ServersInv'
  OBVIOUS
<1>1. ASSUME NEW t \in Workers, NEW f \in Sources, OpenSource(t, f) PROVE ServersInv'
  BY <1>1, BeginKeeps DEF OpenSource
<1>2. ASSUME NEW t \in Workers, NEW f \in Sources, UseSource(t, f) PROVE ServersInv'
  BY <1>2, BeginKeeps DEF UseSource
<1>3. ASSUME NEW t \in Workers, NEW f \in Sources, WarmUp(t, f) PROVE ServersInv'
  BY <1>3, BeginKeeps DEF WarmUp
<1>4. CASE UNCHANGED serverVars
  BY <1>4 DEF serverVars, ServersInv, CallShape, OnCall, OneClientPerServer, FirstChoice
<1> QED
  BY <1>1, <1>2, <1>3, <1>4, FindRunningKeeps, SpawnServerKeeps, SpawnFailsKeeps, RegisterKeeps,
     DeliverKeeps, ServerDiesKeeps DEF ServersNext

(* Threads that race for a server end up with its one client, and while    *)
(* every spawn works what is said of a file goes where its didOpen went    *)
(* (get_or_spawn, client_for_ext).                                         *)
THEOREM ClientsStayShared == ServersSpec => []ClientsAreShared
<1>1. ServersInv => ClientsAreShared
  <2> SUFFICES ASSUME ServersInv, refused = 0, NEW t \in Workers, call[t].client # NoClient,
                      toldOf[call[t].file] # NoClient
               PROVE  call[t].client = toldOf[call[t].file]
    BY DEF ServersInv, ClientsAreShared, OneServerPerDocument
  <2>1. OnCall(t) /\ call[t].file \in Sources
    BY DEF ServersInv, CallShape
  <2> QED
    BY <2>1 DEF ServersInv, FirstChoice
<1> QED
  BY ServersInitially, ServersKept, <1>1, PTL DEF ServersSpec

-----------------------------------------------------------------------------
(* The document in the server's eyes, now and after each message that is   *)
(* on its way: Told(q, s, i) is what message i of q leaves of it, and      *)
(* Told(q, s, 0) what s, the messages handled so far, have left.           *)
Messages == [kind : {"didOpen", "didChange", "didClose", "query"},
             version : Nat, text : Texts, by : Threads]
Told(q, s, i) ==
    IF i = 0 THEN [open |-> s.open, version |-> s.version, text |-> s.text]
    ELSE [open |-> q[i].kind # "didClose", version |-> q[i].version, text |-> q[i].text]

Speaks(q, i) == i = 0 \/ (i \in DOMAIN q /\ q[i].kind # "query")
Silent(q, j, i) == \A k \in DOMAIN q : j < k /\ k < i => q[k].kind = "query"
Precedes(q, j, i) == j < i /\ Speaks(q, j) /\ Silent(q, j, i)
Latest(q, i) == Precedes(q, i, Len(q) + 1)

Permitted(w, m) ==
    /\ m.kind = "didOpen" => ~w.open
    /\ m.kind = "didChange" => w.open /\ w.version < m.version
    /\ m.kind = "didClose" => w.open
Orderly(q, s) ==
    \A j \in 0..Len(q), i \in 1..Len(q) : Precedes(q, j, i) => Permitted(Told(q, s, j), q[i])

(* A message at the end.                                                   *)
LEMMA Appended ==
    ASSUME NEW q \in Seq(Messages), NEW m \in Messages
    PROVE  LET r == Append(q, m)
               n == Len(q) + 1 IN
           /\ r \in Seq(Messages) /\ Len(r) = n /\ r[n] = m /\ n \in Nat
           /\ \A i \in 1..Len(q) : r[i] = q[i]
           /\ \A j \in 0..Len(q), i \in 1..n : Precedes(r, j, i) <=> Precedes(q, j, i)
           /\ \A s : \A j \in 0..Len(q) : Told(r, s, j) = Told(q, s, j)
           /\ \A i \in 1..n : ~Precedes(r, n, i)
           /\ \A j \in 0..Len(q) : Latest(r, j) => Latest(q, j) /\ m.kind = "query"
           /\ Latest(r, n) => m.kind # "query"
           /\ \A s : Told(r, s, n) = [open |-> m.kind # "didClose", version |-> m.version, text |-> m.text]
<1> DEFINE r == Append(q, m)
           n == Len(q) + 1
<1>1. /\ r \in Seq(Messages) /\ Len(r) = n /\ r[n] = m /\ n \in Nat \ {0} /\ Len(q) \in Nat
      /\ DOMAIN q = 1..Len(q) /\ DOMAIN r = 1..n
      /\ \A i \in 1..Len(q) : r[i] = q[i]
  OBVIOUS
<1> HIDE DEF r
<1>2. \A j \in 0..Len(q) : Speaks(r, j) <=> Speaks(q, j)
  BY <1>1 DEF Speaks
<1>3. \A j \in 0..Len(q), i \in 1..n : Silent(r, j, i) <=> Silent(q, j, i)
  BY <1>1 DEF Silent
<1>4. \A j \in 0..Len(q), i \in 1..n : Precedes(r, j, i) <=> Precedes(q, j, i)
  BY <1>2, <1>3 DEF Precedes
<1>5. \A s : \A j \in 0..Len(q) : Told(r, s, j) = Told(q, s, j)
  BY <1>1 DEF Told
<1>6. \A i \in 1..n : ~Precedes(r, n, i)
  BY <1>1 DEF Precedes
<1>7. ASSUME NEW j \in 0..Len(q), Latest(r, j) PROVE Latest(q, j) /\ m.kind = "query"
  <2>1. Speaks(q, j) /\ Silent(r, j, n + 1) /\ j < n
    BY <1>1, <1>2, <1>7 DEF Latest, Precedes
  <2>2. m.kind = "query" /\ Silent(r, j, n)
    BY <1>1, <2>1 DEF Silent
  <2> QED
    BY <1>1, <1>3, <2>1, <2>2 DEF Latest, Precedes
<1>8. Latest(r, n) => m.kind # "query"
  BY <1>1 DEF Latest, Precedes, Speaks
<1>9. \A s : Told(r, s, n) = [open |-> m.kind # "didClose", version |-> m.version, text |-> m.text]
  BY <1>1 DEF Told
<1> QED
  BY <1>1, <1>4, <1>5, <1>6, <1>7, <1>8, <1>9 DEF r

(* Messages are taken out, by the server or by a caller that gave up: what *)
(* is left follows what was there, position by position.                   *)
Follows(q, s, r, z, a) ==
    /\ r \in Seq(Messages)
    /\ \A k \in 1..Len(r) : a[k] \in 1..Len(q) /\ r[k] = q[a[k]]
    /\ \A k, l \in 1..Len(r) : a[k] = a[l] => k = l
    /\ \A j \in 0..Len(r) : Speaks(r, j) => a[j] \in 0..Len(q) /\ Told(r, z, j) = Told(q, s, a[j])
    /\ \A j \in 0..Len(r), i \in 1..Len(r) : Precedes(r, j, i) => Precedes(q, a[j], a[i])
    /\ \A j \in 0..Len(r) : Latest(r, j) => Latest(q, a[j])

LEMMA OrderlyFollows ==
    ASSUME NEW q, NEW s, NEW r, NEW z, NEW a, Follows(q, s, r, z, a), Orderly(q, s)
    PROVE  Orderly(r, z)
<1> SUFFICES ASSUME NEW j \in 0..Len(r), NEW i \in 1..Len(r), Precedes(r, j, i)
             PROVE  Permitted(Told(r, z, j), r[i])
  BY DEF Orderly
<1>1. Speaks(r, j)
  BY DEF Precedes
<1>2. /\ a[j] \in 0..Len(q) /\ Told(r, z, j) = Told(q, s, a[j])
      /\ a[i] \in 1..Len(q) /\ r[i] = q[a[i]] /\ Precedes(q, a[j], a[i])
  BY <1>1 DEF Follows
<1> QED
  BY <1>2 DEF Orderly

(* The server handles a document message.                                  *)
LEMMA HeadHandled ==
    ASSUME NEW q \in Seq(Messages), NEW s, NEW z, q # <<>>, Head(q).kind # "query",
           z.open = (Head(q).kind # "didClose"), z.version = Head(q).version, z.text = Head(q).text
    PROVE  Follows(q, s, Tail(q), z, [k \in Nat |-> k + 1])
<1> DEFINE r == Tail(q)
           a == [k \in Nat |-> k + 1]
<1>1. /\ r \in Seq(Messages) /\ Len(r) = Len(q) - 1 /\ Len(q) \in Nat \ {0} /\ Head(q) = q[1]
      /\ DOMAIN r = 1..(Len(q) - 1) /\ DOMAIN q = 1..Len(q)
      /\ \A k \in 1..Len(r) : r[k] = q[k + 1]
  OBVIOUS
<1>2. \A k \in 0..Len(r) : a[k] = k + 1 /\ a[k] \in 1..Len(q)
  BY <1>1
<1> HIDE DEF r, a
<1>3. \A j \in 0..Len(r) : Speaks(r, j) => Speaks(q, j + 1) /\ Told(r, z, j) = Told(q, s, j + 1)
  <2> SUFFICES ASSUME NEW j \in 0..Len(r), Speaks(r, j)
               PROVE  Speaks(q, j + 1) /\ Told(r, z, j) = Told(q, s, j + 1)
    OBVIOUS
  <2>1. CASE j = 0
    <3>1. 1 \in DOMAIN q /\ j + 1 = 1 /\ q[1].kind # "query"
      BY <1>1, <2>1
    <3>2. Told(r, z, j) = [open |-> q[1].kind # "didClose", version |-> q[1].version, text |-> q[1].text]
      BY <1>1, <2>1 DEF Told
    <3> QED
      BY <3>1, <3>2 DEF Speaks, Told
  <2>2. CASE j # 0
    BY <1>1, <2>2 DEF Speaks, Told
  <2> QED
    BY <2>1, <2>2
<1>4. \A j \in 0..Len(r), i \in 1..(Len(r) + 1) : Silent(r, j, i) => Silent(q, j + 1, i + 1)
  <2> SUFFICES ASSUME NEW j \in 0..Len(r), NEW i \in 1..(Len(r) + 1), Silent(r, j, i),
                      NEW k \in DOMAIN q, j + 1 < k, k < i + 1
               PROVE  q[k].kind = "query"
    BY DEF Silent
  <2>1. /\ k - 1 \in 1..Len(r) /\ k - 1 \in DOMAIN r /\ j < k - 1 /\ k - 1 < i
        /\ (k - 1) + 1 = k
    BY <1>1
  <2>2. r[k - 1].kind = "query"
    BY <2>1 DEF Silent
  <2> QED
    BY <1>1, <2>1, <2>2
<1>5. \A j \in 0..Len(r), i \in 1..(Len(r) + 1) : Precedes(r, j, i) => Precedes(q, j + 1, i + 1)
  BY <1>1, <1>3, <1>4 DEF Precedes
<1>6. \A j \in 0..Len(r) : Latest(r, j) => Latest(q, j + 1)
  BY <1>1, <1>5 DEF Latest
<1>7. \A j \in 0..Len(r), i \in 1..Len(r) : Precedes(r, j, i) => Precedes(q, a[j], a[i])
  BY <1>1, <1>2, <1>5
<1>8. \A k, l \in 1..Len(r) : a[k] = a[l] => k = l
  BY <1>1, <1>2
<1>9. Follows(q, s, r, z, a)
  BY <1>1, <1>2, <1>3, <1>6, <1>7, <1>8 DEF Follows
<1> QED
  BY <1>9 DEF r, a

(* A query is taken out, by the server or by its caller.                   *)
LEMMA QueryTaken ==
    ASSUME NEW q \in Seq(Messages), NEW s, NEW n \in DOMAIN q, q[n].kind = "query"
    PROVE  /\ Follows(q, s, RemoveAt(q, n), s, [k \in Nat |-> IF k < n THEN k ELSE k + 1])
           /\ n = 1 => RemoveAt(q, n) = Tail(q)
           /\ \A k \in 1..Len(RemoveAt(q, n)) : (IF k < n THEN k ELSE k + 1) # n
<1> DEFINE r == RemoveAt(q, n)
           at(k) == IF k < n THEN k ELSE k + 1
           a == [k \in Nat |-> at(k)]
<1>0. Len(q) \in Nat \ {0} /\ DOMAIN q = 1..Len(q) /\ n \in 1..Len(q)
  OBVIOUS
<1>1. /\ r \in Seq(Messages) /\ Len(r) = Len(q) - 1 /\ DOMAIN r = 1..(Len(q) - 1)
      /\ \A k \in 1..Len(r) : r[k] = q[at(k)]
  <2> DEFINE f == SubSeq(q, 1, n - 1)
             b == SubSeq(q, n + 1, Len(q))
  <2>1. f \in Seq(Messages) /\ Len(f) = n - 1 /\ \A k \in 1..(n - 1) : f[k] = q[k]
    BY <1>0
  <2>2. b \in Seq(Messages) /\ Len(b) = Len(q) - n /\ \A k \in 1..(Len(q) - n) : b[k] = q[n + k]
    BY <1>0
  <2> HIDE DEF f, b
  <2>3. r = f \o b
    BY DEF RemoveAt, f, b
  <2>4. r \in Seq(Messages) /\ Len(r) = Len(f) + Len(b)
    BY <2>1, <2>2, <2>3, ConcatProperties
  <2>5. \A k \in 1..Len(r) : r[k] = IF k <= Len(f) THEN f[k] ELSE b[k - Len(f)]
    BY <2>1, <2>2, <2>3, ConcatProperties
  <2>6. ASSUME NEW k \in 1..Len(r) PROVE r[k] = q[at(k)]
    <3>1. CASE k < n
      <4>1. k \in 1..(n - 1) /\ k <= n - 1
        BY <1>0, <2>1, <2>2, <2>4, <3>1
      <4>2. r[k] = f[k] /\ f[k] = q[k]
        BY <2>1, <2>5, <4>1
      <4> QED
        BY <3>1, <4>2
    <3>2. CASE ~(k < n)
      <4>1. k - (n - 1) \in 1..(Len(q) - n) /\ n + (k - (n - 1)) = k + 1 /\ ~(k <= n - 1)
        BY <1>0, <2>1, <2>2, <2>4, <3>2, SMTT(20)
      <4>2. r[k] = b[k - (n - 1)]
        BY <2>1, <2>5, <4>1
      <4>3. r[k] = q[k + 1]
        BY <2>2, <4>1, <4>2
      <4> QED
        BY <3>2, <4>3
    <3> QED
      BY <3>1, <3>2
  <2> QED
    BY <1>0, <2>1, <2>2, <2>4, <2>6
<1>2. \A k \in Nat : a[k] = at(k)
  OBVIOUS
<1>3. n = 1 => r = Tail(q)
  <2> SUFFICES ASSUME n = 1 PROVE r = Tail(q)
    OBVIOUS
  <2>1. Tail(q) \in Seq(Messages) /\ Len(Tail(q)) = Len(q) - 1 /\ \A k \in 1..(Len(q) - 1) : Tail(q)[k] = q[k + 1]
    BY <1>0
  <2>2. \A k \in 1..(Len(q) - 1) : r[k] = Tail(q)[k]
    BY <1>1, <2>1
  <2> HIDE DEF r
  <2> QED
    BY <1>1, <2>1, <2>2
<1> HIDE DEF r, a
<1>4. \A k \in 1..Len(r) : at(k) # n /\ a[k] \in 1..Len(q) /\ r[k] = q[a[k]]
  <2> SUFFICES ASSUME NEW k \in 1..Len(r)
               PROVE  at(k) # n /\ a[k] \in 1..Len(q) /\ r[k] = q[a[k]]
    OBVIOUS
  <2>1. k \in Nat /\ at(k) # n /\ at(k) \in 1..Len(q)
    BY <1>0, <1>1
  <2> QED
    BY <1>1, <1>2, <2>1
<1>5. \A k, l \in 1..Len(r) : a[k] = a[l] => k = l
  <2> SUFFICES ASSUME NEW k \in 1..Len(r), NEW l \in 1..Len(r), a[k] = a[l] PROVE k = l
    OBVIOUS
  <2>1. k \in Nat /\ l \in Nat
    BY <1>0, <1>1
  <2>2. at(k) = at(l)
    BY <1>2, <2>1
  <2> QED
    BY <1>0, <2>1, <2>2
<1>6. \A j \in 0..Len(r) : Speaks(r, j) => a[j] \in 0..Len(q) /\ Speaks(q, a[j]) /\ Told(r, s, j) = Told(q, s, a[j])
  <2> SUFFICES ASSUME NEW j \in 0..Len(r), Speaks(r, j)
               PROVE  a[j] \in 0..Len(q) /\ Speaks(q, a[j]) /\ Told(r, s, j) = Told(q, s, a[j])
    OBVIOUS
  <2>1. CASE j = 0
    BY <1>0, <1>2, <2>1, SMTT(20) DEF Speaks, Told
  <2>2. CASE j # 0
    <3>1. j \in 1..Len(r) /\ j \in Nat
      BY <2>2, <1>1, <1>0
    <3>2. a[j] \in 1..Len(q) /\ r[j] = q[a[j]] /\ a[j] # 0
      BY <1>4, <3>1
    <3>3. a[j] \in 0..Len(q)
      BY <3>2
    <3>4. Speaks(q, a[j])
      BY <2>2, <3>2 DEF Speaks
    <3>5. Told(r, s, j) = Told(q, s, a[j])
      BY <2>2, <3>2 DEF Told
    <3> QED
      BY <3>3, <3>4, <3>5
  <2> QED
    BY <2>1, <2>2
<1>7. \A j \in 0..Len(r), i \in 1..(Len(r) + 1) : Silent(r, j, i) => Silent(q, at(j), at(i))
  <2> SUFFICES ASSUME NEW j \in 0..Len(r), NEW i \in 1..(Len(r) + 1), Silent(r, j, i),
                      NEW k \in DOMAIN q, at(j) < k, k < at(i), k # n
               PROVE  q[k].kind = "query"
    BY DEF Silent
  <2> DEFINE l == IF k < n THEN k ELSE k - 1
  <2>1. l \in DOMAIN r /\ j < l /\ l < i /\ at(l) = k
    BY <1>0, <1>1
  <2>2. r[l] = q[k]
    BY <1>1, <2>1
  <2> QED
    BY <2>1, <2>2 DEF Silent
<1>8. \A j \in 0..Len(r), i \in 1..(Len(r) + 1) : Precedes(r, j, i) => Precedes(q, a[j], a[i])
  <2> SUFFICES ASSUME NEW j \in 0..Len(r), NEW i \in 1..(Len(r) + 1), Precedes(r, j, i)
               PROVE  Precedes(q, a[j], a[i])
    OBVIOUS
  <2>1. Speaks(q, a[j]) /\ Silent(q, at(j), at(i))
    BY <1>6, <1>7 DEF Precedes
  <2>2. j < i /\ j \in Nat /\ i \in Nat
    BY <1>0, <1>1 DEF Precedes
  <2>3. a[j] = at(j) /\ a[i] = at(i)
    BY <1>2, <2>2
  <2>4. at(j) < at(i)
    BY <1>0, <2>2
  <2> QED
    BY <2>1, <2>3, <2>4 DEF Precedes
<1>9. \A j \in 0..Len(r) : Latest(r, j) => Latest(q, a[j])
  <2>1. Len(r) + 1 \in 1..(Len(r) + 1) /\ a[Len(r) + 1] = Len(q) + 1
    BY <1>0, <1>1, <1>2
  <2> QED
    BY <1>8, <2>1 DEF Latest
<1>10. Follows(q, s, r, s, a)
  BY <1>1, <1>4, <1>5, <1>6, <1>8, <1>9 DEF Follows
<1> QED
  BY <1>3, <1>4, <1>10 DEF r, a

-----------------------------------------------------------------------------
(* One call at a time is on the tracked document, and each of its steps    *)
(* knows what the server will have been told by then.                      *)
BusySteps == OpeningSteps \cup ChangingSteps
Steps == {"idle", "waiting"} \cup QuerySteps \cup BusySteps
Jobs == [pc : Steps, version : Nat, text : Texts, raced : BOOLEAN]
Busy(t) == job[t].pc \in BusySteps
NoneBusy == \A t \in Threads : ~Busy(t)
OneBusy == \A t, u \in Threads : Busy(t) /\ Busy(u) => t = u

Current(c) == owed \/ c = disk.text
Matches(w) == (w.open <=> doc.tracked) /\ (doc.tracked => w.version <= doc.version /\ Current(w.text))

Doing(t) ==
    LET p == job[t].pc IN
    /\ p \in {"opening", "opened", "promoting", "changing", "sending", "marking", "untracking"}
          => doc.tracked
    /\ p \in {"unstoring", "closing"} => ~doc.tracked
    /\ p \in {"opened", "sending"} => Current(job[t].text)
    /\ p \in {"changing", "sending"} => job[t].version = doc.version

Agrees(t, w) ==
    LET p == job[t].pc IN
    /\ p \in {"opening", "opened"} => ~w.open
    /\ p = "promoting" => w.open /\ w.version = 0 /\ Current(w.text)
    /\ p \in {"changing", "sending"} => w.open /\ w.version < job[t].version
    /\ p \in {"marking", "forgetting"} => Matches(w)
    /\ p \in {"untracking", "unstoring", "closing"} => w.open

(* What was told last is what the document's entry, or the call under way, *)
(* stands for.                                                             *)
Fits(w) == w.version \in Nat /\ (NoneBusy => Matches(w)) /\ \A t \in Threads : Agrees(t, w)
Together == \A i \in 0..Len(wire) : Latest(wire, i) => Fits(Told(wire, server, i))

(* A query on its way is one that is waited for.                           *)
IsQuery(i) == wire[i].kind = "query"
QueriesOwned ==
    /\ \A i \in 1..Len(wire) : IsQuery(i) => At(wire[i].by, "asked")
    /\ \A i, j \in 1..Len(wire) : IsQuery(i) /\ IsQuery(j) /\ wire[i].by = wire[j].by => i = j

(* While no change is owed or under way, what is answered, or will be, to  *)
(* a query that was not raced is of the file's text.                       *)
Settled == ~owed /\ \A t \in Threads : job[t].pc \notin ChangingSteps
Right(w) == w.open => w.text = disk.text
QueriesRight ==
    \A i \in 1..Len(wire), j \in 0..Len(wire) :
        IsQuery(i) /\ ~job[wire[i].by].raced /\ Precedes(wire, j, i) => Right(Told(wire, server, j))
AnswersRight ==
    /\ \A t \in Threads : At(t, "answered") /\ ~job[t].raced => job[t].text = disk.text
    /\ cache.text # NoText /\ ~cache.raced => cache.text = disk.text
AnswersCurrent == Settled => QueriesRight /\ AnswersRight

DocInv ==
    /\ TypeOK /\ OneBusy /\ (\A t \in Threads : Doing(t))
    /\ ProtocolKept /\ Orderly(wire, server) /\ Together
    /\ QueriesOwned /\ AnswersCurrent

Moved(t) == job' \in [Threads -> Jobs] /\ \A u \in Threads \ {t} : job'[u] = job[u]

LEMMA StepFacts ==
    /\ OpeningSteps = {"opening", "opened", "promoting"}
    /\ ChangingSteps = {"changing", "sending", "marking", "untracking", "unstoring", "closing", "forgetting"}
    /\ QuerySteps = {"asking", "asked", "answered"}
    /\ Idle \in Jobs /\ Idle.pc = "idle"
    /\ NoText \in Texts /\ Texts \subseteq Nat
<1>1. NoText \in Texts /\ Texts \subseteq Nat
  BY BoundsAssumption DEF NoText, Texts
<1> QED
  BY <1>1 DEF OpeningSteps, ChangingSteps, QuerySteps, Idle, Jobs, Steps

LEMMA Types ==
    ASSUME TypeOK
    PROVE  /\ job \in [Threads -> Jobs] /\ wire \in Seq(Messages) /\ Len(wire) \in Nat
           /\ doc.tracked \in BOOLEAN /\ doc.version \in Nat
           /\ disk.text \in Texts /\ server.text \in Texts /\ server.open \in BOOLEAN
           /\ server.version \in Nat
           /\ \A t \in Threads : /\ job[t] \in Jobs /\ job[t].pc \in Steps /\ job[t].version \in Nat
                                 /\ job[t].text \in Texts /\ job[t].raced \in BOOLEAN
           /\ \A i \in 1..Len(wire) : wire[i] \in Messages
<1>1. job \in [Threads -> Jobs] /\ wire \in Seq(Messages)
  BY DEF TypeOK, Jobs, Messages, Steps, BusySteps
<1>2. \A t \in Threads : job[t] \in Jobs
  BY <1>1
<1>3. \A i \in 1..Len(wire) : wire[i] \in Messages
  BY <1>1
<1> QED
  BY <1>1, <1>2, <1>3 DEF TypeOK, Jobs

LEMMA TypeKept ==
    ASSUME job' \in [Threads -> Jobs], wire' \in Seq(Messages),
           disk' \in [text : Texts, last : Texts], owed' \in BOOLEAN,
           doc' \in [tracked : BOOLEAN, version : Nat],
           server' \in [open : BOOLEAN, version : Nat, text : Texts, told : BOOLEAN, misused : BOOLEAN],
           pushed' \in Seq(Texts),
           store' \in [text : Texts, dirty : BOOLEAN, known : BOOLEAN], store'.dirty => store'.known,
           cache' \in [text : Texts, raced : BOOLEAN],
           left' \in [failures : 0..MaxFailures, queries : 0..MaxQueries]
    PROVE  TypeOK'
BY DEF TypeOK, Jobs, Messages, Steps, BusySteps

(* A message is on its way.                                                *)
LEMMA WireGrows ==
    ASSUME TypeOK, NEW m \in Messages, wire' = Append(wire, m), UNCHANGED server
    PROVE  LET n == Len(wire) + 1 IN
           /\ wire' \in Seq(Messages) /\ Len(wire') = n /\ wire'[n] = m
           /\ \A i \in 1..Len(wire) : wire'[i] = wire[i]
           /\ \A j \in 0..Len(wire), i \in 1..n : Precedes(wire', j, i) <=> Precedes(wire, j, i)
           /\ \A i \in 1..n : ~Precedes(wire', n, i)
           /\ \A j \in 0..Len(wire) : Told(wire', server, j) = Told(wire, server, j)
           /\ Told(wire', server, n) = [open |-> m.kind # "didClose", version |-> m.version, text |-> m.text]
           /\ \A j \in 0..Len(wire) : Latest(wire', j) => Latest(wire, j) /\ m.kind = "query"
           /\ Latest(wire', n) => m.kind # "query"
<1> DEFINE n == Len(wire) + 1
<1>0. wire \in Seq(Messages) /\ Len(wire) \in Nat
  BY Types
<1>1. /\ wire' \in Seq(Messages) /\ Len(wire') = n /\ wire'[n] = m
      /\ \A i \in 1..Len(wire) : wire'[i] = wire[i]
  BY <1>0
<1>2. \A j \in 0..Len(wire), i \in 1..n : Precedes(wire', j, i) <=> Precedes(wire, j, i)
  BY <1>0, Appended
<1>3. \A i \in 1..n : ~Precedes(wire', n, i)
  BY <1>0, Appended
<1>4. \A s : \A j \in 0..Len(wire) : Told(Append(wire, m), s, j) = Told(wire, s, j)
  BY <1>0, Appended
<1>5. \A s : Told(Append(wire, m), s, n)
                = [open |-> m.kind # "didClose", version |-> m.version, text |-> m.text]
  BY <1>0, Appended
<1>6. \A j \in 0..Len(wire) : Latest(wire', j) => Latest(wire, j) /\ m.kind = "query"
  BY <1>0, Appended
<1>7. Latest(wire', n) => m.kind # "query"
  BY <1>0, Appended
<1> QED
  BY <1>1, <1>2, <1>3, <1>4, <1>5, <1>6, <1>7

Reads(t, p, c) == job' = [job EXCEPT ![t].pc = p, ![t].text = c]
Numbers(t, p, v) == job' = [job EXCEPT ![t].pc = p, ![t].version = v]

(* How a call's place changes.                                             *)
LEMMA JobMoves ==
    ASSUME TypeOK, NEW t \in Threads
    PROVE  /\ \A p \in Steps : Goto(t, p) =>
                 /\ Moved(t) /\ job'[t].pc = p /\ job'[t].version = job[t].version
                 /\ job'[t].text = job[t].text /\ job'[t].raced = job[t].raced
           /\ Finish(t) => Moved(t) /\ job'[t].pc = "idle"
           /\ \A p \in Steps, c \in Texts : Reads(t, p, c) =>
                 /\ Moved(t) /\ job'[t].pc = p /\ job'[t].version = job[t].version
                 /\ job'[t].text = c /\ job'[t].raced = job[t].raced
           /\ \A p \in Steps, v \in Nat : Numbers(t, p, v) =>
                 Moved(t) /\ job'[t].pc = p /\ job'[t].version = v
<1>0. job \in [Threads -> Jobs] /\ job[t] \in Jobs
  BY Types
<1>1. ASSUME NEW c \in Jobs, job' = [job EXCEPT ![t] = c] PROVE Moved(t) /\ job'[t] = c
  BY <1>0, <1>1 DEF Moved
<1>2. ASSUME NEW p \in Steps, Goto(t, p)
      PROVE  /\ Moved(t) /\ job'[t].pc = p /\ job'[t].version = job[t].version
             /\ job'[t].text = job[t].text /\ job'[t].raced = job[t].raced
  <2> DEFINE c == [job[t] EXCEPT !.pc = p]
  <2>1. c \in Jobs /\ c.pc = p /\ c.version = job[t].version /\ c.text = job[t].text /\ c.raced = job[t].raced
    BY <1>0 DEF Jobs
  <2>2. job' = [job EXCEPT ![t] = c]
    BY <1>2 DEF Goto
  <2> QED
    BY <1>1, <2>1, <2>2
<1>3. Finish(t) => Moved(t) /\ job'[t].pc = "idle"
  BY <1>1, StepFacts DEF Finish
<1>4. ASSUME NEW p \in Steps, NEW d \in Texts, Reads(t, p, d)
      PROVE  /\ Moved(t) /\ job'[t].pc = p /\ job'[t].version = job[t].version
             /\ job'[t].text = d /\ job'[t].raced = job[t].raced
  <2> DEFINE c == [job[t] EXCEPT !.pc = p, !.text = d]
  <2>1. c \in Jobs /\ c.pc = p /\ c.version = job[t].version /\ c.text = d /\ c.raced = job[t].raced
    BY <1>0 DEF Jobs
  <2>2. job' = [job EXCEPT ![t] = c]
    BY <1>4, <1>0 DEF Reads
  <2> QED
    BY <1>1, <2>1, <2>2
<1>5. ASSUME NEW p \in Steps, NEW v \in Nat, Numbers(t, p, v)
      PROVE  Moved(t) /\ job'[t].pc = p /\ job'[t].version = v
  <2> DEFINE c == [job[t] EXCEPT !.pc = p, !.version = v]
  <2>1. c \in Jobs /\ c.pc = p /\ c.version = v
    BY <1>0 DEF Jobs
  <2>2. job' = [job EXCEPT ![t] = c]
    BY <1>5, <1>0 DEF Numbers
  <2> QED
    BY <1>1, <2>1, <2>2
<1> QED
  BY <1>2, <1>3, <1>4, <1>5

-----------------------------------------------------------------------------
(* The document's part of the invariant.                                   *)
DocPart == OneBusy /\ (\A t \in Threads : Doing(t)) /\ ProtocolKept /\ Orderly(wire, server) /\ Together

(* The call on the document takes a step, or one begins.                   *)
Kept(t) == \A u \in Threads \ {t} : job'[u].pc = job[u].pc

LEMMA MovedKept == \A t : Moved(t) => Kept(t)
BY DEF Moved, Kept

LEMMA BusyOnly ==
    ASSUME DocInv, NEW t \in Threads, Busy(t) \/ NoneBusy, Kept(t), Doing(t)'
    PROVE  /\ OneBusy' /\ \A u \in Threads : Doing(u)'
           /\ \A w : w.version \in Nat /\ (IF Busy(t)' THEN Agrees(t, w)' ELSE Matches(w)') => Fits(w)'
<1>1. \A u \in Threads \ {t} : ~Busy(u) /\ job'[u].pc = job[u].pc
  BY DEF DocInv, OneBusy, NoneBusy, Kept
<1>2. \A u \in Threads \ {t} : ~Busy(u)' /\ job'[u].pc \notin BusySteps
  BY <1>1 DEF Busy
<1>3. OneBusy'
  BY <1>2 DEF OneBusy
<1>4. \A u \in Threads : Doing(u)'
  BY <1>2, StepFacts DEF Doing, BusySteps
<1>5. ASSUME NEW w, w.version \in Nat, IF Busy(t)' THEN Agrees(t, w)' ELSE Matches(w)' PROVE Fits(w)'
  <2>1. \A u \in Threads \ {t} : Agrees(u, w)'
    BY <1>2, StepFacts DEF Agrees, BusySteps
  <2>2. Agrees(t, w)'
    BY <1>5, StepFacts DEF Agrees, Busy, BusySteps
  <2>3. NoneBusy' => Matches(w)'
    BY <1>5 DEF NoneBusy
  <2> QED
    BY <1>5, <2>1, <2>2, <2>3 DEF Fits
<1> QED
  BY <1>3, <1>4, <1>5

LEMMA SilentStep ==
    ASSUME DocInv, NEW t \in Threads, Busy(t) \/ NoneBusy, Kept(t), Doing(t)',
           UNCHANGED <<wire, server>>,
           \A w : Fits(w) => IF Busy(t)' THEN Agrees(t, w)' ELSE Matches(w)'
    PROVE  DocPart'
<1>1. OneBusy' /\ (\A u \in Threads : Doing(u)') /\ \A w : Fits(w) => Fits(w)'
  BY BusyOnly DEF Fits
<1>2. Together'
  BY <1>1 DEF DocInv, Together
<1>3. ProtocolKept' /\ Orderly(wire, server)'
  BY DEF DocInv, ProtocolKept
<1> QED
  BY <1>1, <1>2, <1>3 DEF DocPart

LEMMA SpokenStep ==
    ASSUME DocInv, NEW t \in Threads, Busy(t) \/ NoneBusy, Moved(t), Doing(t)',
           NEW m \in Messages, m.kind # "query", wire' = Append(wire, m), UNCHANGED server,
           \A w : Fits(w) => Permitted(w, m),
           LET w == [open |-> m.kind # "didClose", version |-> m.version, text |-> m.text]
           IN IF Busy(t)' THEN Agrees(t, w)' ELSE Matches(w)'
    PROVE  DocPart'
<1> DEFINE n == Len(wire) + 1
           new == [open |-> m.kind # "didClose", version |-> m.version, text |-> m.text]
<1>0. wire \in Seq(Messages) /\ Len(wire) \in Nat
  BY Types DEF DocInv
<1>1. /\ Len(wire') = n /\ wire'[n] = m /\ \A i \in 1..Len(wire) : wire'[i] = wire[i]
      /\ \A j \in 0..Len(wire), i \in 1..n : Precedes(wire', j, i) <=> Precedes(wire, j, i)
      /\ \A j \in 0..Len(wire) : Told(wire', server, j) = Told(wire, server, j)
      /\ \A i \in 1..n : ~Precedes(wire', n, i)
      /\ \A j \in 0..Len(wire) : ~Latest(wire', j)
      /\ Told(wire', server, n) = new
  BY WireGrows DEF DocInv
<1>2. OneBusy' /\ (\A u \in Threads : Doing(u)')
  BY MovedKept, BusyOnly
<1>3. \A w : w = new => Fits(w)'
  <2> HIDE DEF new
  <2>1. \A w : w = new => IF Busy(t)' THEN Agrees(t, w)' ELSE Matches(w)'
    BY DEF new
  <2> QED
    <3>1. \A w : w = new => w.version \in Nat
      BY DEF new, Messages
    <3> QED
      BY <2>1, <3>1, MovedKept, BusyOnly
<1> HIDE DEF new
<1>4. Together'
  <2> SUFFICES ASSUME NEW i \in 0..Len(wire'), Latest(wire', i) PROVE \A w : w = Told(wire', server', i) => Fits(w)'
    BY DEF Together
  <2>1. i = n
    BY <1>0, <1>1
  <2> QED
    BY <1>1, <1>3, <2>1
<1>5. Orderly(wire', server)
  <2> SUFFICES ASSUME NEW j \in 0..n, NEW i \in 1..n, Precedes(wire', j, i)
               PROVE  Permitted(Told(wire', server, j), wire'[i])
    BY <1>1 DEF Orderly
  <2>1. j \in 0..Len(wire)
    BY <1>0, <1>1
  <2>2. CASE i = n
    <3>1. Fits(Told(wire, server, j))
      BY <1>1, <2>1, <2>2 DEF DocInv, Together, Latest
    <3> QED
      BY <1>1, <2>1, <2>2, <3>1
  <2>3. CASE i # n
    <3>1. i \in 1..Len(wire)
      BY <1>0, <2>3
    <3> QED
      BY <1>1, <2>1, <3>1 DEF DocInv, Orderly
  <2> QED
    BY <2>2, <2>3
<1>6. ProtocolKept'
  BY DEF DocInv, ProtocolKept
<1> QED
  BY <1>2, <1>4, <1>5, <1>6 DEF DocPart

(* Steps that leave the document's entry and the calls on it alone.        *)
Aside ==
    /\ UNCHANGED <<doc, disk, owed>>
    /\ job' \in [Threads -> Jobs]
    /\ \A u \in Threads : job'[u] = job[u] \/ (~Busy(u) /\ ~Busy(u)')

LEMMA AsideKeeps ==
    ASSUME DocInv, Aside
    PROVE  /\ OneBusy' /\ \A u \in Threads : Doing(u)'
           /\ \A w : Fits(w) => Fits(w)'
<1>1. \A u \in Threads : (Busy(u)' <=> Busy(u)) /\ (Busy(u) => job'[u] = job[u])
  BY DEF Aside, Busy
<1>2. OneBusy'
  BY <1>1 DEF DocInv, OneBusy
<1>3. \A c : Current(c)' <=> Current(c)
  BY DEF Current, Aside
<1>4. \A u \in Threads : Doing(u)'
  <2> SUFFICES ASSUME NEW u \in Threads PROVE Doing(u)'
    OBVIOUS
  <2>1. CASE Busy(u)
    <3>1. Doing(u) /\ job'[u] = job[u] /\ doc' = doc
      BY <1>1, <2>1 DEF DocInv, Aside
    <3> QED
      BY <3>1 DEF Doing, Current, Aside
  <2>2. CASE ~Busy(u)
    <3>1. job'[u].pc \notin BusySteps
      BY <1>1, <2>2 DEF Busy
    <3> QED
      BY <3>1, StepFacts DEF Doing, BusySteps
  <2> QED
    BY <2>1, <2>2
<1>5. ASSUME NEW w, Fits(w) PROVE Fits(w)'
  <2>1. Matches(w)' <=> Matches(w)
    BY <1>3 DEF Matches, Current, Aside
  <2>2. NoneBusy' <=> NoneBusy
    BY <1>1 DEF NoneBusy
  <2>3. ASSUME NEW u \in Threads PROVE Agrees(u, w)'
    <3>1. CASE Busy(u)
      BY <1>1, <1>3, <1>5, <2>1, <3>1 DEF Fits, Agrees, Current, Aside
    <3>2. CASE ~Busy(u)
      <4>1. job'[u].pc \notin BusySteps
        BY <1>1, <3>2 DEF Busy
      <4> QED
        BY <4>1, StepFacts DEF Agrees, BusySteps
    <3> QED
      BY <3>1, <3>2
  <2> QED
    BY <1>5, <2>1, <2>2, <2>3 DEF Fits
<1> QED
  BY <1>2, <1>4, <1>5

LEMMA FollowedStep ==
    ASSUME DocInv, Aside, NEW a, Follows(wire, server, wire', server', a), ProtocolKept'
    PROVE  DocPart'
<1>1. OneBusy' /\ (\A u \in Threads : Doing(u)') /\ \A w : Fits(w) => Fits(w)'
  BY AsideKeeps
<1>2. Orderly(wire, server)'
  BY OrderlyFollows DEF DocInv
<1>3. Together'
  <2> SUFFICES ASSUME NEW i \in 0..Len(wire'), Latest(wire', i)
               PROVE  \A w : w = Told(wire', server', i) => Fits(w)'
    BY DEF Together
  <2>1. a[i] \in 0..Len(wire) /\ Told(wire', server', i) = Told(wire, server, a[i]) /\ Latest(wire, a[i])
    BY DEF Follows, Latest, Precedes
  <2> QED
    BY <1>1, <2>1 DEF DocInv, Together
<1> QED
  BY <1>1, <1>2, <1>3 DEF DocPart

LEMMA SamePipe ==
    ASSUME TypeOK, UNCHANGED wire,
           server'.open = server.open, server'.version = server.version, server'.text = server.text
    PROVE  Follows(wire, server, wire', server', [k \in Nat |-> k])
<1> DEFINE a == [k \in Nat |-> k]
<1>0. wire \in Seq(Messages) /\ Len(wire) \in Nat
  BY Types
<1>1. \A k \in 0..(Len(wire) + 1) : a[k] = k
  BY <1>0
<1> HIDE DEF a
<1>2. \A j \in 0..Len(wire) : Told(wire, server', j) = Told(wire, server, j)
  BY DEF Told
<1>3. Follows(wire, server, wire, server', a)
  BY <1>0, <1>1, <1>2 DEF Follows
<1> QED
  BY <1>3 DEF a

LEMMA AskedStep ==
    ASSUME DocInv, Aside, NEW m \in Messages, m.kind = "query", wire' = Append(wire, m), UNCHANGED server
    PROVE  DocPart'
<1> DEFINE n == Len(wire) + 1
<1>0. wire \in Seq(Messages) /\ Len(wire) \in Nat
  BY Types DEF DocInv
<1>1. OneBusy' /\ (\A u \in Threads : Doing(u)') /\ \A w : Fits(w) => Fits(w)'
  BY AsideKeeps
<1>2. /\ Len(wire') = n /\ wire'[n] = m /\ \A i \in 1..Len(wire) : wire'[i] = wire[i]
      /\ \A j \in 0..Len(wire), i \in 1..n : Precedes(wire', j, i) <=> Precedes(wire, j, i)
      /\ \A i \in 1..n : ~Precedes(wire', n, i)
      /\ \A j \in 0..Len(wire) : Latest(wire', j) => Latest(wire, j)
      /\ ~Latest(wire', n)
      /\ \A j \in 0..Len(wire) : Told(wire', server, j) = Told(wire, server, j)
  BY WireGrows DEF DocInv
<1>6. Together'
  <2> SUFFICES ASSUME NEW i \in 0..Len(wire'), Latest(wire', i)
               PROVE  \A w : w = Told(wire', server', i) => Fits(w)'
    BY DEF Together
  <2>1. i \in 0..Len(wire)
    BY <1>0, <1>2
  <2> QED
    BY <1>1, <1>2, <2>1 DEF DocInv, Together
<1>7. Orderly(wire', server)
  <2> SUFFICES ASSUME NEW j \in 0..n, NEW i \in 1..n, Precedes(wire', j, i)
               PROVE  Permitted(Told(wire', server, j), wire'[i])
    BY <1>2 DEF Orderly
  <2>1. j \in 0..Len(wire)
    BY <1>0, <1>2
  <2>2. CASE i = n
    BY <1>2, <2>2 DEF Permitted
  <2>3. CASE i # n
    <3>1. i \in 1..Len(wire)
      BY <1>0, <2>3
    <3> QED
      BY <1>2, <2>1, <3>1 DEF DocInv, Orderly
  <2> QED
    BY <2>2, <2>3
<1> QED
  BY <1>1, <1>6, <1>7 DEF DocPart, DocInv, ProtocolKept

(* The file changes; somebody owes an invalidation.                        *)
LEMMA ChangedFile ==
    ASSUME DocInv, owed', UNCHANGED <<doc, job, wire, server, cache>>
    PROVE  DocPart' /\ QueriesOwned' /\ AnswersCurrent'
<1>1. \A c : Current(c)'
  BY DEF Current
<1>2. \A w : Matches(w) => Matches(w)'
  BY <1>1 DEF Matches
<1>4. \A u \in Threads : Doing(u)'
  BY <1>1 DEF DocInv, Doing
<1>5. ASSUME NEW w, Fits(w) PROVE Fits(w)'
  <2>1. \A u \in Threads : Agrees(u, w)'
    BY <1>1, <1>2, <1>5 DEF Fits, Agrees
  <2>2. NoneBusy' <=> NoneBusy
    BY DEF NoneBusy, Busy
  <2> QED
    BY <1>2, <1>5, <2>1, <2>2 DEF Fits
<1>6. Together'
  BY <1>5 DEF DocInv, Together
<1>7. OneBusy' /\ ProtocolKept' /\ Orderly(wire, server)' /\ QueriesOwned'
  BY DEF DocInv, OneBusy, Busy, ProtocolKept, QueriesOwned, IsQuery, At
<1>8. AnswersCurrent'
  BY DEF AnswersCurrent, Settled
<1> QED
  BY <1>4, <1>6, <1>7, <1>8 DEF DocPart

-----------------------------------------------------------------------------
(* The answers' part of the invariant.                                     *)

(* Nothing is asked; messages may be taken out.                            *)
LEMMA AnswersFollow ==
    ASSUME DocInv, UNCHANGED disk, NEW a, Follows(wire, server, wire', server', a),
           \A i \in 1..Len(wire') : IsQuery(i)' => job'[wire'[i].by] = job[wire'[i].by],
           Settled' => Settled
    PROVE  QueriesOwned' /\ (Settled' => QueriesRight')
<1>1. \A i \in 1..Len(wire') : a[i] \in 1..Len(wire) /\ wire'[i] = wire[a[i]]
  BY DEF Follows
<1>2. QueriesOwned'
  <2>1. ASSUME NEW i \in 1..Len(wire'), IsQuery(i)' PROVE At(wire[a[i]].by, "asked")
    BY <1>1, <2>1 DEF DocInv, QueriesOwned, IsQuery
  <2>2. \A i \in 1..Len(wire') : IsQuery(i)' => job'[wire'[i].by].pc = "asked"
    BY <1>1, <2>1 DEF At
  <2>3. ASSUME NEW i \in 1..Len(wire'), NEW j \in 1..Len(wire'),
               IsQuery(i)', IsQuery(j)', wire'[i].by = wire'[j].by
        PROVE  i = j
    <3>1. a[i] = a[j]
      BY <1>1, <2>3 DEF DocInv, QueriesOwned, IsQuery
    <3> QED
      BY <3>1 DEF Follows
  <2> QED
    BY <2>2, <2>3 DEF QueriesOwned, At, IsQuery
<1>3. ASSUME Settled' PROVE QueriesRight'
  <2> SUFFICES ASSUME NEW i \in 1..Len(wire'), NEW j \in 0..Len(wire'), IsQuery(i)',
                      ~job'[wire'[i].by].raced, Precedes(wire', j, i)
               PROVE  \A w : w = Told(wire', server', j) => Right(w)'
    BY DEF QueriesRight, IsQuery
  <2>1. /\ a[j] \in 0..Len(wire) /\ Told(wire', server', j) = Told(wire, server, a[j])
        /\ Precedes(wire, a[j], a[i])
    BY DEF Follows, Precedes
  <2>2. ~job[wire[a[i]].by].raced /\ IsQuery(a[i])
    BY <1>1 DEF IsQuery
  <2>3. Right(Told(wire, server, a[j]))
    BY <1>1, <1>3, <2>1, <2>2 DEF DocInv, AnswersCurrent, QueriesRight
  <2> QED
    BY <2>1, <2>3 DEF Right
<1> QED
  BY <1>2, <1>3

(* A call that neither waits for an answer nor has one takes a step.       *)
LEMMA AnswersStay ==
    ASSUME DocInv, UNCHANGED <<disk, cache, wire, server>>, NEW t \in Threads, Moved(t),
           job[t].pc \notin {"asked", "answered"}, job'[t].pc \notin {"asked", "answered"},
           Settled' => Settled
    PROVE  QueriesOwned' /\ AnswersCurrent'
<1>1. \A i \in 1..Len(wire') : IsQuery(i)' => job'[wire'[i].by] = job[wire'[i].by]
  <2> SUFFICES ASSUME NEW i \in 1..Len(wire), IsQuery(i) PROVE job'[wire[i].by] = job[wire[i].by]
    BY DEF IsQuery
  <2>1. wire[i].by \in Threads /\ job[wire[i].by].pc = "asked"
    BY Types DEF DocInv, QueriesOwned, At, Messages
  <2> QED
    BY <2>1 DEF Moved
<1>2. QueriesOwned' /\ (Settled' => QueriesRight')
  <2>1. Follows(wire, server, wire', server', [k \in Nat |-> k])
    BY SamePipe DEF DocInv
  <2> QED
    BY <1>1, <2>1, AnswersFollow
<1>3. Settled' => AnswersRight'
  <2>1. Settled' => AnswersRight
    BY DEF DocInv, AnswersCurrent
  <2>2. \A u \in Threads : At(u, "answered")' => At(u, "answered") /\ job'[u] = job[u]
    BY DEF At, Moved
  <2> QED
    BY <2>1, <2>2 DEF AnswersRight
<1> QED
  BY <1>2, <1>3 DEF AnswersCurrent

LEMMA AnswersSpoken ==
    ASSUME DocInv, UNCHANGED <<disk, cache, server>>, NEW t \in Threads, Moved(t),
           NEW m \in Messages, m.kind # "query", wire' = Append(wire, m),
           job[t].pc \notin {"asked", "answered"}, job'[t].pc \notin {"asked", "answered"},
           Settled' => Settled
    PROVE  QueriesOwned' /\ AnswersCurrent'
<1> DEFINE n == Len(wire) + 1
<1>0. wire \in Seq(Messages) /\ Len(wire) \in Nat
  BY Types DEF DocInv
<1>1. /\ Len(wire') = n /\ wire'[n] = m /\ \A i \in 1..Len(wire) : wire'[i] = wire[i]
      /\ \A j \in 0..Len(wire), i \in 1..n : Precedes(wire', j, i) <=> Precedes(wire, j, i)
      /\ \A i \in 1..n : ~Precedes(wire', n, i)
      /\ \A j \in 0..Len(wire) : Told(wire', server, j) = Told(wire, server, j)
  BY WireGrows DEF DocInv
<1>3. \A i \in 1..Len(wire') : IsQuery(i)' => i \in 1..Len(wire) /\ IsQuery(i) /\ wire'[i] = wire[i]
  BY <1>0, <1>1 DEF IsQuery
<1>4. \A i \in 1..Len(wire') : IsQuery(i)' => job'[wire'[i].by] = job[wire'[i].by]
  <2> SUFFICES ASSUME NEW i \in 1..Len(wire), IsQuery(i) PROVE job'[wire[i].by] = job[wire[i].by]
    BY <1>3
  <2>1. wire[i].by \in Threads /\ job[wire[i].by].pc = "asked"
    BY Types DEF DocInv, QueriesOwned, At, Messages
  <2> QED
    BY <2>1 DEF Moved
<1>5. QueriesOwned'
  <2>1. \A i \in 1..Len(wire') : IsQuery(i)' => job'[wire'[i].by].pc = "asked"
    BY <1>3, <1>4 DEF DocInv, QueriesOwned, At
  <2>2. \A i, j \in 1..Len(wire') : IsQuery(i)' /\ IsQuery(j)' /\ wire'[i].by = wire'[j].by => i = j
    BY <1>3 DEF DocInv, QueriesOwned
  <2> QED
    BY <2>1, <2>2 DEF QueriesOwned, At, IsQuery
<1>6. Settled' => QueriesRight'
  <2> SUFFICES ASSUME Settled', NEW i \in 1..Len(wire'), NEW j \in 0..Len(wire'), IsQuery(i)',
                      ~job'[wire'[i].by].raced, Precedes(wire', j, i)
               PROVE  \A w : w = Told(wire', server', j) => Right(w)'
    BY DEF QueriesRight, IsQuery
  <2>1. i \in 1..Len(wire) /\ IsQuery(i) /\ ~job[wire[i].by].raced /\ i \in 1..n
    BY <1>0, <1>3, <1>4
  <2>2. j \in 0..Len(wire) /\ Precedes(wire, j, i)
    <3>1. j # n
      BY <1>1, <2>1
    <3>2. j \in 0..Len(wire)
      BY <1>0, <1>1, <3>1
    <3> QED
      BY <1>1, <2>1, <3>2
  <2>3. Right(Told(wire, server, j))
    BY <2>1, <2>2 DEF DocInv, AnswersCurrent, QueriesRight
  <2> QED
    BY <1>1, <2>2, <2>3 DEF Right
<1>7. Settled' => AnswersRight'
  <2>1. Settled' => AnswersRight
    BY DEF DocInv, AnswersCurrent
  <2>2. \A u \in Threads : At(u, "answered")' => At(u, "answered") /\ job'[u] = job[u]
    BY DEF At, Moved
  <2> QED
    BY <2>1, <2>2 DEF AnswersRight
<1> QED
  BY <1>5, <1>6, <1>7 DEF AnswersCurrent

-----------------------------------------------------------------------------
(* The calls, step by step.                                                *)
LEMMA SettledStays ==
    ASSUME NEW t \in Threads, Moved(t), owed \/ ~owed', job[t].pc \notin ChangingSteps, UNCHANGED owed
    PROVE  Settled' => Settled
BY DEF Settled, Moved

LEMMA FailTypes ==
    ASSUME TypeOK
    PROVE  /\ Fail => left' \in [failures : 0..MaxFailures, queries : 0..MaxQueries]
           /\ Spend => left' \in [failures : 0..MaxFailures, queries : 0..MaxQueries]
<1> DEFINE f == left.failures - 1
           k == left.queries - 1
<1>1. left \in [failures : 0..MaxFailures, queries : 0..MaxQueries]
  BY DEF TypeOK
<1>2. left.failures > 0 => f \in 0..MaxFailures
  BY <1>1, BoundsAssumption
<1>3. left.queries > 0 => k \in 0..MaxQueries
  BY <1>1, BoundsAssumption
<1>4. (Fail => left.failures > 0 /\ left' = [left EXCEPT !.failures = f])
      /\ (Spend => left.queries > 0 /\ left' = [left EXCEPT !.queries = k])
  BY DEF Fail, Spend
<1> HIDE DEF f, k
<1> QED
  BY <1>1, <1>2, <1>3, <1>4

LEMMA OpeningKeeps ==
    ASSUME DocInv, ~Overlap, NEW t \in Threads, StartOpening(t) \/ Opening(t)
    PROVE  DocInv'
<1>0. TypeOK
  BY DEF DocInv
<1>1. CASE StartOpening(t)
  <2>1. Moved(t) /\ job'[t].pc = "opening" /\ job[t].pc = "idle"
    BY <1>0, <1>1, JobMoves, StepFacts DEF StartOpening, At, Steps, BusySteps
  <2>2. NoneBusy /\ ~doc.tracked /\ doc' = Tracked(0)
    BY <1>1 DEF StartOpening, MayStart, NoneBusy, Busy, BusySteps
  <2>3. doc'.tracked /\ doc' \in [tracked : BOOLEAN, version : Nat]
    BY <2>2 DEF Tracked
  <2>4. UNCHANGED <<disk, owed, wire, server, pushed, store, cache, left>>
    BY <1>1 DEF StartOpening
  <2>5. TypeOK'
    BY <1>0, <2>1, <2>3, <2>4, Types, TypeKept DEF Moved, TypeOK
  <2>6. Doing(t)' /\ Busy(t)'
    BY <2>1, <2>3, StepFacts DEF Doing, Busy, BusySteps
  <2>7. \A w : Fits(w) => Agrees(t, w)'
    BY <2>1, <2>2 DEF Fits, Matches, Agrees
  <2>8. DocPart'
    BY <2>1, <2>2, <2>4, <2>6, <2>7, MovedKept, SilentStep
  <2>9. QueriesOwned' /\ AnswersCurrent'
    BY <2>1, <2>4, SettledStays, AnswersStay, StepFacts
  <2> QED
    BY <2>5, <2>8, <2>9 DEF DocPart, DocInv
<1>2. CASE Opening(t)
  <2>0. Busy(t) /\ Doing(t) /\ job[t].pc \in OpeningSteps /\ job[t].pc \notin ChangingSteps
    BY <1>2, StepFacts DEF DocInv, Opening, AbandonOpening, ReadForOpen, SendDidOpen, DidOpenFails, Promote,
       At, Busy, BusySteps
  <2>1. ASSUME Moved(t), job'[t].pc \in OpeningSteps \cup {"idle"}, Doing(t)',
               doc' \in [tracked : BOOLEAN, version : Nat],
               left' \in [failures : 0..MaxFailures, queries : 0..MaxQueries],
               UNCHANGED <<disk, owed, wire, server, pushed, store, cache>>,
               \A w : Fits(w) => IF Busy(t)' THEN Agrees(t, w)' ELSE Matches(w)'
        PROVE  DocInv'
    <3>1. TypeOK'
      BY <1>0, <2>1, Types, TypeKept DEF Moved, TypeOK
    <3>2. DocPart'
      BY <2>0, <2>1, MovedKept, SilentStep
    <3>3. QueriesOwned' /\ AnswersCurrent'
      BY <2>0, <2>1, SettledStays, AnswersStay, StepFacts
    <3> QED
      BY <3>1, <3>2, <3>3 DEF DocPart, DocInv
  <2>2. Fail => left' \in [failures : 0..MaxFailures, queries : 0..MaxQueries]
    BY <1>0, FailTypes
  <2>3. ASSUME job[t].pc \in {"opening", "opened"}, doc' = Untracked, Finish(t), UNCHANGED left \/ Fail,
               UNCHANGED <<disk, owed, wire, server, pushed, store, cache>>
        PROVE  DocInv'
    <3>1. Moved(t) /\ job'[t].pc = "idle"
      BY <1>0, <2>3, JobMoves
    <3>2. ~doc'.tracked /\ doc' \in [tracked : BOOLEAN, version : Nat]
      BY <2>3 DEF Untracked
    <3>3. Doing(t)' /\ ~Busy(t)'
      BY <3>1, StepFacts DEF Doing, Busy, BusySteps
    <3>4. \A w : Fits(w) => ~w.open
      BY <2>3 DEF Fits, Agrees
    <3>5. \A w : Fits(w) => Matches(w)'
      BY <3>2, <3>4 DEF Matches
    <3>6. left' \in [failures : 0..MaxFailures, queries : 0..MaxQueries]
      BY <1>0, <2>2, <2>3 DEF TypeOK
    <3> QED
      BY <2>1, <2>3, <3>1, <3>2, <3>3, <3>5, <3>6
  <2>4. CASE AbandonOpening(t)
    BY <2>3, <2>4 DEF AbandonOpening, At
  <2>5. CASE DidOpenFails(t)
    BY <2>3, <2>5 DEF DidOpenFails, At
  <2>6. CASE ReadForOpen(t)
    <3>1. /\ Moved(t) /\ job'[t].pc = "opened" /\ job'[t].text = disk.text /\ job[t].pc = "opening"
      <4>1. disk.text \in Texts /\ "opened" \in Steps
        BY <1>0, Types, StepFacts DEF Steps, BusySteps
      <4>2. Reads(t, "opened", disk.text) /\ job[t].pc = "opening"
        BY <2>6 DEF ReadForOpen, At, Reads
      <4> QED
        BY <1>0, <4>1, <4>2, JobMoves
    <3>2. UNCHANGED <<disk, owed, doc, wire, server, pushed, store, cache, left>>
      BY <2>6 DEF ReadForOpen
    <3>3. Doing(t)' /\ Busy(t)'
      BY <2>0, <3>1, <3>2, StepFacts DEF Doing, Busy, BusySteps, Current
    <3>4. \A w : Fits(w) => Agrees(t, w)'
      BY <3>1 DEF Fits, Agrees
    <3> QED
      BY <1>0, <2>1, <3>1, <3>2, <3>3, <3>4, StepFacts DEF TypeOK
  <2>7. CASE Promote(t)
    <3>1. /\ Moved(t) /\ job'[t].pc = "idle" /\ job[t].pc = "promoting"
      BY <1>0, <2>7, JobMoves DEF Promote, At
    <3>2. doc' = Tracked(0) /\ UNCHANGED <<disk, owed, wire, server, pushed, store, cache, left>>
      BY <2>7 DEF Promote
    <3>3. doc'.tracked /\ doc'.version = 0 /\ doc' \in [tracked : BOOLEAN, version : Nat]
      BY <3>2 DEF Tracked
    <3>4. Doing(t)' /\ ~Busy(t)'
      BY <3>1, StepFacts DEF Doing, Busy, BusySteps
    <3>5. \A w : Fits(w) => w.open /\ w.version = 0 /\ Current(w.text)
      BY <3>1 DEF Fits, Agrees
    <3>6. \A w : Fits(w) => Matches(w)'
      BY <3>2, <3>3, <3>5 DEF Matches, Current
    <3> QED
      BY <1>0, <2>1, <3>1, <3>2, <3>3, <3>4, <3>6 DEF TypeOK
  <2>8. CASE SendDidOpen(t)
    <3> DEFINE m == Message("didOpen", 0, job[t].text, t)
    <3>1. /\ Moved(t) /\ job'[t].pc = "promoting" /\ job[t].pc = "opened"
      BY <1>0, <2>8, JobMoves, StepFacts DEF SendDidOpen, At, Steps, BusySteps
    <3>2. /\ wire' = Append(wire, m)
          /\ UNCHANGED <<disk, owed, doc, server, pushed, store, cache, left>>
      BY <2>8 DEF SendDidOpen, Send
    <3>3. /\ m \in Messages /\ m.kind = "didOpen" /\ m.version = 0 /\ m.text = job[t].text
      BY <1>0, Types DEF Message, Messages
    <3> HIDE DEF m
    <3>4. TypeOK'
      <4>1. wire' \in Seq(Messages)
        BY <1>0, <3>2, <3>3, WireGrows
      <4> QED
        BY <1>0, <3>1, <3>2, <4>1, TypeKept DEF Moved, TypeOK
    <3>5. Doing(t)' /\ Busy(t)' /\ Current(job[t].text)
      BY <2>0, <3>1, <3>2, StepFacts DEF Doing, Busy, BusySteps
    <3>6. \A w : Fits(w) => Permitted(w, m)
      BY <3>1, <3>3 DEF Fits, Agrees, Permitted
    <3>7. \A w : w = [open |-> m.kind # "didClose", version |-> m.version, text |-> m.text] => Agrees(t, w)'
      <4>1. \A w : w = [open |-> m.kind # "didClose", version |-> m.version, text |-> m.text]
                => w.open /\ w.version = 0 /\ w.text = job[t].text
        <5> SUFFICES ASSUME NEW w,
                            w = [open |-> m.kind # "didClose", version |-> m.version, text |-> m.text]
                     PROVE  w.open /\ w.version = 0 /\ w.text = job[t].text
          OBVIOUS
        <5>1. w.open = (m.kind # "didClose") /\ w.version = m.version /\ w.text = m.text
          OBVIOUS
        <5> QED
          BY <3>3, <5>1
      <4>2. \A w : w.open /\ w.version = 0 /\ w.text = job[t].text => Agrees(t, w)'
        BY <3>1, <3>2, <3>5 DEF Agrees, Current
      <4> QED
        BY <4>1, <4>2
    <3>8. DocPart'
      BY <2>0, <3>1, <3>2, <3>3, <3>5, <3>6, <3>7, SpokenStep
    <3>9. QueriesOwned' /\ AnswersCurrent'
      BY <2>0, <3>1, <3>2, <3>3, SettledStays, AnswersSpoken, StepFacts
    <3> QED
      BY <3>4, <3>8, <3>9 DEF DocPart, DocInv
  <2> QED
    BY <1>2, <2>4, <2>5, <2>6, <2>7, <2>8 DEF Opening
<1> QED
  BY <1>1, <1>2

(* A step of a call that sends nothing.                                    *)
LEMMA SilentKeeps ==
    ASSUME DocInv, NEW t \in Threads, Busy(t) \/ NoneBusy, Moved(t), Doing(t)',
           job[t].pc \notin {"asked", "answered"}, job'[t].pc \notin {"asked", "answered"},
           owed' \in BOOLEAN, doc' \in [tracked : BOOLEAN, version : Nat],
           store' \in [text : Texts, dirty : BOOLEAN, known : BOOLEAN], store'.dirty => store'.known,
           left' \in [failures : 0..MaxFailures, queries : 0..MaxQueries],
           UNCHANGED <<disk, wire, server, pushed, cache>>, Settled' => Settled,
           \A w : Fits(w) => IF Busy(t)' THEN Agrees(t, w)' ELSE Matches(w)'
    PROVE  DocInv'
<1>1. TypeOK'
  <2>1. TypeOK
    BY DEF DocInv
  <2> QED
    BY <2>1, Types, TypeKept DEF Moved, TypeOK
<1>2. DocPart'
  BY MovedKept, SilentStep
<1>3. QueriesOwned' /\ AnswersCurrent'
  BY AnswersStay
<1> QED
  BY <1>1, <1>2, <1>3 DEF DocPart, DocInv

(* A step that sends a message about the document.                         *)
LEMMA SpokenKeeps ==
    ASSUME DocInv, NEW t \in Threads, Busy(t), Moved(t), Doing(t)', Busy(t)',
           NEW m \in Messages, m.kind # "query", wire' = Append(wire, m), Settled' => Settled,
           UNCHANGED <<disk, owed, doc, server, pushed, store, cache, left>>,
           \A w : Fits(w) => Permitted(w, m),
           \A w : (w.open <=> m.kind # "didClose") /\ w.version = m.version /\ w.text = m.text => Agrees(t, w)'
    PROVE  DocInv'
<1>0. TypeOK /\ job[t].pc \notin {"asked", "answered"} /\ job'[t].pc \notin {"asked", "answered"}
  BY StepFacts DEF DocInv, Busy, BusySteps
<1>1. TypeOK'
  <2>1. wire' \in Seq(Messages)
    BY <1>0, WireGrows
  <2> QED
    BY <1>0, <2>1, TypeKept DEF Moved, TypeOK
<1>2. DocPart'
  <2>1. ASSUME NEW w, w = [open |-> m.kind # "didClose", version |-> m.version, text |-> m.text]
        PROVE  Agrees(t, w)'
    <3>1. w.open = (m.kind # "didClose") /\ w.version = m.version /\ w.text = m.text
      BY <2>1
    <3> QED
      BY <3>1
  <2> QED
    BY <2>1, SpokenStep
<1>3. QueriesOwned' /\ AnswersCurrent'
  BY <1>0, AnswersSpoken
<1> QED
  BY <1>1, <1>2, <1>3 DEF DocPart, DocInv

LEMMA StartInvalidationKeeps ==
    ASSUME DocInv, ~Overlap, NEW t \in Threads, StartInvalidation(t)
    PROVE  DocInv'
<1>0. TypeOK /\ NoneBusy /\ job[t].pc = "idle"
  BY DEF DocInv, StartInvalidation, MayStart, NoneBusy, Busy, BusySteps, At
<1>1. /\ owed' = FALSE
      /\ UNCHANGED <<disk, wire, server, pushed, store, cache, left>>
  BY DEF StartInvalidation
<1>2. \A w : Fits(w) => Matches(w) /\ w.version \in Nat
  BY <1>0 DEF Fits
<1>3. CASE doc.tracked
  <2> DEFINE v == doc.version + 1
  <2>1. v \in Nat /\ \A n \in Nat : n <= doc.version => n < v
    BY <1>0, Types
  <2>2. doc' = Tracked(v) /\ Numbers(t, "changing", v)
    BY <1>3 DEF StartInvalidation, Numbers
  <2> HIDE DEF v
  <2>3. Moved(t) /\ job'[t].pc = "changing" /\ job'[t].version = v
    BY <1>0, <2>1, <2>2, JobMoves, StepFacts DEF Steps, BusySteps
  <2>4. doc'.tracked /\ doc'.version = v /\ doc' \in [tracked : BOOLEAN, version : Nat]
    BY <2>1, <2>2 DEF Tracked
  <2>5. Doing(t)' /\ Busy(t)' /\ ~Settled'
    BY <2>3, <2>4, StepFacts DEF Doing, Busy, BusySteps, Settled
  <2>6. \A w : Fits(w) => Agrees(t, w)'
    <3>1. \A w : Fits(w) => w.open /\ w.version < v
      BY <1>2, <1>3, <2>1 DEF Matches
    <3> QED
      BY <2>3, <3>1 DEF Agrees
  <2> QED
    BY <1>0, <1>1, <2>3, <2>4, <2>5, <2>6, SilentKeeps DEF TypeOK
<1>4. CASE ~doc.tracked
  <2>1. Goto(t, "forgetting") /\ UNCHANGED doc
    BY <1>4 DEF StartInvalidation
  <2>2. Moved(t) /\ job'[t].pc = "forgetting"
    BY <1>0, <2>1, JobMoves, StepFacts DEF Steps, BusySteps
  <2>3. Doing(t)' /\ Busy(t)' /\ ~Settled'
    BY <2>2, StepFacts DEF Doing, Busy, BusySteps, Settled
  <2>4. \A w : Fits(w) => Agrees(t, w)'
    <3>1. \A w : Fits(w) => ~w.open
      BY <1>2, <1>4 DEF Matches
    <3>2. \A w : ~w.open => Matches(w)'
      BY <1>4, <2>1 DEF Matches
    <3> QED
      BY <2>2, <3>1, <3>2 DEF Agrees
  <2> QED
    BY <1>0, <1>1, <2>1, <2>2, <2>3, <2>4, SilentKeeps DEF TypeOK
<1> QED
  BY <1>3, <1>4

LEMMA ChangingKeeps ==
    ASSUME DocInv, NEW t \in Threads,
           ReadForChange(t) \/ SendDidChange(t) \/ DidChangeFails(t) \/ MarkDirty(t)
             \/ Untrack(t) \/ DropDiagnostics(t) \/ SendDidClose(t)
    PROVE  DocInv'
<1>0. TypeOK /\ Busy(t) /\ Doing(t) /\ job[t].pc \in ChangingSteps
  BY StepFacts DEF DocInv, ReadForChange, SendDidChange, DidChangeFails, MarkDirty, Untrack,
     DropDiagnostics, SendDidClose, At, Busy, BusySteps
<1>1. /\ doc \in [tracked : BOOLEAN, version : Nat] /\ doc.version \in Nat
      /\ store \in [text : Texts, dirty : BOOLEAN, known : BOOLEAN] /\ (store.dirty => store.known)
      /\ left \in [failures : 0..MaxFailures, queries : 0..MaxQueries] /\ owed \in BOOLEAN
      /\ \A p \in ChangingSteps : p \in Steps
  BY <1>0 DEF TypeOK, Steps, BusySteps
<1>2. ASSUME Moved(t), job'[t].pc \in ChangingSteps, Doing(t)',
             doc' \in [tracked : BOOLEAN, version : Nat],
             store' \in [text : Texts, dirty : BOOLEAN, known : BOOLEAN], store'.dirty => store'.known,
             left' \in [failures : 0..MaxFailures, queries : 0..MaxQueries],
             UNCHANGED <<disk, owed, wire, server, pushed, cache>>,
             \A w : Fits(w) => Agrees(t, w)'
      PROVE  DocInv'
  <2>1. Busy(t)' /\ job[t].pc \notin {"asked", "answered"} /\ job'[t].pc \notin {"asked", "answered"}
    BY <1>0, <1>2, StepFacts DEF Busy, BusySteps
  <2>2. ~Settled' /\ owed' \in BOOLEAN
    BY <1>1, <1>2 DEF Settled
  <2> QED
    BY <1>0, <1>2, <2>1, <2>2, SilentKeeps
<1>3. ASSUME ReadForChange(t) PROVE DocInv'
  <2> DEFINE p == IF disk.text = NoText THEN "untracking" ELSE "sending"
  <2>1. Reads(t, p, disk.text) /\ job[t].pc = "changing"
    BY <1>3 DEF ReadForChange, Reads, At
  <2>2. p \in ChangingSteps /\ p \in {"untracking", "sending"}
    BY StepFacts
  <2> HIDE DEF p
  <2>3. disk.text \in Texts /\ p \in Steps
    BY <1>0, <1>1, <2>2, Types
  <2>4. /\ Moved(t) /\ job'[t].pc = p /\ job'[t].text = disk.text /\ job'[t].version = job[t].version
        /\ UNCHANGED <<disk, owed, doc, wire, server, pushed, store, cache, left>>
    <3>1. Moved(t) /\ job'[t].pc = p /\ job'[t].text = disk.text /\ job'[t].version = job[t].version
      BY <1>0, <2>1, <2>3, JobMoves
    <3> QED
      BY <1>3, <3>1 DEF ReadForChange
  <2>5. Doing(t)'
    BY <1>0, <2>1, <2>2, <2>4 DEF Doing, Current
  <2>6. \A w : Fits(w) => Agrees(t, w)'
    BY <2>1, <2>2, <2>4 DEF Fits, Agrees
  <2> QED
    BY <1>1, <1>2, <2>2, <2>4, <2>5, <2>6
<1>4. ASSUME DidChangeFails(t) PROVE DocInv'
  <2>1. /\ Moved(t) /\ job'[t].pc = "untracking" /\ job[t].pc = "sending"
        /\ UNCHANGED <<disk, owed, doc, wire, server, pushed, store, cache>>
    BY <1>0, <1>1, <1>4, StepFacts, JobMoves DEF DidChangeFails, At
  <2>2. Doing(t)' /\ \A w : Fits(w) => Agrees(t, w)'
    BY <1>0, <2>1 DEF Doing, Fits, Agrees
  <2>3. left' \in [failures : 0..MaxFailures, queries : 0..MaxQueries]
    BY <1>0, <1>4, FailTypes DEF DidChangeFails
  <2> QED
    BY <1>1, <1>2, <2>1, <2>2, <2>3, StepFacts
<1>5. ASSUME MarkDirty(t) PROVE DocInv'
  <2>1. /\ Moved(t) /\ job'[t].pc = "forgetting" /\ job[t].pc = "marking"
        /\ UNCHANGED <<disk, owed, doc, wire, server, pushed, cache, left>>
    BY <1>0, <1>1, <1>5, StepFacts, JobMoves DEF MarkDirty, At
  <2>2. Doing(t)' /\ \A w : Fits(w) => Agrees(t, w)'
    BY <1>0, <2>1 DEF Doing, Fits, Agrees, Matches, Current
  <2>3. store' \in [text : Texts, dirty : BOOLEAN, known : BOOLEAN] /\ store'.known
    BY <1>1, <1>5 DEF MarkDirty
  <2> QED
    BY <1>1, <1>2, <2>1, <2>2, <2>3, StepFacts
<1>6. ASSUME Untrack(t) PROVE DocInv'
  <2>1. job[t].pc = "untracking" /\ doc.tracked
    BY <1>0, <1>6 DEF Untrack, At, Doing
  <2>2. /\ Moved(t) /\ job'[t].pc = "unstoring" /\ doc' = Untracked
        /\ UNCHANGED <<disk, owed, wire, server, pushed, store, cache, left>>
    BY <1>0, <1>1, <1>6, <2>1, StepFacts, JobMoves DEF Untrack
  <2>3. ~doc'.tracked /\ doc' \in [tracked : BOOLEAN, version : Nat]
    BY <2>2 DEF Untracked
  <2>4. Doing(t)' /\ \A w : Fits(w) => Agrees(t, w)'
    BY <2>1, <2>2, <2>3 DEF Doing, Fits, Agrees
  <2> QED
    BY <1>1, <1>2, <2>2, <2>3, <2>4, StepFacts
<1>7. ASSUME DropDiagnostics(t) PROVE DocInv'
  <2>1. /\ Moved(t) /\ job'[t].pc = "closing" /\ job[t].pc = "unstoring" /\ store' = NoDiagnostics
        /\ UNCHANGED <<disk, owed, doc, wire, server, pushed, cache, left>>
    BY <1>0, <1>1, <1>7, StepFacts, JobMoves DEF DropDiagnostics, At
  <2>2. Doing(t)' /\ \A w : Fits(w) => Agrees(t, w)'
    BY <1>0, <2>1 DEF Doing, Fits, Agrees
  <2>3. store' \in [text : Texts, dirty : BOOLEAN, known : BOOLEAN] /\ ~store'.dirty
    BY <2>1, StepFacts DEF NoDiagnostics
  <2> QED
    BY <1>1, <1>2, <2>1, <2>2, <2>3, StepFacts
<1>8. ASSUME Moved(t), job'[t].pc \in ChangingSteps, Doing(t)',
             NEW m \in Messages, m.kind # "query", wire' = Append(wire, m),
             UNCHANGED <<disk, owed, doc, server, pushed, store, cache, left>>,
             \A w : Fits(w) => Permitted(w, m),
             \A w : (w.open <=> m.kind # "didClose") /\ w.version = m.version /\ w.text = m.text
                       => Agrees(t, w)'
      PROVE  DocInv'
  <2>1. Busy(t)' /\ ~Settled'
    BY <1>8 DEF Busy, BusySteps, Settled
  <2> QED
    BY <1>0, <1>8, <2>1, SpokenKeeps
<1>9. ASSUME SendDidChange(t) PROVE DocInv'
  <2> DEFINE m == Message("didChange", job[t].version, job[t].text, t)
  <2>1. /\ Moved(t) /\ job'[t].pc = "marking" /\ job[t].pc = "sending" /\ wire' = Append(wire, m)
        /\ UNCHANGED <<disk, owed, doc, server, pushed, store, cache, left>>
    BY <1>0, <1>1, <1>9, StepFacts, JobMoves DEF SendDidChange, At, Send
  <2>2. m \in Messages /\ m.kind = "didChange" /\ m.version = job[t].version /\ m.text = job[t].text
    BY <1>0, Types DEF Message, Messages
  <2> HIDE DEF m
  <2>3. /\ doc.tracked /\ job[t].version = doc.version /\ Current(job[t].text)
    BY <1>0, <2>1 DEF Doing
  <2>4. Doing(t)'
    BY <2>1, <2>3 DEF Doing
  <2>5. \A w : Fits(w) => Permitted(w, m)
    BY <2>1, <2>2 DEF Fits, Agrees, Permitted
  <2>6. \A w : w.open /\ w.version = job[t].version /\ w.text = job[t].text => Agrees(t, w)'
    BY <1>1, <2>1, <2>3 DEF Agrees, Matches, Current
  <2> QED
    BY <1>8, <2>1, <2>2, <2>4, <2>5, <2>6, StepFacts
<1>10. ASSUME SendDidClose(t) PROVE DocInv'
  <2> DEFINE m == Message("didClose", 0, NoText, t)
  <2>1. /\ Moved(t) /\ job'[t].pc = "forgetting" /\ job[t].pc = "closing" /\ wire' = Append(wire, m)
        /\ UNCHANGED <<disk, owed, doc, server, pushed, store, cache, left>>
    BY <1>0, <1>1, <1>10, StepFacts, JobMoves DEF SendDidClose, At, Send
  <2>2. m \in Messages /\ m.kind = "didClose"
    BY StepFacts DEF Message, Messages
  <2> HIDE DEF m
  <2>3. ~doc.tracked
    BY <1>0, <2>1 DEF Doing
  <2>4. Doing(t)'
    BY <2>1 DEF Doing
  <2>5. \A w : Fits(w) => Permitted(w, m)
    BY <2>1, <2>2 DEF Fits, Agrees, Permitted
  <2>6. \A w : ~w.open => Agrees(t, w)'
    BY <2>1, <2>3 DEF Agrees, Matches
  <2> QED
    BY <1>8, <2>1, <2>2, <2>4, <2>5, <2>6, StepFacts
<1> QED
  BY <1>3, <1>4, <1>5, <1>6, <1>7, <1>9, <1>10

(* The file's results are forgotten: what is asked from here on is raced.  *)
LEMMA ForgetResultsKeeps ==
    ASSUME DocInv, NEW t \in Threads, ForgetResults(t)
    PROVE  DocInv'
<1> DEFINE late(u) == job[u].raced \/ job[u].pc \in QuerySteps
<1>0. TypeOK /\ job[t].pc = "forgetting" /\ Busy(t)
  BY StepFacts DEF DocInv, ForgetResults, At, Busy, BusySteps
<1>1. /\ cache' = NoResult /\ UNCHANGED <<disk, owed, doc, wire, server, pushed, store, left>>
      /\ job' = [u \in Threads |-> IF u = t THEN Idle ELSE [job[u] EXCEPT !.raced = late(u)]]
  BY DEF ForgetResults
<1>2. \A u \in Threads : late(u) \in BOOLEAN /\ job[u] \in Jobs /\ (job[u].pc \in QuerySteps => late(u))
  BY <1>0, Types
<1> HIDE DEF late
<1>3. \A u \in Threads : LET c == [job[u] EXCEPT !.raced = late(u)] IN
          c \in Jobs /\ c.pc = job[u].pc /\ c.raced = late(u)
  BY <1>2 DEF Jobs
<1>4. \A u \in Threads \ {t} : job'[u].pc = job[u].pc /\ job'[u].raced = late(u)
  BY <1>1, <1>3
<1>5. job' \in [Threads -> Jobs] /\ job'[t].pc = "idle"
  BY <1>1, <1>3, StepFacts
<1>6. TypeOK'
  <2>1. cache' \in [text : Texts, raced : BOOLEAN]
    BY <1>1, StepFacts DEF NoResult
  <2> QED
    BY <1>0, <1>1, <1>5, <2>1, Types, TypeKept DEF TypeOK
<1>7. DocPart'
  <2>1. Kept(t) /\ Doing(t)' /\ ~Busy(t)'
    BY <1>4, <1>5, StepFacts DEF Kept, Doing, Busy, BusySteps
  <2>2. \A w : Fits(w) => Matches(w)'
    BY <1>0, <1>1 DEF Fits, Agrees, Matches, Current
  <2> QED
    BY <1>0, <1>1, <2>1, <2>2, SilentStep
<1>8. \A i \in 1..Len(wire) : IsQuery(i) =>
          wire[i].by \in Threads \ {t} /\ job'[wire[i].by].pc = "asked" /\ job'[wire[i].by].raced
  <2> SUFFICES ASSUME NEW i \in 1..Len(wire), IsQuery(i)
               PROVE  wire[i].by \in Threads \ {t} /\ job'[wire[i].by].pc = "asked" /\ job'[wire[i].by].raced
    OBVIOUS
  <2>1. wire[i].by \in Threads /\ job[wire[i].by].pc = "asked"
    BY Types DEF DocInv, QueriesOwned, At, Messages
  <2>2. wire[i].by # t
    BY <1>0, <2>1
  <2> QED
    BY <1>2, <1>4, <2>1, <2>2, StepFacts
<1>9. QueriesOwned'
  BY <1>1, <1>8 DEF DocInv, QueriesOwned, IsQuery, At
<1>10. AnswersCurrent'
  <2>1. QueriesRight'
    BY <1>1, <1>8 DEF QueriesRight, IsQuery
  <2>2. \A u \in Threads : job'[u].pc = "answered" => job'[u].raced
    BY <1>2, <1>4, <1>5, StepFacts
  <2>3. cache'.text = NoText
    BY <1>1 DEF NoResult
  <2> QED
    BY <2>1, <2>2, <2>3 DEF AnswersCurrent, AnswersRight, At
<1> QED
  BY <1>6, <1>7, <1>9, <1>10 DEF DocPart, DocInv

-----------------------------------------------------------------------------
(* Queries, reads of the diagnostics, and what happens by itself.          *)

(* A call beside the document takes a step that touches neither the pipe   *)
(* nor a result.                                                           *)
LEMMA BesideKeeps ==
    ASSUME DocInv, NEW t \in Threads, Moved(t), ~Busy(t), ~Busy(t)',
           job[t].pc \notin {"asked", "answered"}, job'[t].pc \notin {"asked", "answered"},
           left' \in [failures : 0..MaxFailures, queries : 0..MaxQueries],
           UNCHANGED <<disk, owed, doc, wire, server, pushed, store, cache>>
    PROVE  DocInv'
<1>0. TypeOK
  BY DEF DocInv
<1>1. TypeOK'
  BY <1>0, Types, TypeKept DEF Moved, TypeOK
<1>2. Aside
  BY DEF Aside, Moved
<1>3. Follows(wire, server, wire', server', [k \in Nat |-> k]) /\ ProtocolKept'
  BY <1>0, SamePipe DEF DocInv, ProtocolKept
<1>4. DocPart'
  BY <1>2, <1>3, FollowedStep
<1>5. QueriesOwned' /\ AnswersCurrent'
  <2>1. Settled' => Settled
    BY StepFacts DEF Settled, Moved, Busy, BusySteps
  <2> QED
    BY <2>1, AnswersStay
<1> QED
  BY <1>1, <1>4, <1>5 DEF DocPart, DocInv

LEMMA ReadingKeeps ==
    ASSUME DocInv, NEW t \in Threads, MissCache(t) \/ StartReading(t) \/ Reading(t)
    PROVE  DocInv'
<1>0. TypeOK /\ left \in [failures : 0..MaxFailures, queries : 0..MaxQueries]
      /\ {"asking", "waiting"} \subseteq Steps
  BY StepFacts DEF DocInv, TypeOK, Steps
<1>1. job[t].pc \in {"idle", "waiting"} /\ UNCHANGED <<disk, owed, doc, wire, server, pushed, store, cache>>
  BY DEF MissCache, StartReading, Reading, ReadEnds, ReadTimesOut, At
<1>2. left' \in [failures : 0..MaxFailures, queries : 0..MaxQueries]
  BY <1>0, FailTypes DEF MissCache, StartReading, Reading, ReadEnds, ReadTimesOut
<1>3. Moved(t) /\ job'[t].pc \in {"asking", "waiting", "idle"}
  BY <1>0, JobMoves DEF MissCache, StartReading, Reading, ReadEnds, ReadTimesOut
<1>4. ~Busy(t) /\ ~Busy(t)'
  BY <1>1, <1>3, StepFacts DEF Busy, BusySteps
<1> QED
  BY <1>1, <1>2, <1>3, <1>4, BesideKeeps

LEMMA SendQueryKeeps ==
    ASSUME DocInv, NEW t \in Threads, SendQuery(t)
    PROVE  DocInv'
<1> DEFINE m == Message("query", 0, NoText, t)
           n == Len(wire) + 1
<1>0. TypeOK /\ Len(wire) \in Nat
  BY Types DEF DocInv
<1>1. job[t].pc = "asking" /\ wire' = Append(wire, m) /\ Goto(t, "asked")
      /\ UNCHANGED <<disk, owed, doc, server, pushed, store, cache, left>>
  BY DEF SendQuery, At, Send
<1>2. m \in Messages /\ m.kind = "query" /\ m.by = t
  BY StepFacts DEF Message, Messages
<1> HIDE DEF m
<1>3. Moved(t) /\ job'[t].pc = "asked" /\ job'[t].raced = job[t].raced
  BY <1>0, <1>1, JobMoves, StepFacts DEF Steps
<1>4. /\ wire' \in Seq(Messages) /\ Len(wire') = n /\ wire'[n] = m
      /\ \A i \in 1..Len(wire) : wire'[i] = wire[i]
      /\ \A j \in 0..Len(wire), i \in 1..n : Precedes(wire', j, i) <=> Precedes(wire, j, i)
      /\ \A i \in 1..n : ~Precedes(wire', n, i)
      /\ \A j \in 0..Len(wire) : Told(wire', server, j) = Told(wire, server, j)
  BY <1>0, <1>1, <1>2, WireGrows
<1>5. TypeOK'
  BY <1>0, <1>1, <1>3, <1>4, TypeKept DEF Moved, TypeOK
<1>6. ~Busy(t) /\ ~Busy(t)' /\ Aside
  BY <1>1, <1>3, StepFacts DEF Busy, BusySteps, Aside, Moved
<1>7. DocPart'
  BY <1>1, <1>2, <1>6, AskedStep
<1>8. \A i \in 1..n : IsQuery(i)' =>
          i = n \/ (i \in 1..Len(wire) /\ IsQuery(i) /\ wire'[i] = wire[i] /\ wire[i].by # t
                      /\ job'[wire[i].by] = job[wire[i].by] /\ job[wire[i].by].pc = "asked")
  <2> SUFFICES ASSUME NEW i \in 1..n, IsQuery(i)', i # n
               PROVE  i \in 1..Len(wire) /\ IsQuery(i) /\ wire'[i] = wire[i] /\ wire[i].by # t
                      /\ job'[wire[i].by] = job[wire[i].by] /\ job[wire[i].by].pc = "asked"
    OBVIOUS
  <2>1. i \in 1..Len(wire) /\ wire'[i] = wire[i] /\ IsQuery(i)
    BY <1>0, <1>4 DEF IsQuery
  <2>2. wire[i].by \in Threads /\ job[wire[i].by].pc = "asked"
    BY <2>1, Types DEF DocInv, QueriesOwned, At, Messages
  <2>3. wire[i].by # t
    BY <1>1, <2>2
  <2> QED
    BY <1>3, <2>1, <2>2, <2>3 DEF Moved
<1>9. QueriesOwned'
  <2>1. \A i \in 1..n : IsQuery(i)' => job'[wire'[i].by].pc = "asked"
    BY <1>2, <1>3, <1>4, <1>8
  <2>2. \A i, j \in 1..n : IsQuery(i)' /\ IsQuery(j)' /\ wire'[i].by = wire'[j].by => i = j
    <3> SUFFICES ASSUME NEW i \in 1..n, NEW j \in 1..n, IsQuery(i)', IsQuery(j)', wire'[i].by = wire'[j].by
                 PROVE  i = j
      OBVIOUS
    <3>1. CASE i = n \/ j = n
      BY <1>2, <1>4, <1>8, <3>1
    <3>2. CASE i # n /\ j # n
      BY <1>8, <3>2 DEF DocInv, QueriesOwned
    <3> QED
      BY <3>1, <3>2
  <2> QED
    BY <1>4, <2>1, <2>2 DEF QueriesOwned, At, IsQuery
<1>10. Settled' => Settled
  BY <1>1, <1>3, <1>6, StepFacts DEF Settled, Moved, Busy, BusySteps
<1>11. Settled' => QueriesRight'
  <2> SUFFICES ASSUME Settled', NEW i \in 1..n, NEW j \in 0..n, IsQuery(i)',
                      ~job'[wire'[i].by].raced, Precedes(wire', j, i)
               PROVE  \A w : w = Told(wire', server', j) => Right(w)'
    BY <1>4 DEF QueriesRight, IsQuery
  <2>1. j \in 0..Len(wire) /\ Precedes(wire, j, i)
    <3>1. j # n
      BY <1>4
    <3>2. j \in 0..Len(wire)
      BY <1>0, <3>1
    <3> QED
      BY <1>4, <3>2
  <2>2. Right(Told(wire, server, j))
    <3>1. CASE i = n
      <4>1. Fits(Told(wire, server, j))
        BY <2>1, <3>1 DEF DocInv, Together, Latest
      <4>2. ~owed /\ \A u \in Threads : job[u].pc \notin ChangingSteps
        BY <1>10 DEF Settled
      <4>3. CASE NoneBusy
        BY <4>1, <4>2, <4>3 DEF Fits, Matches, Current, Right
      <4>4. CASE ~NoneBusy
        <5>1. PICK u \in Threads : job[u].pc \in OpeningSteps
          BY <4>2, <4>4 DEF NoneBusy, Busy, BusySteps
        <5> QED
          BY <4>1, <4>2, <5>1, StepFacts DEF Fits, Agrees, Current, Right
      <4> QED
        BY <4>3, <4>4
    <3>2. CASE i # n
      <4>1. i \in 1..Len(wire) /\ IsQuery(i) /\ ~job[wire[i].by].raced
        BY <1>8, <3>2
      <4> QED
        BY <1>10, <2>1, <4>1 DEF DocInv, AnswersCurrent, QueriesRight
    <3> QED
      BY <3>1, <3>2
  <2> QED
    BY <1>1, <1>4, <2>1, <2>2 DEF Right
<1>12. Settled' => AnswersRight'
  <2>1. Settled' => AnswersRight
    BY <1>10 DEF DocInv, AnswersCurrent
  <2>2. \A u \in Threads : At(u, "answered")' => At(u, "answered") /\ job'[u] = job[u]
    BY <1>3 DEF At, Moved
  <2> QED
    BY <1>1, <2>1, <2>2 DEF AnswersRight
<1> QED
  BY <1>5, <1>7, <1>9, <1>11, <1>12 DEF AnswersCurrent, DocPart, DocInv

(* A query leaves the pipe: its call is answered, or gave up.              *)
LEMMA TakenKeeps ==
    ASSUME DocInv, NEW n \in 1..Len(wire), IsQuery(n), wire' = RemoveAt(wire, n),
           NEW t \in Threads, wire[n].by = t, Moved(t), job'[t].pc \in {"idle", "answered"},
           left' \in [failures : 0..MaxFailures, queries : 0..MaxQueries],
           UNCHANGED <<disk, owed, doc, server, pushed, store, cache>>,
           Settled /\ job'[t].pc = "answered" /\ ~job'[t].raced => job'[t].text = disk.text
    PROVE  DocInv'
<1> DEFINE a == [k \in Nat |-> IF k < n THEN k ELSE k + 1]
<1>0. TypeOK /\ wire \in Seq(Messages) /\ Len(wire) \in Nat /\ n \in DOMAIN wire /\ wire[n].kind = "query"
  BY Types DEF DocInv, IsQuery
<1>1. job[t].pc = "asked"
  BY DEF DocInv, QueriesOwned, At
<1>2. /\ Follows(wire, server, wire', server, a)
      /\ \A k \in 1..Len(wire') : (IF k < n THEN k ELSE k + 1) # n
  BY <1>0, QueryTaken
<1>3. wire' \in Seq(Messages) /\ Len(wire') \in Nat
  BY <1>2 DEF Follows
<1>4. \A k \in 1..Len(wire') : a[k] # n
  BY <1>2, <1>3
<1> HIDE DEF a
<1>5. TypeOK'
  BY <1>0, <1>3, TypeKept DEF Moved, TypeOK
<1>6. Aside
  BY <1>1, StepFacts DEF Aside, Moved, Busy, BusySteps
<1>7. DocPart'
  <2>1. ProtocolKept'
    BY DEF DocInv, ProtocolKept
  <2> QED
    BY <1>2, <1>6, <2>1, FollowedStep
<1>8. \A i \in 1..Len(wire') : IsQuery(i)' => job'[wire'[i].by] = job[wire'[i].by]
  <2> SUFFICES ASSUME NEW i \in 1..Len(wire'), IsQuery(i)' PROVE job'[wire'[i].by] = job[wire'[i].by]
    OBVIOUS
  <2>1. a[i] \in 1..Len(wire) /\ wire'[i] = wire[a[i]] /\ a[i] # n
    BY <1>2, <1>4 DEF Follows
  <2>2. wire[a[i]].by # t
    BY <2>1 DEF DocInv, QueriesOwned, IsQuery
  <2>3. wire[a[i]].by \in Threads
    BY <1>0, <2>1, Types DEF Messages
  <2> QED
    BY <2>1, <2>2, <2>3 DEF Moved
<1>9. Settled' => Settled
  BY <1>1, StepFacts DEF Settled, Moved
<1>10. QueriesOwned' /\ (Settled' => QueriesRight')
  BY <1>2, <1>8, <1>9, AnswersFollow
<1>11. Settled' => AnswersRight'
  <2>1. Settled' => AnswersRight /\ Settled
    BY <1>9 DEF DocInv, AnswersCurrent
  <2>2. \A u \in Threads \ {t} : job'[u] = job[u]
    BY DEF Moved
  <2> QED
    BY <2>1, <2>2 DEF AnswersRight, At
<1> QED
  BY <1>5, <1>7, <1>10, <1>11 DEF AnswersCurrent, DocPart, DocInv

LEMMA QueryEndsKeeps ==
    ASSUME DocInv, NEW t \in Threads, QueryFails(t) \/ StoreResult(t)
    PROVE  DocInv'
<1>0. TypeOK /\ wire \in Seq(Messages) /\ Len(wire) \in Nat
  BY Types DEF DocInv
<1>1. Moved(t) /\ job'[t].pc = "idle"
  BY <1>0, JobMoves DEF QueryFails, StoreResult
<1>2. CASE QueryFails(t)
  <2>1. PICK n \in DOMAIN wire : wire[n].kind = "query" /\ wire[n].by = t /\ wire' = RemoveAt(wire, n)
    BY <1>2 DEF QueryFails
  <2>2. n \in 1..Len(wire) /\ IsQuery(n)
    BY <1>0, <2>1 DEF IsQuery
  <2>3. left' \in [failures : 0..MaxFailures, queries : 0..MaxQueries]
    BY <1>0, <1>2, FailTypes DEF QueryFails
  <2>4. UNCHANGED <<disk, owed, doc, server, pushed, store, cache>>
    BY <1>2 DEF QueryFails
  <2> QED
    BY <1>1, <2>1, <2>2, <2>3, <2>4, TakenKeeps
<1>3. CASE StoreResult(t)
  <2>1. /\ job[t].pc = "answered" /\ cache' = [text |-> job[t].text, raced |-> job[t].raced]
        /\ UNCHANGED <<disk, owed, doc, wire, server, pushed, store, left>>
    BY <1>3 DEF StoreResult, At
  <2>2. cache' \in [text : Texts, raced : BOOLEAN] /\ cache'.text = job[t].text /\ cache'.raced = job[t].raced
    BY <1>0, <2>1, Types
  <2>3. TypeOK'
    BY <1>0, <1>1, <2>1, <2>2, TypeKept DEF Moved, TypeOK
  <2>4. Aside
    BY <1>1, <2>1, StepFacts DEF Aside, Moved, Busy, BusySteps
  <2>5. Follows(wire, server, wire', server', [k \in Nat |-> k]) /\ ProtocolKept'
    BY <1>0, <2>1, SamePipe DEF DocInv, ProtocolKept
  <2>6. DocPart'
    BY <2>4, <2>5, FollowedStep
  <2>7. \A i \in 1..Len(wire') : IsQuery(i)' => job'[wire'[i].by] = job[wire'[i].by]
    <3> SUFFICES ASSUME NEW i \in 1..Len(wire), IsQuery(i) PROVE job'[wire[i].by] = job[wire[i].by]
      BY <2>1 DEF IsQuery
    <3>1. wire[i].by \in Threads /\ job[wire[i].by].pc = "asked"
      BY Types DEF DocInv, QueriesOwned, At, Messages
    <3> QED
      BY <1>1, <2>1, <3>1 DEF Moved
  <2>8. Settled' => Settled
    BY <1>1, <2>1, StepFacts DEF Settled, Moved
  <2>9. QueriesOwned' /\ (Settled' => QueriesRight')
    BY <2>1, <2>5, <2>7, <2>8, AnswersFollow
  <2>10. Settled' => AnswersRight'
    <3>1. Settled' => AnswersRight
      BY <2>8 DEF DocInv, AnswersCurrent
    <3>2. \A u \in Threads : At(u, "answered")' => At(u, "answered") /\ job'[u] = job[u]
      BY <1>1 DEF At, Moved
    <3> QED
      BY <2>1, <2>2, <3>1, <3>2 DEF AnswersRight, At
  <2> QED
    BY <2>3, <2>6, <2>9, <2>10 DEF AnswersCurrent, DocPart, DocInv
<1> QED
  BY <1>2, <1>3

(* The file is written or removed.                                         *)
LEMMA FileChangeKeeps ==
    ASSUME DocInv, WriteFile \/ RemoveFile
    PROVE  DocInv'
<1>0. TypeOK /\ disk.last \in Texts /\ disk.text \in Texts /\ disk \in [text : Texts, last : Texts]
  BY DEF DocInv, TypeOK
<1>1. owed' = TRUE /\ UNCHANGED <<doc, job, wire, server, pushed, store, cache, left>>
  BY DEF WriteFile, RemoveFile
<1>2. disk' \in [text : Texts, last : Texts]
  <2>1. CASE WriteFile
    <3>1. disk.last + 1 \in Texts
      BY <1>0, <2>1, BoundsAssumption DEF WriteFile, Texts
    <3> QED
      BY <2>1, <3>1 DEF WriteFile
  <2>2. CASE RemoveFile
    BY <1>0, <2>2, StepFacts DEF RemoveFile
  <2> QED
    BY <2>1, <2>2
<1>3. TypeOK'
  BY <1>0, <1>1, <1>2, Types, TypeKept DEF TypeOK
<1>4. DocPart' /\ QueriesOwned' /\ AnswersCurrent'
  BY <1>1, ChangedFile
<1> QED
  BY <1>3, <1>4 DEF DocPart, DocInv

(* A step beside every call that leaves the pipe alone.                    *)
LEMMA OutsideKeeps ==
    ASSUME DocInv, UNCHANGED <<disk, owed, doc, job, wire, left>>,
           server'.open = server.open, server'.version = server.version, server'.text = server.text,
           server'.misused = server.misused,
           server' \in [open : BOOLEAN, version : Nat, text : Texts, told : BOOLEAN, misused : BOOLEAN],
           pushed' \in Seq(Texts),
           store' \in [text : Texts, dirty : BOOLEAN, known : BOOLEAN], store'.dirty => store'.known,
           cache' \in [text : Texts, raced : BOOLEAN], cache' = cache \/ cache'.text = NoText
    PROVE  DocInv'
<1>0. TypeOK
  BY DEF DocInv
<1>1. TypeOK'
  BY <1>0, Types, TypeKept DEF TypeOK
<1>2. Follows(wire, server, wire', server', [k \in Nat |-> k]) /\ ProtocolKept' /\ Aside
  BY <1>0, Types, SamePipe DEF DocInv, ProtocolKept, Aside
<1>3. DocPart'
  BY <1>2, FollowedStep
<1>4. (\A i \in 1..Len(wire') : IsQuery(i)' => job'[wire'[i].by] = job[wire'[i].by]) /\ (Settled' => Settled)
  BY DEF Settled
<1>5. QueriesOwned' /\ (Settled' => QueriesRight')
  BY <1>2, <1>4, AnswersFollow
<1>6. Settled' => AnswersRight'
  BY <1>4 DEF DocInv, AnswersCurrent, AnswersRight, At
<1> QED
  BY <1>1, <1>3, <1>5, <1>6 DEF AnswersCurrent, DocPart, DocInv

LEMMA PushesKeep ==
    ASSUME DocInv, ResultExpires \/ SignalRefresh \/ Publish \/ PushDiagnostics
    PROVE  DocInv'
<1>0. /\ server \in [open : BOOLEAN, version : Nat, text : Texts, told : BOOLEAN, misused : BOOLEAN]
      /\ pushed \in Seq(Texts) /\ cache \in [text : Texts, raced : BOOLEAN]
      /\ store \in [text : Texts, dirty : BOOLEAN, known : BOOLEAN] /\ (store.dirty => store.known)
  BY DEF DocInv, TypeOK
<1>1. CASE ResultExpires
  <2>1. cache' = NoResult /\ UNCHANGED <<disk, owed, doc, job, wire, server, pushed, store, left>>
    BY <1>1 DEF ResultExpires
  <2>2. cache' \in [text : Texts, raced : BOOLEAN] /\ cache'.text = NoText
    BY <2>1, StepFacts DEF NoResult
  <2> QED
    BY <1>0, <2>1, <2>2, OutsideKeeps
<1>2. CASE SignalRefresh
  <2>1. store' = [store EXCEPT !.dirty = FALSE] /\ UNCHANGED <<disk, owed, doc, job, wire, server, pushed, cache, left>>
    BY <1>2 DEF SignalRefresh
  <2>2. store' \in [text : Texts, dirty : BOOLEAN, known : BOOLEAN] /\ ~store'.dirty
    BY <1>0, <2>1
  <2> QED
    BY <1>0, <2>1, <2>2, OutsideKeeps
<1>3. CASE Publish
  <2>1. /\ pushed # <<>> /\ store' = [text |-> Head(pushed), dirty |-> FALSE, known |-> TRUE]
        /\ pushed' = Tail(pushed) /\ UNCHANGED <<disk, owed, doc, job, wire, server, cache, left>>
    BY <1>3 DEF Publish
  <2>2. Head(pushed) \in Texts /\ pushed' \in Seq(Texts)
    BY <1>0, <2>1
  <2>3. store' \in [text : Texts, dirty : BOOLEAN, known : BOOLEAN] /\ ~store'.dirty
    BY <2>1, <2>2
  <2> QED
    BY <1>0, <2>1, <2>2, <2>3, OutsideKeeps
<1>4. CASE PushDiagnostics
  <2>1. /\ pushed' = Append(pushed, server.text) /\ server' = [server EXCEPT !.told = TRUE]
        /\ UNCHANGED <<disk, owed, doc, job, wire, store, cache, left>>
    BY <1>4 DEF PushDiagnostics
  <2>2. pushed' \in Seq(Texts)
    BY <1>0, <2>1
  <2>3. /\ server' \in [open : BOOLEAN, version : Nat, text : Texts, told : BOOLEAN, misused : BOOLEAN]
        /\ server'.open = server.open /\ server'.version = server.version /\ server'.text = server.text
        /\ server'.misused = server.misused
    BY <1>0, <2>1
  <2> QED
    BY <1>0, <2>1, <2>2, <2>3, OutsideKeeps
<1> QED
  BY <1>1, <1>2, <1>3, <1>4

-----------------------------------------------------------------------------
(* The server handles a message.                                           *)
LEMMA HandleDocumentKeeps ==
    ASSUME DocInv, HandleDocument
    PROVE  DocInv'
<1> DEFINE m == Head(wire)
<1>0. TypeOK /\ wire \in Seq(Messages) /\ Len(wire) \in Nat
  BY Types DEF DocInv
<1>1. /\ wire # <<>> /\ m.kind # "query" /\ wire' = Tail(wire)
      /\ server' = [open |-> m.kind # "didClose", version |-> m.version, text |-> m.text,
                    told |-> m.kind = "didClose", misused |-> server.misused \/ Misuse(m)]
      /\ UNCHANGED <<disk, owed, doc, job, pushed, store, cache, left>>
  BY DEF HandleDocument
<1>2. m = wire[1] /\ 1 \in 1..Len(wire) /\ m \in Messages /\ 1 \in DOMAIN wire
  BY <1>0, <1>1
<1> HIDE DEF m
<1>3. ~Misuse(m)
  <2>1. Precedes(wire, 0, 1)
    BY <1>0 DEF Precedes, Speaks, Silent
  <2>2. Permitted(Told(wire, server, 0), m)
    BY <1>0, <1>2, <2>1 DEF DocInv, Orderly
  <2>3. LET w == Told(wire, server, 0) IN w.open = server.open /\ w.version = server.version
    BY DEF Told
  <2>4. /\ m.kind = "didOpen" => ~server.open
        /\ m.kind = "didChange" => server.open /\ server.version < m.version
        /\ m.kind = "didClose" => server.open
    BY <2>2, <2>3 DEF Permitted
  <2>5. m.kind \in {"didOpen", "didChange", "didClose"} /\ m.version \in Nat /\ server.version \in Nat
    BY <1>0, <1>1, <1>2, Types DEF Messages
  <2> QED
    BY <2>4, <2>5 DEF Misuse
<1>4. /\ server'.open = (m.kind # "didClose") /\ server'.version = m.version /\ server'.text = m.text
      /\ server'.misused = (server.misused \/ Misuse(m))
  BY <1>1
<1>5. server' \in [open : BOOLEAN, version : Nat, text : Texts, told : BOOLEAN, misused : BOOLEAN]
  <2>1. m.version \in Nat /\ m.text \in Texts
    BY <1>2 DEF Messages
  <2> QED
    BY <1>1, <2>1
<1>6. ProtocolKept'
  BY <1>3, <1>4 DEF DocInv, ProtocolKept
<1>7. Follows(wire, server, wire', server', [k \in Nat |-> k + 1])
  <2>1. Follows(wire, server, Tail(wire), server', [k \in Nat |-> k + 1])
    BY <1>0, <1>1, <1>4, HeadHandled DEF m
  <2> QED
    BY <1>1, <2>1
<1>8. TypeOK'
  <2>1. wire' \in Seq(Messages)
    BY <1>7 DEF Follows
  <2> QED
    BY <1>0, <1>1, <1>5, <2>1, Types, TypeKept DEF TypeOK
<1>9. Aside
  BY <1>0, <1>1, Types DEF Aside
<1>10. DocPart'
  BY <1>6, <1>7, <1>9, FollowedStep
<1>11. (\A i \in 1..Len(wire') : IsQuery(i)' => job'[wire'[i].by] = job[wire'[i].by]) /\ (Settled' => Settled)
  BY <1>1 DEF Settled
<1>12. QueriesOwned' /\ (Settled' => QueriesRight')
  BY <1>1, <1>7, <1>11, AnswersFollow
<1>13. Settled' => AnswersRight'
  BY <1>1, <1>11 DEF DocInv, AnswersCurrent, AnswersRight, At
<1> QED
  BY <1>8, <1>10, <1>12, <1>13 DEF AnswersCurrent, DocPart, DocInv

LEMMA HandleQueryKeeps ==
    ASSUME DocInv, HandleQuery
    PROVE  DocInv'
<1> DEFINE m == Head(wire)
           c == IF server.open THEN server.text ELSE disk.text
<1>0. TypeOK /\ wire \in Seq(Messages) /\ Len(wire) \in Nat
  BY Types DEF DocInv
<1>1. /\ wire # <<>> /\ m.kind = "query" /\ wire' = Tail(wire) /\ Reads(m.by, "answered", c)
      /\ UNCHANGED <<disk, owed, doc, server, pushed, store, cache, left>>
  BY DEF HandleQuery, Reads
<1>2. m = wire[1] /\ 1 \in 1..Len(wire) /\ m \in Messages /\ 1 \in DOMAIN wire
  BY <1>0, <1>1
<1> HIDE DEF m
<1>3. m.by \in Threads /\ IsQuery(1) /\ wire[1].by = m.by
  BY <1>1, <1>2 DEF Messages, IsQuery
<1>4. c \in Texts /\ "answered" \in Steps
  BY <1>0, Types, StepFacts DEF Steps
<1>5. Moved(m.by) /\ job'[m.by].pc = "answered" /\ job'[m.by].text = c /\ job'[m.by].raced = job[m.by].raced
  BY <1>0, <1>1, <1>3, <1>4, JobMoves
<1>6. ASSUME Settled, ~job'[m.by].raced PROVE c = disk.text
  <2>1. Precedes(wire, 0, 1)
    BY <1>0 DEF Precedes, Speaks, Silent
  <2>2. Right(Told(wire, server, 0))
    <3>1. QueriesRight /\ 0 \in 0..Len(wire) /\ ~job[wire[1].by].raced
      BY <1>0, <1>3, <1>5, <1>6 DEF DocInv, AnswersCurrent
    <3> QED
      BY <1>2, <1>3, <2>1, <3>1 DEF QueriesRight
  <2>3. LET w == Told(wire, server, 0) IN w.open = server.open /\ w.text = server.text
    BY DEF Told
  <2> QED
    BY <2>2, <2>3 DEF Right
<1> HIDE DEF c
<1>7. wire' = RemoveAt(wire, 1)
  BY <1>0, <1>1, <1>2, <1>3, QueryTaken DEF IsQuery
<1>8. left' \in [failures : 0..MaxFailures, queries : 0..MaxQueries]
  BY <1>0, <1>1 DEF TypeOK
<1>9. DocInv /\ UNCHANGED <<disk, owed, doc, server, pushed, store, cache>>
      /\ (Settled /\ job'[m.by].pc = "answered" /\ ~job'[m.by].raced => job'[m.by].text = disk.text)
  BY <1>1, <1>5, <1>6
<1>10. \A t \in Threads : t = m.by => job'[t].pc \in {"idle", "answered"}
  BY <1>5
<1> QED
  BY <1>2, <1>3, <1>5, <1>7, <1>8, <1>9, <1>10, TakenKeeps

LEMMA DocInitially == ASSUME Init PROVE DocInv
<1>0. wire = <<>> /\ Len(wire) = 0 /\ wire \in Seq(Messages) /\ 1..Len(wire) = {} /\ 0..Len(wire) = {0}
  BY DEF Init
<1>1. TypeOK
  <2>1. 1 \in Texts /\ 0 \in Texts /\ MaxFailures \in 0..MaxFailures /\ MaxQueries \in 0..MaxQueries
    BY BoundsAssumption DEF Texts
  <2>2. job \in [Threads -> [pc : {"idle", "waiting"} \cup QuerySteps \cup OpeningSteps \cup ChangingSteps,
                             version : Nat, text : Texts, raced : BOOLEAN]]
    BY <2>1 DEF Init, Idle, NoText
  <2>3. wire \in Seq([kind : {"didOpen", "didChange", "didClose", "query"},
                     version : Nat, text : Texts, by : Threads])
    BY <1>0 DEF Messages
  <2>4. /\ disk \in [text : Texts, last : Texts] /\ owed \in BOOLEAN
        /\ doc \in [tracked : BOOLEAN, version : Nat]
        /\ server \in [open : BOOLEAN, version : Nat, text : Texts, told : BOOLEAN, misused : BOOLEAN]
    BY <2>1 DEF Init, NoText, Untracked
  <2>5. /\ store \in [text : Texts, dirty : BOOLEAN, known : BOOLEAN] /\ (store.dirty => store.known)
        /\ cache \in [text : Texts, raced : BOOLEAN]
        /\ left \in [failures : 0..MaxFailures, queries : 0..MaxQueries]
    BY <2>1 DEF Init, NoDiagnostics, NoResult, NoText
  <2>6. pushed \in Seq(Texts)
    BY DEF Init
  <2> QED
    BY <2>2, <2>3, <2>4, <2>5, <2>6 DEF TypeOK
<1>2. \A t \in Threads : job[t].pc = "idle"
  BY StepFacts DEF Init
<1>3. \A t \in Threads : ~Busy(t) /\ Doing(t) /\ \A w : Agrees(t, w)
  BY <1>2, StepFacts DEF Busy, BusySteps, Doing, Agrees
<1>4. Together
  <2>1. LET w == Told(wire, server, 0) IN w.open = server.open /\ w.version = server.version /\ w.text = server.text
    BY DEF Told
  <2>2. ~server.open /\ ~doc.tracked /\ server.version = 0
    BY DEF Init, Untracked
  <2>3. Fits(Told(wire, server, 0))
    BY <1>3, <2>1, <2>2 DEF Fits, Matches
  <2> QED
    BY <1>0, <2>3 DEF Together
<1>5. ProtocolKept /\ Orderly(wire, server) /\ QueriesOwned
  BY <1>0 DEF Init, ProtocolKept, Orderly, QueriesOwned
<1>6. AnswersCurrent
  <2>1. QueriesRight
    BY <1>0 DEF QueriesRight
  <2>2. AnswersRight
    BY <1>2 DEF AnswersRight, At, Init, NoResult
  <2> QED
    BY <2>1, <2>2 DEF AnswersCurrent
<1> QED
  BY <1>1, <1>3, <1>4, <1>5, <1>6 DEF DocInv, OneBusy

LEMMA DocKept == ASSUME ~Overlap, DocInv, [Next]_vars PROVE DocInv'
<1>1. CASE WriteFile \/ RemoveFile
  BY <1>1, FileChangeKeeps
<1>2. CASE ResultExpires \/ SignalRefresh \/ Publish \/ PushDiagnostics
  BY <1>2, PushesKeep
<1>3. CASE HandleDocument
  BY <1>3, HandleDocumentKeeps
<1>4. CASE HandleQuery
  BY <1>4, HandleQueryKeeps
<1>5. ASSUME NEW t \in Threads, StartOpening(t) \/ StartInvalidation(t) \/ MissCache(t) \/ StartReading(t)
                                \/ Continue(t)
      PROVE  DocInv'
  <2>1. CASE StartOpening(t) \/ Opening(t)
    BY <2>1, OpeningKeeps
  <2>2. CASE StartInvalidation(t)
    BY <2>2, StartInvalidationKeeps
  <2>3. CASE MissCache(t) \/ StartReading(t) \/ Reading(t)
    BY <2>3, ReadingKeeps
  <2>4. CASE ForgetResults(t)
    BY <2>4, ForgetResultsKeeps
  <2>5. CASE Invalidating(t) /\ ~ForgetResults(t)
    BY <2>5, ChangingKeeps DEF Invalidating
  <2>6. CASE SendQuery(t)
    BY <2>6, SendQueryKeeps
  <2>7. CASE QueryFails(t) \/ StoreResult(t)
    BY <2>7, QueryEndsKeeps
  <2> QED
    BY <1>5, <2>1, <2>2, <2>3, <2>4, <2>5, <2>6, <2>7 DEF Continue, Querying
<1>6. CASE UNCHANGED vars
  <2>1. /\ UNCHANGED <<disk, owed, doc, job, wire, left>>
        /\ UNCHANGED <<server, pushed, store, cache>>
    BY <1>6 DEF vars
  <2>2. TypeOK
    BY DEF DocInv
  <2> QED
    BY <2>1, <2>2, OutsideKeeps DEF TypeOK
<1> QED
  BY <1>1, <1>2, <1>3, <1>4, <1>5, <1>6 DEF Next, Serve

-----------------------------------------------------------------------------
(* While calls on the tracked document do not overlap, every message the   *)
(* manager sends is one the server can expect.                             *)
THEOREM MessagesKeepProtocol == ASSUME ~Overlap PROVE Spec => []ProtocolKept
<1>1. DocInv => ProtocolKept
  BY DEF DocInv
<1> QED
  BY DocInitially, DocKept, <1>1, PTL DEF Spec

(* And when all is handled, the server holds what the file holds.          *)
THEOREM ServerHoldsTheText == ASSUME ~Overlap PROVE Spec => []ServerCatchesUp
<1>1. ASSUME DocInv PROVE ServerCatchesUp
  <2> SUFFICES ASSUME ~owed, wire = <<>>, \A t \in Threads : job[t].pc \notin OpeningSteps \cup ChangingSteps
               PROVE  server.open = doc.tracked /\ (doc.tracked => server.text = disk.text)
    BY DEF ServerCatchesUp
  <2>1. Len(wire) = 0 /\ Latest(wire, 0)
    BY DEF Latest, Precedes, Speaks, Silent
  <2>2. Fits(Told(wire, server, 0))
    BY <1>1, <2>1 DEF DocInv, Together
  <2>3. NoneBusy
    BY DEF NoneBusy, Busy, BusySteps
  <2>4. LET w == Told(wire, server, 0) IN w.open = server.open /\ w.text = server.text
    BY DEF Told
  <2>5. server.open \in BOOLEAN /\ doc.tracked \in BOOLEAN
    BY <1>1, Types DEF DocInv
  <2>6. (server.open <=> doc.tracked) /\ (doc.tracked => server.text = disk.text)
    BY <2>2, <2>3, <2>4 DEF Fits, Matches, Current
  <2> QED
    BY <2>5, <2>6
<1> QED
  BY DocInitially, DocKept, <1>1, PTL DEF Spec

(* And a cached result that is not of the file's text is either about to   *)
(* be forgotten or was asked while one was.                                *)
THEOREM StaleAnswersWereRaced == ASSUME ~Overlap PROVE Spec => []StaleOnlyIfRaced
<1>1. DocInv => StaleOnlyIfRaced
  BY DEF DocInv, AnswersCurrent, AnswersRight, Settled, StaleOnlyIfRaced
<1> QED
  BY DocInitially, DocKept, <1>1, PTL DEF Spec
=============================================================================
