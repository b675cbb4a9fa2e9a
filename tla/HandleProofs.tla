---------------------------- MODULE HandleProofs ----------------------------
(* Proofs about open files: what the operators of HandleEntry return, for  *)
(* every content; FuseHandles, for any number of workers, files and        *)
(* handles; SingleHandle, for contents and generations of any length; and  *)
(* FuseReplies, for whatever the chain and the backing file say of an      *)
(* inode, and any course of requests to it.                                *)
(*                                                                         *)
(* The properties of FuseHandles need three inductive invariants: who owns *)
(* an fh (Ownership), what a flush in progress knows (Tracking), and who   *)
(* answers for what is kept for an inode (Tended).  Those of SingleHandle, *)
(* and that it implements the contract of an open file, need SingleInv.    *)
EXTENDS FuseReplies, FuseHandles, SingleHandle, SequenceTheorems, TLAPS

-----------------------------------------------------------------------------
(* A function on 1 .. n is a sequence of n elements.                       *)
LEMMA FunctionIsSequence ==
    ASSUME NEW S, NEW n \in Nat, NEW f \in [1 .. n -> S]
    PROVE  f \in Seq(S)
<1>1. [1 .. n -> S] \in {[1 .. m -> S] : m \in Nat}
  OBVIOUS
<1> QED
  BY <1>1, SeqDef

(* A truncated content is a content, no longer than asked for, and agrees  *)
(* with the old one as far as it goes (Vec::truncate).                     *)
LEMMA CutFacts ==
    ASSUME NEW c \in Content, NEW n \in Nat
    PROVE  /\ Cut(c, n) \in Content
           /\ Len(Cut(c, n)) = IF n < Len(c) THEN n ELSE Len(c)
           /\ \A i \in 1 .. Len(Cut(c, n)) : Cut(c, n)[i] = c[i]
<1> DEFINE k == IF n < Len(c) THEN n ELSE Len(c)
<1>1. Len(c) \in Nat /\ \A i \in 1 .. Len(c) : c[i] \in Bytes
  BY LenProperties, ElementOfSeq DEF Content
<1>2. k \in Nat /\ k <= Len(c)
  BY <1>1
<1>3. Cut(c, n) = [i \in 1 .. k |-> c[i]]
  BY DEF Cut
<1>4. Cut(c, n) \in [1 .. k -> Bytes]
  BY <1>1, <1>2, <1>3
<1>5. Cut(c, n) \in Content
  BY <1>2, <1>4, FunctionIsSequence DEF Content
<1>6. Len(Cut(c, n)) = k
  BY <1>2, <1>4, <1>5, LenProperties DEF Content
<1> QED
  BY <1>1, <1>2, <1>3, <1>5, <1>6

(* A write leaves a content whose bytes are the data inside the written    *)
(* range, the old bytes outside it and NUL in a gap (Vec::resize, then     *)
(* copy_from_slice).                                                       *)
LEMMA SplicedFacts ==
    ASSUME NEW c \in Content, NEW off \in Nat, NEW data \in Content
    PROVE  LET s == Spliced(c, off, data)
               end == off + Len(data)
           IN /\ s \in Content
              /\ Len(s) = IF end > Len(c) THEN end ELSE Len(c)
              /\ \A i \in 1 .. Len(data) : s[off + i] = data[i]
              /\ \A i \in 1 .. Len(c) : (i <= off \/ end < i) => s[i] = c[i]
              /\ \A i \in Len(c) + 1 .. off : s[i] = NUL
<1> DEFINE end == off + Len(data)
           k == IF end > Len(c) THEN end ELSE Len(c)
           at(i) == IF off < i /\ i <= end THEN data[i - off]
                    ELSE IF i <= Len(c) THEN c[i] ELSE NUL
           s == Spliced(c, off, data)
<1>1. /\ Len(c) \in Nat /\ \A i \in 1 .. Len(c) : c[i] \in Bytes
      /\ Len(data) \in Nat /\ \A i \in 1 .. Len(data) : data[i] \in Bytes
  BY LenProperties, ElementOfSeq DEF Content
<1>2. end \in Nat /\ k \in Nat /\ end <= k /\ Len(c) <= k
  BY <1>1
<1>3. s = [i \in 1 .. k |-> at(i)]
  BY DEF Spliced
<1>4. ASSUME NEW i \in 1 .. k PROVE at(i) \in Bytes
  <2>1. CASE off < i /\ i <= end
    <3>1. i - off \in 1 .. Len(data)
      BY <1>1, <1>2, <2>1
    <3> QED
      BY <1>1, <2>1, <3>1
  <2>2. CASE ~(off < i /\ i <= end)
    BY <1>1, <1>2, <2>2, BytesAssumption
  <2> QED
    BY <2>1, <2>2
<1>5. s \in [1 .. k -> Bytes]
  BY <1>3, <1>4
<1>6. s \in Content
  <2> HIDE DEF s, k
  <2> QED
    BY <1>2, <1>5, FunctionIsSequence DEF Content
<1>7. Len(s) = k
  BY <1>2, <1>5, <1>6, LenProperties DEF Content
<1>8. ASSUME NEW i \in 1 .. Len(data) PROVE s[off + i] = data[i]
  <2>1. off + i \in 1 .. k /\ off < off + i /\ off + i <= end /\ (off + i) - off = i
    BY <1>1, <1>2
  <2> QED
    BY <1>3, <2>1
<1>9. ASSUME NEW i \in 1 .. Len(c), i <= off \/ end < i PROVE s[i] = c[i]
  BY <1>1, <1>2, <1>3, <1>9
<1>10. ASSUME NEW i \in Len(c) + 1 .. off PROVE s[i] = NUL
  BY <1>1, <1>2, <1>3
<1> QED
  BY <1>6, <1>7, <1>8, <1>9, <1>10

(* What the lemmas below say of the entry x made for inode ino, or made    *)
(* from the entry e.                                                       *)
MadeFor(I, ino, x) == x \in Entries(I) /\ x.inode = ino
Kept(I, e, x) ==
    x \in Entries(I) /\ x.inode = e.inode /\ x.dirty_gen >= e.dirty_gen
Dirtied(I, e, x) ==
    x \in Entries(I) /\ x.inode = e.inode /\ x.dirty_gen = e.dirty_gen + 1
ClearedAt(I, e, gen, x) ==
    /\ x \in Entries(I) /\ x.inode = e.inode
    /\ x.dirty_gen = IF e.dirty_gen = gen THEN 0 ELSE e.dirty_gen

LEMMA VacantFacts ==
    ASSUME NEW I, I \subseteq Nat \ {0}
    PROVE  Vacant \in Entries(I) /\ Vacant.inode = 0 /\ Vacant.dirty_gen = 0
BY EmptySeq DEF Vacant, Entries, Content, Sources, Truncations

LEMMA NewBufferedFacts ==
    ASSUME NEW I, I \subseteq Nat \ {0}, NEW ino \in I, NEW content \in Content,
           NEW trunc \in BOOLEAN, NEW app \in BOOLEAN
    PROVE  MadeFor(I, ino, NewBuffered(ino, content, trunc, app))
<1>1. << >> \in Content
  BY EmptySeq DEF Content
<1> QED
  BY <1>1 DEF MadeFor, NewBuffered, Entries, Sources, Truncations

LEMMA NewDirectFacts ==
    ASSUME NEW I, I \subseteq Nat \ {0}, NEW ino \in I,
           NEW trunc \in BOOLEAN, NEW app \in BOOLEAN
    PROVE  MadeFor(I, ino, NewDirect(ino, trunc, app))
<1>1. << >> \in Content
  BY EmptySeq DEF Content
<1> QED
  BY <1>1 DEF MadeFor, NewDirect, Entries, Sources, Truncations

(* A non-empty write dirties the handle and leaves it to its inode.        *)
LEMMA WrittenFacts ==
    ASSUME NEW I, I \subseteq Nat \ {0}, NEW e \in Entries(I),
           NEW off \in Nat, NEW b \in Bytes, NEW fd \in Content
    PROVE  Dirtied(I, e, Written(e, off, <<b>>, fd))
<1> DEFINE w == Written(e, off, <<b>>, fd)
<1>1. <<b>> \in Content /\ <<b>> # << >>
  BY DEF Content
<1>2. Populated(e, fd) \in Content
  BY DEF Populated, Entries
<1>3. WriteOffset(e, off, fd) \in Nat
  BY <1>2, LenProperties DEF WriteOffset, Content
<1>4. Spliced(Populated(e, fd), WriteOffset(e, off, fd), <<b>>) \in Content
  BY <1>1, <1>2, <1>3, SplicedFacts
<1>5. Consumed(e) \in Truncations
  BY DEF Consumed, IsReplacement, Entries, Truncations
<1> DEFINE buf == Spliced(Populated(e, fd), WriteOffset(e, off, fd), <<b>>)
           src == IF e.source \in {"DirectFd", "Truncated"} THEN "Materialized"
                  ELSE e.source
<1>6. buf \in Content /\ src \in Sources /\ e.dirty_gen + 1 \in Nat
  BY <1>4 DEF Entries, Sources
<1>7. w = [e EXCEPT !.buffer = buf, !.source = src, !.dirty_gen = e.dirty_gen + 1,
                    !.truncation = Consumed(e)]
  BY <1>1 DEF Written
<1> HIDE DEF w, buf, src
<1>8. Dirtied(I, e, w)
  BY <1>5, <1>6, <1>7 DEF Dirtied, Entries
<1> QED
  BY <1>8 DEF w

LEMMA WriteFailedFacts ==
    ASSUME NEW I, I \subseteq Nat \ {0}, NEW e \in Entries(I), NEW n \in Nat
    PROVE  Kept(I, e, WriteFailed(e, n))
<1> DEFINE x == WriteFailed(e, n)
<1>1. x = [e EXCEPT !.buffer = Unread(n), !.source = "Preloaded", !.truncation = Consumed(e)]
  BY DEF WriteFailed
<1>2. Consumed(e) \in Truncations /\ "Preloaded" \in Sources
  BY DEF Consumed, IsReplacement, Entries, Sources, Truncations
<1>3. Unread(n) \in Content
  <2>1. Unread(n) \in [1 .. n -> Bytes]
    BY BytesAssumption DEF Unread
  <2> QED
    BY <2>1, FunctionIsSequence DEF Content
<1> HIDE DEF x
<1>4. x \in Entries(I) /\ x.inode = e.inode /\ x.dirty_gen = e.dirty_gen
  BY <1>1, <1>2, <1>3 DEF Entries
<1>5. e.dirty_gen \in Nat
  BY DEF Entries
<1>6. Kept(I, e, x)
  BY <1>4, <1>5 DEF Kept
<1> QED
  BY <1>6 DEF x

(* A truncation never makes a dirty handle clean.                          *)
LEMMA TruncatedFacts ==
    ASSUME NEW I, I \subseteq Nat \ {0}, NEW e \in Entries(I),
           NEW size \in Nat, NEW fd \in Content
    PROVE  Kept(I, e, TruncatedTo(e, size, fd))
<1> DEFINE direct == e.source = "DirectFd"
           loses  == e.source = "Preloaded" /\ size < Len(e.buffer)
           buf == Cut(IF direct /\ size > 0 THEN fd ELSE e.buffer, size)
           src == IF direct THEN "Truncated" ELSE e.source
           gen == IF loses THEN e.dirty_gen + 1 ELSE e.dirty_gen
           trunc == IF direct \/ loses THEN "Pending" ELSE e.truncation
           r == TruncatedTo(e, size, fd)
<1>1. buf \in Content
  BY CutFacts DEF Entries
<1>2. src \in Sources /\ trunc \in Truncations
  BY DEF Entries, Sources, Truncations
<1>3. gen \in Nat /\ gen >= e.dirty_gen
  BY DEF Entries
<1>4. r = [e EXCEPT !.buffer = buf, !.source = src, !.dirty_gen = gen,
                    !.truncation = trunc]
  BY DEF TruncatedTo
<1> HIDE DEF r, buf, src, gen, trunc
<1>5. Kept(I, e, r)
  BY <1>1, <1>2, <1>3, <1>4 DEF Kept, Entries
<1> QED
  BY <1>5 DEF r

(* clear_dirty makes a handle clean only when its generation is still the  *)
(* snapshot's.                                                             *)
LEMMA ClearedFacts ==
    ASSUME NEW I, I \subseteq Nat \ {0}, NEW e \in Entries(I), NEW gen \in Nat
    PROVE  ClearedAt(I, e, gen, Cleared(e, gen))
BY DEF ClearedAt, Cleared, Entries

-----------------------------------------------------------------------------
(* An append lands at the true end: whatever offset the kernel sends, the  *)
(* content a reader saw is a prefix of the new one, the data follows it    *)
(* and there is no gap (handles/mod.rs:412-419).                           *)
THEOREM AppendKeepsContent ==
    ASSUME NEW I, I \subseteq Nat \ {0}, NEW e \in Entries(I),
           NEW off \in Nat, NEW data \in Content, NEW fd \in Content,
           e.append
    PROVE  LET old == Populated(e, fd)
               new == Written(e, off, data, fd).buffer
           IN /\ Len(new) = Len(old) + Len(data)
              /\ \A i \in 1 .. Len(old) : new[i] = old[i]
              /\ \A i \in 1 .. Len(data) : new[Len(old) + i] = data[i]
<1> DEFINE old == Populated(e, fd)
           new == Written(e, off, data, fd).buffer
<1>1. old \in Content
  BY DEF Populated, Entries
<1>2. Len(old) \in Nat /\ Len(data) \in Nat
  BY <1>1, LenProperties DEF Content
<1>3. WriteOffset(e, off, fd) = Len(old)
  BY DEF WriteOffset
<1>4. new = Spliced(old, Len(old), data)
  BY <1>3 DEF Written, Entries
<1>5. /\ Len(new) = IF Len(old) + Len(data) > Len(old) THEN Len(old) + Len(data)
                    ELSE Len(old)
      /\ \A i \in 1 .. Len(data) : new[Len(old) + i] = data[i]
      /\ \A i \in 1 .. Len(old) :
            (i <= Len(old) \/ Len(old) + Len(data) < i) => new[i] = old[i]
  BY <1>1, <1>2, <1>4, SplicedFacts
<1> QED
  BY <1>2, <1>5

-----------------------------------------------------------------------------
(* Where a worker is fits the request it serves.                           *)
StepsFitRequests ==
    \A t \in Threads :
        /\ pc[t] = "idle" <=> req[t].op = "none"
        /\ pc[t] = "snap" => req[t].op = "write"
        /\ pc[t] \in {"drop", "check", "evict"} => req[t].op = "release"
        /\ req[t].ino = InodeOf[req[t].file]

(* A write or flush in progress keeps its file open under the same fh.     *)
UsersKeepOpen ==
    \A t \in Threads :
        req[t].op \in {"write", "flush"} => ffh[req[t].file] = req[t].fh

Ownership ==
    /\ TypeOK
    /\ direct_io = {}
    /\ StepsFitRequests
    /\ UsersKeepOpen
    /\ HandleIdentity

(* No two requests in progress use one handle.                             *)
SingleUser ==
    \A t, u \in Threads :
        Uses(t) /\ Uses(u) /\ req[t].fh = req[u].fh => t = u

(* A snapshot is never ahead of its handle, and behind it once a write has *)
(* been accepted since; what was stored from a snapshot that lacks no      *)
(* write is all there is.                                                  *)
Tracks(t) ==
    /\ HasSnapshot(t) =>
        /\ 0 < req[t].gen /\ req[t].gen <= handles[req[t].fh].dirty_gen
        /\ t \in stale => req[t].gen < handles[req[t].fh].dirty_gen
    /\ pc[t] = "clear" /\ t \notin stale => req[t].fh \notin unstored
    /\ t \in stale => HasSnapshot(t) /\ req[t].op # "release"
    /\ pc[t] = "drop" /\ req[t].ok => req[t].fh \notin unstored

SnapshotsTrack == \A t \in Threads : Tracks(t)

UnstoredIsLive == \A h \in unstored : handles[h].inode # 0

Tracking ==
    /\ SingleUser
    /\ SnapshotsTrack
    /\ UnstoredIsLive
    /\ CleanMeansStored

-----------------------------------------------------------------------------
(* Facts about the constants, and the records requests are made of.        *)

LEMMA ConstantFacts ==
    /\ Inodes \subseteq Nat \ {0}
    /\ \A f \in Files : InodeOf[f] \in Inodes
    /\ Fhs \subseteq Nat /\ 0 \in Fhs /\ NoFh \notin Fhs
    /\ Contents \subseteq Content
<1>1. Inodes \subseteq Nat \ {0} /\ \A f \in Files : InodeOf[f] \in Inodes
  BY FuseHandlesAssumption DEF Inodes
<1>2. Fhs \subseteq Nat /\ 0 \in Fhs /\ NoFh \notin Fhs
  BY FuseHandlesAssumption DEF Fhs, NoFh
<1>3. ASSUME NEW n \in 0 .. MaxLen PROVE [i \in 1 .. n |-> NUL] \in Content
  <2>1. n \in Nat
    BY FuseHandlesAssumption
  <2>2. [i \in 1 .. n |-> NUL] \in [1 .. n -> Bytes]
    BY BytesAssumption
  <2> QED
    BY <2>1, <2>2, FunctionIsSequence DEF Content
<1> QED
  BY <1>1, <1>2, <1>3 DEF Contents

LEMMA RequestFacts ==
    /\ IdleReq \in Requests
    /\ IdleReq.op = "none" /\ IdleReq.ino = InodeOf[IdleReq.file]
    /\ \A op \in {"write", "flush", "release"}, f \in Files, h \in Fhs :
        LET r == [Request(op, f) EXCEPT !.fh = h]
        IN /\ r \in Requests
           /\ r.op = op /\ r.file = f /\ r.ino = InodeOf[f] /\ r.fh = h /\ r.ok
<1>1. AnyFile \in Files
  BY FuseHandlesAssumption DEF AnyFile
<1>2. IdleReq \in Requests
  BY <1>1, ConstantFacts DEF IdleReq, Requests
<1>3. IdleReq.op = "none" /\ IdleReq.ino = InodeOf[IdleReq.file]
  BY DEF IdleReq
<1>4. ASSUME NEW op \in {"write", "flush", "release"}, NEW f \in Files, NEW h \in Fhs
      PROVE  LET r == [Request(op, f) EXCEPT !.fh = h]
             IN /\ r \in Requests
                /\ r.op = op /\ r.file = f /\ r.ino = InodeOf[f] /\ r.fh = h /\ r.ok
  <2> DEFINE q == Request(op, f)
             r == [q EXCEPT !.fh = h]
  <2>1. q = [IdleReq EXCEPT !.op = op, !.file = f, !.ino = InodeOf[f]]
    BY DEF Request
  <2>2. IdleReq.ok
    BY DEF IdleReq
  <2> HIDE DEF q
  <2>3. q \in Requests /\ q.op = op /\ q.file = f /\ q.ino = InodeOf[f] /\ q.ok
    BY <1>2, <2>1, <2>2, ConstantFacts DEF Requests
  <2>4. r \in Requests /\ r.op = op /\ r.file = f /\ r.ino = InodeOf[f] /\ r.fh = h /\ r.ok
    BY <2>3 DEF Requests
  <2> QED
    BY <2>4 DEF q
<1> QED
  BY <1>2, <1>3, <1>4

LEMMA EntryFacts ==
    ASSUME NEW e \in Entries(Inodes)
    PROVE  /\ \A off \in 0 .. MaxLen, fd \in Contents :
                Dirtied(Inodes, e, Written(e, off, <<NUL>>, fd))
           /\ \A size \in 0 .. MaxLen, fd \in Contents :
                Kept(Inodes, e, TruncatedTo(e, size, fd))
           /\ \A n \in 0 .. MaxLen : Kept(Inodes, e, WriteFailed(e, n))
           /\ \A gen \in Nat : ClearedAt(Inodes, e, gen, Cleared(e, gen))
<1>1. Inodes \subseteq Nat \ {0} /\ Contents \subseteq Content /\ 0 .. MaxLen \subseteq Nat
  BY ConstantFacts, FuseHandlesAssumption
<1>2. \A off \in 0 .. MaxLen, fd \in Contents :
            Dirtied(Inodes, e, Written(e, off, <<NUL>>, fd))
  BY <1>1, WrittenFacts, BytesAssumption
<1>3. \A size \in 0 .. MaxLen, fd \in Contents :
            Kept(Inodes, e, TruncatedTo(e, size, fd))
  BY <1>1, TruncatedFacts
<1>4. \A gen \in Nat : ClearedAt(Inodes, e, gen, Cleared(e, gen))
  BY <1>1, ClearedFacts
<1>5. \A n \in 0 .. MaxLen : Kept(Inodes, e, WriteFailed(e, n))
  BY <1>1, WriteFailedFacts
<1> QED
  BY <1>2, <1>3, <1>4, <1>5

LEMMA NewEntryFacts ==
    ASSUME NEW f \in Files, NEW app \in Appends
    PROVE  /\ MadeFor(Inodes, InodeOf[f], NewDirect(InodeOf[f], FALSE, app))
           /\ \A content \in Contents \cup {<< >>}, trunc \in BOOLEAN :
                MadeFor(Inodes, InodeOf[f], NewBuffered(InodeOf[f], content, trunc, app))
<1>1. /\ Inodes \subseteq Nat \ {0} /\ InodeOf[f] \in Inodes
      /\ Contents \cup {<< >>} \subseteq Content /\ app \in BOOLEAN
  BY ConstantFacts, FuseHandlesAssumption, EmptySeq DEF Content
<1>2. MadeFor(Inodes, InodeOf[f], NewDirect(InodeOf[f], FALSE, app))
  BY <1>1, NewDirectFacts
<1>3. ASSUME NEW content \in Contents \cup {<< >>}, NEW trunc \in BOOLEAN
      PROVE  MadeFor(Inodes, InodeOf[f], NewBuffered(InodeOf[f], content, trunc, app))
  <2>1. content \in Content
    BY <1>1
  <2> QED
    BY <1>1, <2>1, NewBufferedFacts
<1> QED
  BY <1>2, <1>3

(* Snapshot leaves the worker with a typed request, about the same file.   *)
LEMMA SnapshotType ==
    ASSUME TypeOK, NEW t \in Threads, NEW r \in Requests, NEW mode,
           Snapshot(t, r, mode)
    PROVE  pc' \in [Threads -> Steps] /\ req' \in [Threads -> Requests]
<1> DEFINE e == handles[r.fh]
<1>1. e.dirty_gen \in Nat
  BY DEF TypeOK, Requests, Entries
<1>2. [r EXCEPT !.gen = e.dirty_gen] \in Requests
  BY <1>1 DEF Requests
<1>3. AfterFlush(r.op) \in Steps
  BY DEF AfterFlush, Steps
<1> QED
  BY <1>2, <1>3, RequestFacts DEF Snapshot, TypeOK, Steps

LEMMA FinishType ==
    ASSUME TypeOK, NEW t \in Threads, NEW ok \in BOOLEAN, Finish(t, ok)
    PROVE  /\ pc' \in [Threads -> Steps] /\ req' \in [Threads -> Requests]
           /\ unstored' \subseteq Fhs /\ stale' \subseteq Threads
<1>1. AfterFlush(req[t].op) \in Steps
  BY DEF AfterFlush, Steps
<1>2. [req[t] EXCEPT !.gen = 0, !.lock = 0, !.ok = ok] \in Requests
  BY DEF TypeOK, Requests
<1> QED
  BY <1>1, <1>2, RequestFacts DEF Finish, TypeOK

-----------------------------------------------------------------------------
LEMMA TypeInit == Init => TypeOK
BY VacantFacts, ConstantFacts, RequestFacts
   DEF Init, TypeOK, Steps

LEMMA TypeStep == TypeOK /\ [Next]_vars => TypeOK'
<1> SUFFICES ASSUME TypeOK, [Next]_vars PROVE TypeOK'
  OBVIOUS
<1> USE ConstantFacts
<1>1. ASSUME NEW f \in Files, OpenPassthrough(f) PROVE TypeOK'
  BY <1>1 DEF OpenPassthrough, TypeOK, inodevars, history
<1>2. ASSUME NEW f \in Files, NEW h \in Fhs, NEW e \in Entries(Inodes),
             InsertHandle(f, h, e),
             passthrough' \in BOOLEAN,
             UNCHANGED <<direct_io, inodevars, pc, req, history>>
      PROVE  TypeOK'
  BY <1>2 DEF InsertHandle, TypeOK, inodevars, history
<1>3. ASSUME NEW f \in Files, NEW h \in Fhs, NEW app \in Appends, OpenDirect(f, h, app)
      PROVE  TypeOK'
  <2>1. NewDirect(InodeOf[f], FALSE, app) \in Entries(Inodes)
    BY NewEntryFacts DEF MadeFor
  <2> QED
    BY <1>2, <1>3, <2>1 DEF OpenDirect
<1>4. ASSUME NEW f \in Files, NEW h \in Fhs, NEW app \in Appends, OpenBuffered(f, h, app)
      PROVE  TypeOK'
  <2>1. PICK content \in Contents :
            InsertHandle(f, h, NewBuffered(InodeOf[f], content, FALSE, app))
    BY <1>4 DEF OpenBuffered
  <2>2. NewBuffered(InodeOf[f], content, FALSE, app) \in Entries(Inodes)
    BY NewEntryFacts DEF MadeFor
  <2> QED
    BY <1>2, <1>4, <2>1, <2>2 DEF OpenBuffered, TypeOK
<1>5. ASSUME NEW f \in Files, NEW h \in Fhs, NEW trunc \in BOOLEAN, NEW app \in Appends,
             Create(f, h, trunc, app)
      PROVE  TypeOK'
  <2>1. NewBuffered(InodeOf[f], << >>, trunc, app) \in Entries(Inodes)
    BY NewEntryFacts DEF MadeFor
  <2> QED
    BY <1>2, <1>5, <2>1 DEF Create, TypeOK
<1>6. ASSUME NEW t \in Threads, NEW f \in Files, NEW off \in 0 .. MaxLen,
             NEW fd \in Contents, Write(t, f, off, fd)
      PROVE  TypeOK'
  <2> DEFINE h == ffh[f]
             e == Written(handles[h], off, <<NUL>>, fd)
  <2>1. h \in Fhs
    BY <1>6 DEF Write, IsOpen, TypeOK
  <2>2. e \in Entries(Inodes)
    <3>1. Dirtied(Inodes, handles[h], e)
      BY <2>1, EntryFacts DEF TypeOK
    <3> QED
      BY <3>1 DEF Dirtied
  <2>3. handles' \in [Fhs -> Entries(Inodes)]
    BY <1>6, <2>1, <2>2 DEF Write, TypeOK
  <2>4. [Request("write", f) EXCEPT !.fh = h] \in Requests
    BY <2>1, RequestFacts
  <2>5. pc' \in [Threads -> Steps] /\ req' \in [Threads -> Requests]
    BY <1>6, <2>4, ZenonT(40) DEF Write, TypeOK, Steps
  <2>6. unstored' \subseteq Fhs /\ stale' \subseteq Threads
    BY <1>6, <2>1 DEF Write, TypeOK
  <2> QED
    BY <1>6, <2>3, <2>5, <2>6 DEF Write, TypeOK, kernelvars, inodevars
<1>7. ASSUME NEW f \in Files, NEW n \in 0 .. MaxLen, WriteFails(f, n) PROVE TypeOK'
  <2>1. ffh[f] \in Fhs
    BY <1>7 DEF WriteFails, IsOpen, TypeOK
  <2>2. WriteFailed(handles[ffh[f]], n) \in Entries(Inodes)
    <3>1. Kept(Inodes, handles[ffh[f]], WriteFailed(handles[ffh[f]], n))
      BY <2>1, EntryFacts DEF TypeOK
    <3> QED
      BY <3>1 DEF Kept
  <2>3. handles' \in [Fhs -> Entries(Inodes)]
    BY <1>7, <2>1, <2>2 DEF WriteFails, TypeOK
  <2> QED
    BY <1>7, <2>3 DEF WriteFails, TypeOK, kernelvars, inodevars, history
<1>8. ASSUME NEW f \in Files, NEW size \in 0 .. MaxLen, NEW fd \in Contents,
             TruncateFile(f, size, fd)
      PROVE  TypeOK'
  <2>1. ffh[f] \in Fhs
    BY <1>8 DEF TruncateFile, IsOpen, TypeOK
  <2>2. TruncatedTo(handles[ffh[f]], size, fd) \in Entries(Inodes)
    <3>1. Kept(Inodes, handles[ffh[f]], TruncatedTo(handles[ffh[f]], size, fd))
      BY <2>1, EntryFacts DEF TypeOK
    <3> QED
      BY <3>1 DEF Kept
  <2> QED
    BY <1>8, <2>1, <2>2 DEF TruncateFile, TypeOK, kernelvars, inodevars, history
<1>9. ASSUME NEW i \in Inodes, NEW size \in 0 .. MaxLen, NEW fd \in Contents,
             TruncateInode(i, size, fd)
      PROVE  TypeOK'
  <2>1. \A h \in Fhs : TruncatedTo(handles[h], size, fd) \in Entries(Inodes)
    <3>1. \A h \in Fhs : Kept(Inodes, handles[h], TruncatedTo(handles[h], size, fd))
      BY EntryFacts DEF TypeOK
    <3> QED
      BY <3>1 DEF Kept
  <2> QED
    BY <1>9, <2>1 DEF TruncateInode, TypeOK, kernelvars, inodevars, history
<1>10. ASSUME NEW t \in Threads, FlushWrite(t) PROVE TypeOK'
  BY <1>10, SnapshotType DEF FlushWrite, TypeOK, kernelvars, inodevars, history
<1>11. ASSUME NEW t \in Threads, NEW f \in Files, Flush(t, f) \/ Release(t, f)
       PROVE  TypeOK'
  <2>1. ffh[f] \in Fhs
    BY <1>11 DEF Flush, Release, IsOpen, TypeOK
  <2>2. /\ [Request("flush", f) EXCEPT !.fh = ffh[f]] \in Requests
        /\ [Request("release", f) EXCEPT !.fh = ffh[f]] \in Requests
    BY <2>1, RequestFacts
  <2>3. pc' \in [Threads -> Steps] /\ req' \in [Threads -> Requests]
    BY <1>11, <2>2, SnapshotType DEF Flush, Release
  <2> QED
    BY <1>11, <2>3 DEF Flush, Release, TypeOK, kernelvars, inodevars, history
<1>12. ASSUME NEW t \in Threads, GetLock(t) PROVE TypeOK'
  <2>1. PICK m \in Locks :
            /\ write_locks' = [write_locks EXCEPT ![req[t].ino] = m]
            /\ req' = [req EXCEPT ![t].lock = m]
    BY <1>12 DEF GetLock
  <2>2. [req[t] EXCEPT !.lock = m] \in Requests
    BY ZenonT(40) DEF TypeOK, Requests
  <2>3. req' \in [Threads -> Requests] /\ write_locks' \in [Inodes -> Locks \cup {0}]
    <3>1. req' = [req EXCEPT ![t] = [req[t] EXCEPT !.lock = m]]
      BY <2>1
    <3> QED
      BY <2>1, <2>2, <3>1 DEF TypeOK
  <2>4. pc' \in [Threads -> Steps]
    BY <1>12 DEF GetLock, TypeOK, Steps
  <2> QED
    BY <1>12, <2>3, <2>4 DEF GetLock, TypeOK, kernelvars, history
<1>13. ASSUME NEW t \in Threads, Lock(t) PROVE TypeOK'
  BY <1>13 DEF Lock, TypeOK, Steps, kernelvars, inodevars, history
<1>14. ASSUME NEW t \in Threads, StoreWrite(t) PROVE TypeOK'
  <2>1. req[t].fh \in Fhs
    BY DEF TypeOK, Requests
  <2> QED
    BY <1>14, <2>1 DEF StoreWrite, TypeOK, Steps, kernelvars, inodevars
<1>15. ASSUME NEW t \in Threads, ClearDirty(t) PROVE TypeOK'
  <2>1. req[t].fh \in Fhs /\ req[t].gen \in Nat
    BY DEF TypeOK, Requests
  <2>2. Cleared(handles[req[t].fh], req[t].gen) \in Entries(Inodes)
    <3>1. ClearedAt(Inodes, handles[req[t].fh], req[t].gen, Cleared(handles[req[t].fh], req[t].gen))
      BY <2>1, EntryFacts DEF TypeOK
    <3> QED
      BY <3>1 DEF ClearedAt
  <2> QED
    BY <1>15, <2>1, <2>2, FinishType DEF ClearDirty, TypeOK, kernelvars
<1>16. ASSUME NEW t \in Threads, FlushFails(t) PROVE TypeOK'
  <2>1. req[t].ino \in Inodes
    BY DEF TypeOK, Requests
  <2> QED
    BY <1>16, <2>1, FinishType DEF FlushFails, TypeOK, kernelvars
<1>17. ASSUME NEW t \in Threads, DropHandle(t) PROVE TypeOK'
  BY <1>17, VacantFacts DEF DropHandle, TypeOK, Steps, kernelvars, inodevars
<1>18. ASSUME NEW t \in Threads, CheckLastHandle(t) PROVE TypeOK'
  BY <1>18, RequestFacts DEF CheckLastHandle, TypeOK, Steps, kernelvars, inodevars, history
<1>19. ASSUME NEW t \in Threads, Evict(t) PROVE TypeOK'
  <2>1. req[t].ino \in Inodes
    BY DEF TypeOK, Requests
  <2> QED
    BY <1>19, <2>1, RequestFacts DEF Evict, TypeOK, Steps, kernelvars, history
<1>20. CASE UNCHANGED vars
  BY <1>20 DEF vars, TypeOK
<1> QED
  BY <1>1, <1>3, <1>4, <1>5, <1>6, <1>7, <1>8, <1>9, <1>10, <1>11, <1>12, <1>13,
     <1>14, <1>15, <1>16, <1>17, <1>18, <1>19, <1>20
     DEF Next, AtOnce, Begin, Proceed

(* Every variable of the handle table and of the flush pipeline keeps its  *)
(* type, whatever the workers, the files and the kernel's choices.         *)
THEOREM TypeCorrect == Spec => []TypeOK
<1>1. QED
  BY TypeInit, TypeStep, PTL DEF Spec

-----------------------------------------------------------------------------
(* Who owns an fh.  The steps fall in five groups: a request in progress   *)
(* moves on or is answered (Advances), a write or flush begins, a release  *)
(* begins, a handle is inserted, a handle is dropped.                      *)

SameInodes == \A h \in Fhs : handles'[h].inode = handles[h].inode

Answered(t) ==
    /\ pc'[t] = "idle" /\ req'[t].op = "none"
    /\ req'[t].ino = InodeOf[req'[t].file]

MovesOn(t) ==
    /\ req[t].op # "none" /\ pc'[t] # "idle"
    /\ req'[t].op = req[t].op /\ req'[t].file = req[t].file
    /\ req'[t].ino = req[t].ino /\ req'[t].fh = req[t].fh
    /\ Uses(t)' => Uses(t)
    /\ pc'[t] = "snap" => req[t].op = "write"
    /\ pc'[t] \in {"drop", "check", "evict"} => req[t].op = "release"

Stays(t) == pc'[t] = pc[t] /\ req'[t] = req[t]

Advances(t) == Answered(t) \/ MovesOn(t) \/ Stays(t)

LEMMA AdvanceKeepsOwnership ==
    ASSUME Ownership, TypeOK', SameInodes, UNCHANGED kernelvars,
           \A t \in Threads : Advances(t)
    PROVE  Ownership'
<1>1. direct_io' = {} /\ ffh' = ffh
  BY DEF Ownership, kernelvars
<1>2. StepsFitRequests'
  BY DEF Ownership, StepsFitRequests, Advances, Answered, MovesOn, Stays
<1>3. UsersKeepOpen'
  BY <1>1 DEF Ownership, UsersKeepOpen, Advances, Answered, MovesOn, Stays
<1>4. ASSUME NEW t \in Threads, Uses(t)'
      PROVE  Uses(t) /\ req'[t].op = req[t].op /\ req'[t].file = req[t].file
             /\ req'[t].ino = req[t].ino /\ req'[t].fh = req[t].fh
  BY <1>4 DEF Advances, Answered, MovesOn, Stays, Uses
<1>5. \A f \in Files : ffh[f] # NoFh => ffh[f] \in Fhs
  BY DEF Ownership, TypeOK
<1>6. \A t \in Threads : req[t].fh \in Fhs
  BY DEF Ownership, TypeOK, Requests
<1>7. HandleIdentity'
  BY <1>1, <1>4, <1>5, <1>6 DEF Ownership, HandleIdentity, SameInodes, IsOpen
<1> QED
  BY <1>1, <1>2, <1>3, <1>7 DEF Ownership

LEMMA WriteOrFlushKeepsOwnership ==
    ASSUME Ownership, TypeOK', SameInodes, UNCHANGED kernelvars,
           NEW t \in Threads, NEW f \in Files, IsOpen(f), pc[t] = "idle",
           \A u \in Threads \ {t} : Stays(u),
           req'[t].op \in {"write", "flush"}, req'[t].file = f,
           req'[t].ino = InodeOf[f], req'[t].fh = ffh[f],
           pc'[t] \in {"snap", "getlock"}, pc'[t] = "snap" => req'[t].op = "write"
    PROVE  Ownership'
<1>1. direct_io' = {} /\ ffh' = ffh
  BY DEF Ownership, kernelvars
<1>2. StepsFitRequests'
  BY DEF Ownership, StepsFitRequests, Stays
<1>3. UsersKeepOpen'
  BY <1>1 DEF Ownership, UsersKeepOpen, Stays
<1>4. ASSUME NEW u \in Threads, Uses(u)'
      PROVE  u = t \/ (Uses(u) /\ req'[u] = req[u])
  BY <1>4 DEF Stays, Uses
<1>5. \A g \in Files : ffh[g] # NoFh => ffh[g] \in Fhs
  BY DEF Ownership, TypeOK
<1>6. \A u \in Threads : req[u].fh \in Fhs
  BY DEF Ownership, TypeOK, Requests
<1>7. ~Uses(t)
  BY DEF Ownership, StepsFitRequests, Uses
<1>8. HandleIdentity'
  <2>1. /\ \A g \in Files : IsOpen(g)' => handles'[ffh'[g]].inode = InodeOf[g]
        /\ \A g, k \in Files : IsOpen(g)' /\ ffh'[g] = ffh'[k] => g = k
    BY <1>1, <1>5 DEF Ownership, HandleIdentity, SameInodes, IsOpen
  <2>2. \A u \in Threads : Uses(u)' => handles'[req'[u].fh].inode = req'[u].ino
    BY <1>1, <1>4, <1>5, <1>6 DEF Ownership, HandleIdentity, SameInodes, IsOpen
  <2>3. \A u \in Threads, g \in Files :
            Uses(u)' /\ IsOpen(g)' /\ ffh'[g] = req'[u].fh
                => req'[u].op # "release" /\ req'[u].file = g
    BY <1>1, <1>4 DEF Ownership, HandleIdentity, IsOpen
  <2>4. \A u, v \in Threads :
            Uses(u)' /\ Uses(v)' /\ req'[u].fh = req'[v].fh /\ req'[u].op = "release"
                => u = v
    BY <1>4 DEF Ownership, HandleIdentity, IsOpen
  <2> QED
    BY <2>1, <2>2, <2>3, <2>4 DEF HandleIdentity
<1> QED
  BY <1>1, <1>2, <1>3, <1>8 DEF Ownership

LEMMA ReleaseKeepsOwnership ==
    ASSUME Ownership, TypeOK', SameInodes,
           NEW t \in Threads, NEW f \in Files, IsOpen(f), ~InFlight(f), pc[t] = "idle",
           ffh' = [ffh EXCEPT ![f] = NoFh], direct_io' = direct_io \ {f},
           \A u \in Threads \ {t} : Stays(u),
           req'[t].op = "release", req'[t].file = f,
           req'[t].ino = InodeOf[f], req'[t].fh = ffh[f],
           pc'[t] \in {"getlock", "drop"}
    PROVE  Ownership'
<1>1. /\ direct_io' = {}
      /\ \A g \in Files : ffh'[g] = IF g = f THEN NoFh ELSE ffh[g]
  BY DEF Ownership, TypeOK
<1>2. StepsFitRequests'
  BY DEF Ownership, StepsFitRequests, Stays
<1>3. \A u \in Threads : req[u].op \in {"write", "flush"} => req[u].file # f
  BY DEF InFlight
<1>4. \A u \in Threads : req'[u].file \in Files
  BY DEF TypeOK, Requests
<1>5. UsersKeepOpen'
  BY <1>1, <1>3, <1>4 DEF Ownership, UsersKeepOpen, Stays
<1>6. ASSUME NEW u \in Threads, Uses(u)'
      PROVE  u = t \/ (u # t /\ Uses(u) /\ req'[u] = req[u])
  BY <1>6 DEF Stays, Uses
<1>7. \A g \in Files : ffh[g] # NoFh => ffh[g] \in Fhs
  BY DEF Ownership, TypeOK
<1>8. \A u \in Threads : req[u].fh \in Fhs
  BY DEF Ownership, TypeOK, Requests
<1>9. HandleIdentity'
  <2>1. /\ \A g \in Files : IsOpen(g)' => handles'[ffh'[g]].inode = InodeOf[g]
        /\ \A g, k \in Files : IsOpen(g)' /\ ffh'[g] = ffh'[k] => g = k
    BY <1>1, <1>7 DEF Ownership, HandleIdentity, SameInodes, IsOpen
  <2>2. \A u \in Threads : Uses(u)' => handles'[req'[u].fh].inode = req'[u].ino
    BY <1>6, <1>7, <1>8 DEF Ownership, HandleIdentity, SameInodes, IsOpen
  <2>3. \A u \in Threads, g \in Files :
            Uses(u)' /\ IsOpen(g)' /\ ffh'[g] = req'[u].fh
                => req'[u].op # "release" /\ req'[u].file = g
    BY <1>1, <1>6 DEF Ownership, HandleIdentity, IsOpen
  <2>4. \A u \in Threads : Uses(u) => req[u].fh # ffh[f]
    BY <1>3 DEF Ownership, HandleIdentity, Uses
  <2>5. \A u, v \in Threads :
            Uses(u)' /\ Uses(v)' /\ req'[u].fh = req'[v].fh /\ req'[u].op = "release"
                => u = v
    BY <1>6, <2>4 DEF Ownership, HandleIdentity
  <2> QED
    BY <2>1, <2>2, <2>3, <2>5 DEF HandleIdentity
<1> QED
  BY <1>1, <1>2, <1>5, <1>9 DEF Ownership

LEMMA InsertKeepsOwnership ==
    ASSUME Ownership, TypeOK', NEW f \in Files, NEW h \in Fhs, NEW e \in Entries(Inodes),
           ~IsOpen(f), e.inode = InodeOf[f], InsertHandle(f, h, e),
           UNCHANGED <<direct_io, pc, req>>
    PROVE  Ownership'
<1>1. /\ handles[h].inode = 0
      /\ \A k \in Fhs : handles'[k] = IF k = h THEN e ELSE handles[k]
      /\ \A g \in Files : ffh'[g] = IF g = f THEN h ELSE ffh[g]
  BY VacantFacts, ConstantFacts DEF InsertHandle, VacantFh, Ownership, TypeOK
<1>2. StepsFitRequests' /\ direct_io' = {}
  BY DEF Ownership, StepsFitRequests
<1>3. \A g \in Files : ffh[g] # NoFh => ffh[g] \in Fhs /\ ffh[g] # h
  BY <1>1, ConstantFacts DEF Ownership, HandleIdentity, IsOpen, TypeOK
<1>4. \A u \in Threads : Uses(u) => req[u].fh \in Fhs /\ req[u].fh # h
  BY <1>1, ConstantFacts DEF Ownership, HandleIdentity, TypeOK, Requests
<1>5. \A u \in Threads : Uses(u)' <=> Uses(u)
  BY DEF Uses
<1>6. h # NoFh
  BY ConstantFacts
<1>7. UsersKeepOpen'
  <2>1. \A u \in Threads : req[u].op \in {"write", "flush"} => req[u].file # f
    BY DEF Ownership, UsersKeepOpen, IsOpen, TypeOK, Requests, NoFh, Fhs
  <2> QED
    BY <1>1, <2>1 DEF Ownership, UsersKeepOpen, TypeOK, Requests
<1>8. HandleIdentity'
  BY <1>1, <1>3, <1>4, <1>5, <1>6 DEF Ownership, HandleIdentity, IsOpen
<1> QED
  BY <1>2, <1>7, <1>8 DEF Ownership

LEMMA DropKeepsOwnership ==
    ASSUME Ownership, TypeOK', NEW t \in Threads, DropHandle(t)
    PROVE  Ownership'
<1> DEFINE h == req[t].fh
<1>1. /\ h \in Fhs /\ req[t].op = "release" /\ Uses(t)
      /\ \A k \in Fhs : k # h => handles'[k] = handles[k]
  BY DEF DropHandle, Ownership, TypeOK, Requests, StepsFitRequests, Uses
<1>2. direct_io' = {} /\ ffh' = ffh /\ req' = req
  BY DEF DropHandle, Ownership, kernelvars
<1>3. \A u \in Threads : pc'[u] = IF u = t THEN "check" ELSE pc[u]
  BY DEF DropHandle, Ownership, TypeOK
<1>4. StepsFitRequests'
  BY <1>1, <1>2, <1>3 DEF Ownership, StepsFitRequests
<1>5. UsersKeepOpen'
  BY <1>2 DEF Ownership, UsersKeepOpen
<1>6. \A g \in Files : ffh[g] # NoFh => ffh[g] \in Fhs /\ ffh[g] # h
  BY <1>1 DEF Ownership, HandleIdentity, IsOpen, TypeOK
<1>7. \A u \in Threads : Uses(u)' => Uses(u) /\ req[u].fh \in Fhs /\ req[u].fh # h
  BY <1>1, <1>2, <1>3 DEF Ownership, HandleIdentity, Uses, TypeOK, Requests
<1>8. HandleIdentity'
  BY <1>1, <1>2, <1>6, <1>7 DEF Ownership, HandleIdentity, IsOpen
<1> QED
  BY <1>2, <1>4, <1>5, <1>8 DEF Ownership

(* What a snapshot and the end of a flush leave worker t with.             *)
LEMMA SnapshotEffect ==
    ASSUME TypeOK, NEW t \in Threads, NEW r \in Requests, NEW mode,
           r.op \in {"write", "flush", "release"}, Snapshot(t, r, mode)
    PROVE  /\ \A u \in Threads \ {t} : Stays(u)
           /\ \/ /\ pc'[t] = "getlock"
                 /\ req'[t].op = r.op /\ req'[t].file = r.file
                 /\ req'[t].ino = r.ino /\ req'[t].fh = r.fh
                 /\ req'[t].gen = handles[r.fh].dirty_gen
                 /\ handles[r.fh].dirty_gen > 0
              \/ /\ pc'[t] = "drop" /\ req'[t] = r /\ r.op = "release"
                 /\ ~MustFlush(handles[r.fh], mode)
              \/ pc'[t] = "idle" /\ req'[t] = IdleReq /\ r.op # "release"
<1> DEFINE e == handles[r.fh]
<1>1. \A u \in Threads \ {t} : Stays(u)
  BY DEF Snapshot, Stays, TypeOK
<1>2. CASE MustFlush(e, mode)
  <2>1. pc'[t] = "getlock" /\ req'[t] = [r EXCEPT !.gen = e.dirty_gen]
    BY <1>2 DEF Snapshot, TypeOK
  <2>2. e.dirty_gen > 0
    BY <1>2 DEF MustFlush, IsDirty
  <2>3. /\ req'[t].op = r.op /\ req'[t].file = r.file /\ req'[t].ino = r.ino
        /\ req'[t].fh = r.fh /\ req'[t].gen = e.dirty_gen
    BY <2>1 DEF Requests
  <2> QED
    BY <1>1, <2>1, <2>2, <2>3
<1>3. CASE ~MustFlush(e, mode)
  <2>1. /\ pc'[t] = AfterFlush(r.op)
        /\ req'[t] = IF r.op = "release" THEN r ELSE IdleReq
    BY <1>3 DEF Snapshot, TypeOK
  <2> QED
    BY <1>1, <1>3, <2>1 DEF AfterFlush
<1> QED
  BY <1>2, <1>3

LEMMA FinishEffect ==
    ASSUME TypeOK, NEW t \in Threads, NEW ok \in BOOLEAN, Finish(t, ok)
    PROVE  /\ \A u \in Threads \ {t} : Stays(u)
           /\ IF req[t].op = "release"
              THEN /\ pc'[t] = "drop"
                   /\ req'[t].op = "release" /\ req'[t].file = req[t].file
                   /\ req'[t].ino = req[t].ino /\ req'[t].fh = req[t].fh
                   /\ req'[t].ok = ok
              ELSE pc'[t] = "idle" /\ req'[t] = IdleReq
<1>1. \A u \in Threads \ {t} : Stays(u)
  BY DEF Finish, Stays, TypeOK
<1>2. CASE req[t].op = "release"
  <2>1. /\ pc'[t] = "drop"
        /\ req'[t] = [req[t] EXCEPT !.gen = 0, !.lock = 0, !.ok = ok]
    BY <1>2 DEF Finish, AfterFlush, TypeOK
  <2> QED
    BY <1>1, <1>2, <2>1 DEF TypeOK, Requests
<1>3. CASE req[t].op # "release"
  BY <1>1, <1>3 DEF Finish, AfterFlush, TypeOK
<1> QED
  BY <1>2, <1>3

(* The steps of a request once it is under way, and those that only touch  *)
(* the content of handles.                                                 *)
LEMMA ProceedAdvances ==
    ASSUME Ownership, NEW t \in Threads, Proceed(t), ~DropHandle(t)
    PROVE  SameInodes /\ UNCHANGED kernelvars /\ \A u \in Threads : Advances(u)
<1> USE DEF Advances
<1>1. /\ TypeOK /\ req[t] \in Requests /\ req[t].ino = InodeOf[req[t].file]
      /\ pc[t] = "idle" <=> req[t].op = "none"
  BY DEF Ownership, TypeOK, StepsFitRequests
<1>2. CASE FlushWrite(t)
  <2>1. pc[t] = "snap" /\ req[t].op = "write" /\ Snapshot(t, req[t], "Final")
    BY <1>2 DEF FlushWrite, Ownership, StepsFitRequests
  <2>2. Answered(t) \/ MovesOn(t)
    BY <1>1, <2>1, SnapshotEffect, RequestFacts DEF Answered, MovesOn, Uses
  <2> QED
    BY <1>1, <1>2, <2>1, <2>2, SnapshotEffect DEF FlushWrite, SameInodes
<1>3. CASE GetLock(t)
  <2>1. PICK m \in Locks : req' = [req EXCEPT ![t].lock = m]
    BY <1>3 DEF GetLock
  <2>2. /\ \A u \in Threads \ {t} : Stays(u)
        /\ pc'[t] = "lock"
        /\ req'[t].op = req[t].op /\ req'[t].file = req[t].file
        /\ req'[t].ino = req[t].ino /\ req'[t].fh = req[t].fh
    BY <1>1, <1>3, <2>1 DEF GetLock, Stays, TypeOK, Requests
  <2>3. MovesOn(t)
    BY <1>1, <1>3, <2>2 DEF GetLock, MovesOn, Uses
  <2> QED
    BY <1>3, <2>2, <2>3 DEF GetLock, SameInodes
<1>4. CASE Lock(t) \/ StoreWrite(t)
  <2>1. /\ \A u \in Threads \ {t} : Stays(u)
        /\ pc[t] \in {"lock", "flush"} /\ pc'[t] \in {"flush", "clear"} /\ req' = req
    BY <1>1, <1>4 DEF Lock, StoreWrite, Stays, TypeOK
  <2>2. MovesOn(t)
    BY <1>1, <2>1 DEF MovesOn, Uses
  <2> QED
    BY <1>4, <2>1, <2>2 DEF Lock, StoreWrite, SameInodes
<1>5. CASE ClearDirty(t) \/ FlushFails(t)
  <2>1. PICK ok \in BOOLEAN : Finish(t, ok)
    BY <1>5 DEF ClearDirty, FlushFails
  <2>2. pc[t] \in {"clear", "flush"}
    BY <1>5 DEF ClearDirty, FlushFails
  <2>3. Answered(t) \/ MovesOn(t)
    BY <1>1, <2>1, <2>2, FinishEffect, RequestFacts DEF Answered, MovesOn, Uses
  <2>4. SameInodes
    <3>1. req[t].fh \in Fhs /\ req[t].gen \in Nat
      BY <1>1 DEF Requests
    <3>2. Cleared(handles[req[t].fh], req[t].gen).inode = handles[req[t].fh].inode
      <4>1. ClearedAt(Inodes, handles[req[t].fh], req[t].gen, Cleared(handles[req[t].fh], req[t].gen))
        BY <1>1, <3>1, EntryFacts DEF TypeOK
      <4> QED
        BY <4>1 DEF ClearedAt
    <3>3. \/ handles' = handles
          \/ handles' = [handles EXCEPT
                           ![req[t].fh] = Cleared(handles[req[t].fh], req[t].gen)]
      BY <1>5 DEF ClearDirty, FlushFails
    <3> QED
      BY <1>1, <3>1, <3>2, <3>3 DEF SameInodes, TypeOK
  <2> QED
    BY <1>1, <1>5, <2>1, <2>3, <2>4, FinishEffect DEF ClearDirty, FlushFails
<1>6. CASE CheckLastHandle(t)
  <2>1. /\ \A u \in Threads \ {t} : Stays(u)
        /\ pc[t] = "check"
        /\ \/ pc'[t] = "evict" /\ req'[t] = req[t]
           \/ pc'[t] = "idle" /\ req'[t] = IdleReq
    BY <1>1, <1>6 DEF CheckLastHandle, Stays, TypeOK
  <2>2. Answered(t) \/ MovesOn(t)
    BY <1>1, <2>1, RequestFacts
    DEF Answered, MovesOn, Uses, Ownership, StepsFitRequests
  <2> QED
    BY <1>6, <2>1, <2>2 DEF CheckLastHandle, SameInodes
<1>7. CASE Evict(t)
  <2>1. /\ \A u \in Threads \ {t} : Stays(u)
        /\ pc'[t] = "idle" /\ req'[t] = IdleReq
    BY <1>1, <1>7 DEF Evict, Stays, TypeOK
  <2> QED
    BY <1>7, <2>1, RequestFacts DEF Evict, SameInodes, Answered
<1> QED
  BY <1>2, <1>3, <1>4, <1>5, <1>6, <1>7 DEF Proceed

LEMMA OwnershipStep ==
    ASSUME ~KernelPassthrough, Ownership, [Next]_vars
    PROVE  Ownership'
<1> USE ConstantFacts
<1>1. TypeOK' /\ TypeOK
  BY TypeStep DEF Ownership
<1>2. ASSUME NEW f \in Files, NEW h \in Fhs, NEW e \in Entries(Inodes),
             ~IsOpen(f), e.inode = InodeOf[f], InsertHandle(f, h, e),
             UNCHANGED <<direct_io, pc, req>>
      PROVE  Ownership'
  BY <1>1, <1>2, InsertKeepsOwnership
<1>3. ASSUME NEW f \in Files, NEW h \in Fhs, NEW app \in Appends, OpenDirect(f, h, app)
      PROVE  Ownership'
  <2> DEFINE e == NewDirect(InodeOf[f], FALSE, app)
  <2>1. e \in Entries(Inodes) /\ e.inode = InodeOf[f]
    BY NewEntryFacts DEF MadeFor
  <2> QED
    BY <1>2, <1>3, <2>1 DEF OpenDirect
<1>4. ASSUME NEW f \in Files, NEW h \in Fhs, NEW app \in Appends, OpenBuffered(f, h, app)
      PROVE  Ownership'
  <2>1. PICK content \in Contents :
            InsertHandle(f, h, NewBuffered(InodeOf[f], content, FALSE, app))
    BY <1>4 DEF OpenBuffered
  <2> DEFINE e == NewBuffered(InodeOf[f], content, FALSE, app)
  <2>2. e \in Entries(Inodes) /\ e.inode = InodeOf[f]
    BY NewEntryFacts DEF MadeFor
  <2> QED
    BY <1>2, <1>4, <2>1, <2>2 DEF OpenBuffered
<1>5. ASSUME NEW f \in Files, NEW h \in Fhs, NEW trunc \in BOOLEAN, NEW app \in Appends,
             Create(f, h, trunc, app)
      PROVE  Ownership'
  <2> DEFINE e == NewBuffered(InodeOf[f], << >>, trunc, app)
  <2>1. e \in Entries(Inodes) /\ e.inode = InodeOf[f]
    BY NewEntryFacts DEF MadeFor
  <2> QED
    BY <1>2, <1>5, <2>1 DEF Create
<1>6. ASSUME NEW f \in Files, OpenPassthrough(f) PROVE Ownership'
  BY <1>6 DEF OpenPassthrough
<1>7. ASSUME SameInodes, UNCHANGED <<kernelvars, pc, req>> PROVE Ownership'
  <2>1. \A t \in Threads : Advances(t)
    BY <1>7 DEF Advances, Stays
  <2> QED
    BY <1>1, <1>7, <2>1, AdvanceKeepsOwnership
<1>8. ASSUME NEW f \in Files, NEW n \in 0 .. MaxLen, WriteFails(f, n) PROVE Ownership'
  <2>1. ffh[f] \in Fhs
    BY <1>1, <1>8 DEF WriteFails, IsOpen, TypeOK
  <2>2. WriteFailed(handles[ffh[f]], n).inode = handles[ffh[f]].inode
    <3>1. Kept(Inodes, handles[ffh[f]], WriteFailed(handles[ffh[f]], n))
      BY <1>1, <2>1, EntryFacts DEF TypeOK
    <3> QED
      BY <3>1 DEF Kept
  <2>3. SameInodes
    BY <1>1, <1>8, <2>1, <2>2 DEF WriteFails, SameInodes, TypeOK
  <2> QED
    BY <1>7, <1>8, <2>3 DEF WriteFails
<1>9. ASSUME NEW f \in Files, NEW size \in 0 .. MaxLen, NEW fd \in Contents,
             TruncateFile(f, size, fd)
      PROVE  Ownership'
  <2>1. ffh[f] \in Fhs
    BY <1>1, <1>9 DEF TruncateFile, IsOpen, TypeOK
  <2>2. LET r == TruncatedTo(handles[ffh[f]], size, fd)
        IN r \in Entries(Inodes) /\ r.inode = handles[ffh[f]].inode
    <3>1. Kept(Inodes, handles[ffh[f]], TruncatedTo(handles[ffh[f]], size, fd))
      BY <1>1, <2>1, EntryFacts DEF TypeOK
    <3> QED
      BY <3>1 DEF Kept
  <2>3. SameInodes
    BY <1>1, <1>9, <2>1, <2>2 DEF TruncateFile, SameInodes, TypeOK
  <2> QED
    BY <1>7, <1>9, <2>3 DEF TruncateFile
<1>10. ASSUME NEW i \in Inodes, NEW size \in 0 .. MaxLen, NEW fd \in Contents,
             TruncateInode(i, size, fd)
       PROVE  Ownership'
  <2>1. \A h \in Fhs : TruncatedTo(handles[h], size, fd).inode = handles[h].inode
    <3>1. \A h \in Fhs : Kept(Inodes, handles[h], TruncatedTo(handles[h], size, fd))
      BY <1>1, EntryFacts DEF TypeOK
    <3> QED
      BY <3>1 DEF Kept
  <2>2. SameInodes
    BY <1>10, <2>1 DEF TruncateInode, SameInodes
  <2> QED
    BY <1>7, <1>10, <2>2 DEF TruncateInode
<1>11. ASSUME NEW t \in Threads, NEW f \in Files, NEW off \in 0 .. MaxLen,
              NEW fd \in Contents, Write(t, f, off, fd)
       PROVE  Ownership'
  <2> DEFINE h == ffh[f]
             e == Written(handles[h], off, <<NUL>>, fd)
             r == [Request("write", f) EXCEPT !.fh = h]
  <2>1. h \in Fhs /\ IsOpen(f) /\ pc[t] = "idle" /\ UNCHANGED kernelvars
    BY <1>1, <1>11 DEF Write, IsOpen, TypeOK
  <2>2. e \in Entries(Inodes) /\ e.inode = handles[h].inode
    <3>1. Dirtied(Inodes, handles[h], e)
      BY <1>1, <2>1, EntryFacts DEF TypeOK
    <3> QED
      BY <3>1 DEF Dirtied
  <2>3. SameInodes
    BY <1>1, <1>11, <2>1, <2>2 DEF Write, SameInodes, TypeOK
  <2>4. CASE IsReplacement(handles[h])
    <3>1. pc' = [pc EXCEPT ![t] = "snap"] /\ req' = [req EXCEPT ![t] = r]
      BY <1>11, <2>4 DEF Write
    <3>2. /\ \A u \in Threads \ {t} : Stays(u)
          /\ pc'[t] = "snap" /\ req'[t] = r
      BY <1>1, <3>1 DEF Stays, TypeOK
    <3>3. r \in Requests /\ r.op = "write" /\ r.file = f /\ r.ino = InodeOf[f]
          /\ r.fh = ffh[f]
      BY <2>1, RequestFacts
    <3> HIDE DEF r
    <3> QED
      BY <1>1, <2>1, <2>3, <3>2, <3>3, WriteOrFlushKeepsOwnership
  <2>5. CASE ~IsReplacement(handles[h])
    BY <1>7, <1>11, <2>1, <2>3, <2>5 DEF Write
  <2> QED
    BY <2>4, <2>5
<1>12. ASSUME NEW t \in Threads, NEW f \in Files, Flush(t, f) PROVE Ownership'
  <2> DEFINE r == [Request("flush", f) EXCEPT !.fh = ffh[f]]
  <2>1. ffh[f] \in Fhs /\ IsOpen(f) /\ pc[t] = "idle" /\ UNCHANGED kernelvars
        /\ SameInodes /\ Snapshot(t, r, "Eager")
    BY <1>1, <1>12 DEF Flush, IsOpen, TypeOK, SameInodes
  <2>2. r \in Requests /\ r.op = "flush" /\ r.file = f /\ r.ino = InodeOf[f]
        /\ r.fh = ffh[f]
    BY <2>1, RequestFacts
  <2> HIDE DEF r
  <2>3. /\ \A u \in Threads \ {t} : Stays(u)
        /\ \/ /\ pc'[t] = "getlock"
              /\ req'[t].op = "flush" /\ req'[t].file = f
              /\ req'[t].ino = InodeOf[f] /\ req'[t].fh = ffh[f]
           \/ pc'[t] = "idle" /\ req'[t] = IdleReq
    BY <1>1, <2>1, <2>2, SnapshotEffect
  <2>4. CASE pc'[t] = "getlock"
    BY <1>1, <2>1, <2>3, <2>4, WriteOrFlushKeepsOwnership
  <2>5. CASE pc'[t] = "idle"
    <3>1. \A u \in Threads : Advances(u)
      BY <2>3, <2>5, RequestFacts DEF Advances, Answered
    <3> QED
      BY <1>1, <2>1, <3>1, AdvanceKeepsOwnership
  <2> QED
    BY <2>3, <2>4, <2>5
<1>13. ASSUME NEW t \in Threads, NEW f \in Files, Release(t, f) PROVE Ownership'
  <2> DEFINE r == [Request("release", f) EXCEPT !.fh = ffh[f]]
  <2>1. /\ ffh[f] \in Fhs /\ IsOpen(f) /\ pc[t] = "idle" /\ ~InFlight(f)
        /\ SameInodes /\ Snapshot(t, r, "Final")
        /\ ffh' = [ffh EXCEPT ![f] = NoFh] /\ direct_io' = direct_io \ {f}
    BY <1>1, <1>13 DEF Release, IsOpen, TypeOK, SameInodes
  <2>2. r \in Requests /\ r.op = "release" /\ r.file = f /\ r.ino = InodeOf[f]
        /\ r.fh = ffh[f]
    BY <2>1, RequestFacts
  <2> HIDE DEF r
  <2>3. /\ \A u \in Threads \ {t} : Stays(u)
        /\ pc'[t] \in {"getlock", "drop"}
        /\ req'[t].op = "release" /\ req'[t].file = f
        /\ req'[t].ino = InodeOf[f] /\ req'[t].fh = ffh[f]
    BY <1>1, <2>1, <2>2, SnapshotEffect
  <2> QED
    BY <1>1, <2>1, <2>3, ReleaseKeepsOwnership
<1>14. ASSUME NEW t \in Threads, Proceed(t) PROVE Ownership'
  <2>1. CASE DropHandle(t)
    BY <1>1, <2>1, DropKeepsOwnership
  <2>2. CASE ~DropHandle(t)
    BY <1>1, <1>14, <2>2, ProceedAdvances, AdvanceKeepsOwnership
  <2> QED
    BY <2>1, <2>2
<1>15. CASE UNCHANGED vars
  BY <1>7, <1>15 DEF vars, SameInodes, kernelvars
<1> QED
  BY <1>3, <1>4, <1>5, <1>6, <1>8, <1>9, <1>10, <1>11, <1>12, <1>13, <1>14, <1>15
     DEF Next, AtOnce, Begin

LEMMA OwnershipInit == Init => Ownership
<1> SUFFICES ASSUME Init PROVE Ownership
  OBVIOUS
<1>1. TypeOK
  BY TypeInit
<1>2. direct_io = {} /\ StepsFitRequests /\ UsersKeepOpen
  BY RequestFacts DEF Init, StepsFitRequests, UsersKeepOpen
<1>3. HandleIdentity
  BY RequestFacts DEF Init, HandleIdentity, IsOpen, Uses
<1> QED
  BY <1>1, <1>2, <1>3 DEF Ownership

(* Without kernel passthrough, an fh means the file it was handed out for, *)
(* in the kernel and in every request in progress, as slab indices are     *)
(* reused and whatever releases, opens and flushes overlap.                *)
THEOREM HandlesKeepIdentity ==
    ASSUME ~KernelPassthrough
    PROVE  Spec => []HandleIdentity
<1>1. Ownership /\ [Next]_vars => Ownership'
  BY OwnershipStep
<1>2. Ownership => HandleIdentity
  BY DEF Ownership
<1> QED
  BY OwnershipInit, <1>1, <1>2, PTL DEF Spec

-----------------------------------------------------------------------------
(* What a flush in progress knows.                                         *)

LEMMA UseFacts ==
    ASSUME Ownership
    PROVE  /\ \A u \in Threads :
                /\ HasSnapshot(u) \/ pc[u] \in {"snap", "drop"} => Uses(u)
                /\ Uses(u) => req[u].fh \in Fhs /\ handles[req[u].fh].inode # 0
                /\ req[u].gen \in Nat /\ req[u].fh \in Fhs
                /\ pc[u] = "idle" => ~Uses(u) /\ ~HasSnapshot(u)
           /\ \A f \in Files : IsOpen(f) =>
                ffh[f] \in Fhs /\ handles[ffh[f]].inode # 0
           /\ \A h \in Fhs : handles[h].dirty_gen \in Nat
<1>1. TypeOK /\ StepsFitRequests /\ HandleIdentity
  BY DEF Ownership
<1>2. ASSUME NEW u \in Threads
      PROVE  /\ HasSnapshot(u) \/ pc[u] \in {"snap", "drop"} => Uses(u)
             /\ req[u].gen \in Nat /\ req[u].fh \in Fhs /\ req[u].ino # 0
             /\ pc[u] = "idle" => ~Uses(u) /\ ~HasSnapshot(u)
  BY <1>1, ConstantFacts DEF HasSnapshot, Uses, StepsFitRequests, TypeOK, Requests
<1>3. \A f \in Files : IsOpen(f) => ffh[f] \in Fhs /\ InodeOf[f] # 0
  BY <1>1, ConstantFacts DEF IsOpen, TypeOK
<1>4. \A h \in Fhs : handles[h].dirty_gen \in Nat
  BY <1>1 DEF TypeOK, Entries
<1> QED
  BY <1>1, <1>2, <1>3, <1>4 DEF HandleIdentity

(* Steps of one worker that change no handle and store nothing.            *)
LEMMA WorkerKeepsTracking ==
    ASSUME Ownership, Tracking, NEW t \in Threads,
           handles' = handles, unstored' = unstored, stale' \ {t} = stale \ {t},
           \A f \in Files : ffh'[f] \in {ffh[f], NoFh},
           \A u \in Threads \ {t} : Stays(u),
           SingleUser', Tracks(t)'
    PROVE  Tracking'
<1>1. ASSUME NEW u \in Threads PROVE Tracks(u)'
  <2>1. CASE u = t
    BY <2>1
  <2>2. CASE u # t
    <3>1. Tracks(u) /\ (u \in stale' <=> u \in stale) /\ Stays(u)
      BY <2>2 DEF Tracking, SnapshotsTrack
    <3> QED
      BY <3>1 DEF Tracks, Stays, HasSnapshot
  <2> QED
    BY <2>1, <2>2
<1>2. CleanMeansStored'
  BY DEF Tracking, CleanMeansStored, IsOpen
<1>3. UnstoredIsLive'
  BY DEF Tracking, UnstoredIsLive
<1> QED
  BY <1>1, <1>2, <1>3 DEF Tracking, SnapshotsTrack

(* Steps that change the content of handles and never clean one.           *)
LEMMA ContentKeepsTracking ==
    ASSUME Ownership, Tracking,
           \A h \in Fhs : Kept(Inodes, handles[h], handles'[h]),
           UNCHANGED <<ffh, pc, req, unstored, stale>>
    PROVE  Tracking'
<1>1. \A h \in Fhs : /\ handles'[h].inode = handles[h].inode
                     /\ handles'[h].dirty_gen \in Nat
                     /\ handles'[h].dirty_gen >= handles[h].dirty_gen
  BY DEF Kept, Entries
<1>2. ASSUME NEW u \in Threads PROVE Tracks(u)'
  BY <1>1, UseFacts DEF Tracking, SnapshotsTrack, Tracks, HasSnapshot
<1>3. CleanMeansStored'
  BY <1>1, UseFacts DEF Tracking, CleanMeansStored, IsOpen, IsDirty
<1>4. UnstoredIsLive'
  BY <1>1 DEF Tracking, UnstoredIsLive, Ownership, TypeOK
<1>5. SingleUser'
  BY DEF Tracking, SingleUser, Uses
<1> QED
  BY <1>2, <1>3, <1>4, <1>5 DEF Tracking, SnapshotsTrack

LEMMA InsertKeepsTracking ==
    ASSUME Ownership, Tracking,
           NEW f \in Files, NEW h \in Fhs, NEW e \in Entries(Inodes),
           InsertHandle(f, h, e), e.inode # 0, UNCHANGED <<pc, req, history>>
    PROVE  Tracking'
<1>1. /\ handles[h].inode = 0
      /\ \A k \in Fhs : handles'[k] = IF k = h THEN e ELSE handles[k]
      /\ \A g \in Files : ffh'[g] = IF g = f THEN h ELSE ffh[g]
  BY VacantFacts, ConstantFacts DEF InsertHandle, VacantFh, Ownership, TypeOK
<1>2. h \notin unstored /\ unstored' = unstored /\ stale' = stale
  BY <1>1 DEF Tracking, UnstoredIsLive, history
<1>3. \A u \in Threads : Uses(u) => handles'[req[u].fh] = handles[req[u].fh]
  BY <1>1, UseFacts
<1>4. ASSUME NEW u \in Threads PROVE Tracks(u)'
  BY <1>2, <1>3, UseFacts DEF Tracking, SnapshotsTrack, Tracks, HasSnapshot
<1>5. CleanMeansStored'
  BY <1>1, <1>2, UseFacts DEF Tracking, CleanMeansStored, IsOpen
<1>6. UnstoredIsLive'
  BY <1>1, <1>2 DEF Tracking, UnstoredIsLive, Ownership, TypeOK
<1>7. SingleUser'
  BY DEF Tracking, SingleUser, Uses
<1> QED
  BY <1>4, <1>5, <1>6, <1>7 DEF Tracking, SnapshotsTrack

(* A write or flush that begins with nothing else in flight on its file is *)
(* the only user of the handle.                                            *)
LEMMA OnlyUser ==
    ASSUME Ownership, NEW f \in Files, IsOpen(f), ~InFlight(f)
    PROVE  \A u \in Threads : Uses(u) => req[u].fh # ffh[f]
BY DEF Ownership, HandleIdentity, InFlight, Uses

LEMMA WriteKeepsTracking ==
    ASSUME ~OverlappingFlushes, Ownership, Tracking, NEW t \in Threads, NEW f \in Files,
           NEW off \in 0 .. MaxLen, NEW fd \in Contents, Write(t, f, off, fd)
    PROVE  Tracking'
<1> DEFINE h == ffh[f]
           e == Written(handles[h], off, <<NUL>>, fd)
           r == [Request("write", f) EXCEPT !.fh = h]
<1>1. /\ h \in Fhs /\ IsOpen(f) /\ pc[t] = "idle" /\ ffh' = ffh
      /\ unstored' = unstored \cup {h}
      /\ stale' = stale \cup {u \in Threads : HasSnapshot(u) /\ req[u].fh = h}
  BY DEF Write, IsOpen, Ownership, TypeOK, kernelvars
<1>2. Dirtied(Inodes, handles[h], e)
  BY <1>1, EntryFacts DEF Ownership, TypeOK
<1>3. \A k \in Fhs : handles'[k] = IF k = h THEN e ELSE handles[k]
  BY <1>1 DEF Write, Ownership, TypeOK
<1>4. /\ e.inode = handles[h].inode /\ e.dirty_gen = handles[h].dirty_gen + 1
      /\ handles[h].dirty_gen \in Nat /\ handles[h].inode # 0
  BY <1>1, <1>2, UseFacts DEF Dirtied
<1> HIDE DEF e
<1>5. \A u \in Threads : Uses(u) /\ req[u].fh = h => req[u].op # "release" /\ req[u].file = f
  BY <1>1 DEF Ownership, HandleIdentity
<1>6. \A u \in Threads \ {t} : Stays(u)
  BY DEF Write, Stays, Ownership, TypeOK
<1>7. /\ t \notin stale' /\ pc'[t] \in {"idle", "snap"}
      /\ pc'[t] = "idle" => Stays(t)
      /\ pc'[t] = "snap" => req'[t].fh = h /\ ~InFlight(f)
  <2>1. t \notin stale /\ ~HasSnapshot(t)
    BY <1>1, UseFacts DEF Tracking, SnapshotsTrack, Tracks
  <2>2. CASE IsReplacement(handles[h])
    <3>1. r \in Requests /\ r.fh = h
      BY <1>1, RequestFacts
    <3>2. pc' = [pc EXCEPT ![t] = "snap"] /\ req' = [req EXCEPT ![t] = r] /\ ~InFlight(f)
      BY <2>2 DEF Write, MayFlush
    <3> HIDE DEF r
    <3> QED
      BY <1>1, <2>1, <3>1, <3>2 DEF Ownership, TypeOK
  <2>3. CASE ~IsReplacement(handles[h])
    BY <1>1, <2>1, <2>3 DEF Write, Stays
  <2> QED
    BY <2>2, <2>3
<1>8. ASSUME NEW u \in Threads PROVE Tracks(u)'
  <2>1. CASE u = t
    BY <1>1, <1>7, <2>1 DEF Tracks, HasSnapshot
  <2>2. CASE u # t
    <3>1. Tracks(u) /\ Stays(u)
      BY <1>6, <2>2 DEF Tracking, SnapshotsTrack
    <3>2. CASE req[u].fh = h
      <4>1. pc[u] # "drop"
        BY <1>5, <3>2, UseFacts DEF Ownership, StepsFitRequests
      <4>2. HasSnapshot(u) => req[u].op # "release" /\ u \in stale'
        BY <1>1, <1>5, <3>2, UseFacts
      <4>3. /\ HasSnapshot(u)' <=> HasSnapshot(u)
            /\ u \in stale' => HasSnapshot(u)
            /\ pc'[u] = pc[u] /\ req'[u] = req[u]
        BY <1>1, <3>1 DEF Stays, HasSnapshot, Tracks
      <4>4. handles'[h].dirty_gen = handles[h].dirty_gen + 1 /\ req[u].gen \in Nat
        BY <1>1, <1>3, <1>4, UseFacts
      <4>5. HasSnapshot(u) => 0 < req[u].gen /\ req[u].gen <= handles[h].dirty_gen
        BY <3>1, <3>2 DEF Tracks
      <4> HIDE DEF h
      <4> QED
        BY <1>4, <3>2, <4>1, <4>2, <4>3, <4>4, <4>5 DEF Tracks, HasSnapshot
    <3>3. CASE req[u].fh # h
      <4>1. req[u].fh \in Fhs /\ handles'[req[u].fh] = handles[req[u].fh]
        BY <1>3, <3>3, UseFacts
      <4>2. u \in stale' <=> u \in stale
        BY <1>1, <3>3
      <4>3. req[u].fh \in unstored' <=> req[u].fh \in unstored
        BY <1>1, <3>3
      <4> QED
        BY <3>1, <4>1, <4>2, <4>3 DEF Tracks, Stays, HasSnapshot
    <3> QED
      BY <3>2, <3>3
  <2> QED
    BY <2>1, <2>2
<1>9. CleanMeansStored'
  BY <1>1, <1>3, <1>4, UseFacts DEF Tracking, CleanMeansStored, IsOpen, IsDirty
<1>10. UnstoredIsLive'
  BY <1>1, <1>3, <1>4 DEF Tracking, UnstoredIsLive, Ownership, TypeOK
<1>11. SingleUser'
  <2>1. \A u \in Threads \ {t} : (Uses(u)' <=> Uses(u)) /\ req'[u] = req[u]
    BY <1>6 DEF Stays, Uses
  <2>2. CASE pc'[t] = "snap"
    <3>1. \A u \in Threads : Uses(u) => req[u].fh # h
      BY <1>1, <1>7, <2>2, OnlyUser
    <3> QED
      BY <1>7, <2>1, <2>2, <3>1 DEF Tracking, SingleUser
  <2>3. CASE pc'[t] = "idle"
    BY <1>7, <2>1, <2>3 DEF Tracking, SingleUser, Stays, Uses
  <2> QED
    BY <1>7, <2>2, <2>3
<1> QED
  BY <1>8, <1>9, <1>10, <1>11 DEF Tracking, SnapshotsTrack
LEMMA AdvanceKeepsSingleUser ==
    ASSUME SingleUser, Ownership, \A u \in Threads : Advances(u)
    PROVE  SingleUser'
<1>1. ASSUME NEW u \in Threads, Uses(u)' PROVE Uses(u) /\ req'[u].fh = req[u].fh
  BY <1>1 DEF Advances, Answered, MovesOn, Stays, Uses
<1> QED
  BY <1>1 DEF SingleUser

(* The steps of a request under way that touch no handle.                  *)
LEMMA QuietKeepsTracking ==
    ASSUME Ownership, Tracking, NEW t \in Threads,
           \/ FlushWrite(t) \/ GetLock(t) \/ Lock(t) \/ FlushFails(t)
           \/ CheckLastHandle(t) \/ Evict(t)
    PROVE  Tracking'
<1>1. TypeOK /\ req[t] \in Requests /\ StepsFitRequests /\ Tracks(t)
  BY DEF Ownership, Tracking, SnapshotsTrack, TypeOK
<1>2. Proceed(t)
  BY DEF Proceed
<1>3. ~DropHandle(t)
  BY DEF DropHandle, FlushWrite, GetLock, Lock, FlushFails, CheckLastHandle, Evict
<1>4. SingleUser'
  BY <1>2, <1>3, ProceedAdvances, AdvanceKeepsSingleUser DEF Tracking
<1>5. handles' = handles /\ ffh' = ffh /\ unstored' = unstored /\ stale' \ {t} = stale \ {t}
  BY DEF FlushWrite, GetLock, Lock, FlushFails, CheckLastHandle, Evict, Finish, kernelvars, history
<1>6. (\A u \in Threads \ {t} : Stays(u)) /\ Tracks(t)'
  <2>1. CASE FlushWrite(t)
    <3>1. pc[t] = "snap" /\ req[t].op = "write" /\ Snapshot(t, req[t], "Final") /\ stale' = stale
      BY <1>1, <2>1 DEF FlushWrite, StepsFitRequests, history
    <3>2. t \notin stale
      BY <1>1, <3>1 DEF Tracks, HasSnapshot
    <3>3. /\ \A u \in Threads \ {t} : Stays(u)
          /\ \/ /\ pc'[t] = "getlock" /\ req'[t].fh = req[t].fh
                /\ req'[t].gen = handles[req[t].fh].dirty_gen
                /\ handles[req[t].fh].dirty_gen > 0
             \/ pc'[t] = "idle"
      BY <1>1, <3>1, SnapshotEffect
    <3> QED
      BY <1>1, <1>5, <3>1, <3>2, <3>3, UseFacts DEF Tracks, HasSnapshot
  <2>2. CASE GetLock(t)
    <3>1. PICK m \in Locks : req' = [req EXCEPT ![t].lock = m]
      BY <2>2 DEF GetLock
    <3>2. /\ \A u \in Threads \ {t} : Stays(u)
          /\ pc[t] = "getlock" /\ pc'[t] = "lock" /\ stale' = stale
          /\ req'[t].op = req[t].op /\ req'[t].gen = req[t].gen /\ req'[t].fh = req[t].fh
      BY <1>1, <2>2, <3>1 DEF GetLock, Stays, TypeOK, Requests, history
    <3> QED
      BY <1>1, <1>5, <3>2 DEF Tracks, HasSnapshot
  <2>3. CASE Lock(t)
    <3>1. /\ \A u \in Threads \ {t} : Stays(u)
          /\ pc[t] = "lock" /\ pc'[t] = "flush" /\ stale' = stale /\ req' = req
      BY <1>1, <2>3 DEF Lock, Stays, TypeOK, history
    <3> QED
      BY <1>1, <1>5, <3>1 DEF Tracks, HasSnapshot
  <2>4. CASE FlushFails(t)
    <3>1. Finish(t, FALSE) /\ stale' = stale \ {t}
      BY <2>4 DEF FlushFails, Finish
    <3>2. /\ \A u \in Threads \ {t} : Stays(u)
          /\ \/ pc'[t] = "drop" /\ ~req'[t].ok
             \/ pc'[t] = "idle"
      BY <1>1, <3>1, FinishEffect
    <3> QED
      BY <3>1, <3>2 DEF Tracks, HasSnapshot
  <2>5. CASE CheckLastHandle(t) \/ Evict(t)
    <3>1. /\ \A u \in Threads \ {t} : Stays(u)
          /\ pc[t] \in {"check", "evict"} /\ pc'[t] \in {"idle", "evict"} /\ stale' = stale
      BY <1>1, <2>5 DEF CheckLastHandle, Evict, Stays, TypeOK, history
    <3>2. t \notin stale
      BY <1>1, <3>1 DEF Tracks, HasSnapshot
    <3> QED
      BY <3>1, <3>2 DEF Tracks, HasSnapshot
  <2> QED
    BY <2>1, <2>2, <2>3, <2>4, <2>5
<1> QED
  BY <1>4, <1>5, <1>6, WorkerKeepsTracking

LEMMA StoreKeepsTracking ==
    ASSUME Ownership, Tracking, NEW t \in Threads, StoreWrite(t)
    PROVE  Tracking'
<1> DEFINE h == req[t].fh
<1>1. /\ Uses(t) /\ HasSnapshot(t) /\ pc[t] = "flush" /\ pc'[t] = "clear"
      /\ \A u \in Threads \ {t} : pc'[u] = pc[u]
      /\ UNCHANGED <<handles, ffh, req, stale>>
  BY UseFacts DEF StoreWrite, HasSnapshot, Ownership, TypeOK, kernelvars
<1>2. SingleUser'
  BY ProceedAdvances, AdvanceKeepsSingleUser
  DEF Proceed, StoreWrite, DropHandle, Tracking
<1>3. \A k \in Fhs : k # h => (k \in unstored' <=> k \in unstored)
  BY DEF StoreWrite
<1>4. h \in Fhs /\ handles[h].inode # 0 /\ handles[h].dirty_gen > 0
  <2>1. h \in Fhs /\ handles[h].inode # 0 /\ handles[h].dirty_gen \in Nat /\ req[t].gen \in Nat
    BY <1>1, UseFacts
  <2>2. 0 < req[t].gen /\ req[t].gen <= handles[h].dirty_gen
    BY <1>1 DEF Tracking, SnapshotsTrack, Tracks
  <2> QED
    BY <2>1, <2>2
<1>5. ASSUME NEW u \in Threads PROVE Tracks(u)'
  <2>1. CASE u = t
    <3>1. t \notin stale => h \notin unstored'
      BY DEF StoreWrite
    <3> QED
      BY <1>1, <2>1, <3>1 DEF Tracking, SnapshotsTrack, Tracks, HasSnapshot
  <2>2. CASE u # t
    <3>1. Uses(u) => req[u].fh \in Fhs /\ req[u].fh # h
      BY <1>1, <2>2, UseFacts DEF Tracking, SingleUser
    <3>2. Uses(u) => (req[u].fh \in unstored' <=> req[u].fh \in unstored)
      BY <1>3, <3>1
    <3>3. HasSnapshot(u) \/ pc[u] = "drop" => Uses(u)
      BY UseFacts
    <3> QED
      BY <1>1, <2>2, <3>2, <3>3 DEF Tracking, SnapshotsTrack, Tracks, HasSnapshot
  <2> QED
    BY <2>1, <2>2
<1>6. CleanMeansStored'
  BY <1>1, <1>3, <1>4, UseFacts DEF Tracking, CleanMeansStored, IsOpen, IsDirty
<1>7. UnstoredIsLive'
  BY <1>1, <1>4 DEF Tracking, UnstoredIsLive, StoreWrite
<1> QED
  BY <1>2, <1>5, <1>6, <1>7 DEF Tracking, SnapshotsTrack

LEMMA ClearKeepsTracking ==
    ASSUME Ownership, Tracking, NEW t \in Threads, ClearDirty(t)
    PROVE  Tracking'
<1> DEFINE h == req[t].fh
           e == Cleared(handles[h], req[t].gen)
<1>1. /\ Uses(t) /\ HasSnapshot(t) /\ pc[t] = "clear" /\ Finish(t, TRUE)
      /\ ffh' = ffh /\ unstored' = unstored /\ stale' = stale \ {t}
      /\ h \in Fhs /\ req[t].gen \in Nat /\ handles[h].dirty_gen \in Nat
  BY UseFacts DEF ClearDirty, Finish, HasSnapshot, kernelvars
<1>2. SingleUser'
  BY ProceedAdvances, AdvanceKeepsSingleUser
  DEF Proceed, ClearDirty, DropHandle, Tracking
<1>3. ClearedAt(Inodes, handles[h], req[t].gen, e)
  BY <1>1, EntryFacts DEF Ownership, TypeOK
<1>4. /\ e.inode = handles[h].inode
      /\ e.dirty_gen = IF handles[h].dirty_gen = req[t].gen THEN 0 ELSE handles[h].dirty_gen
  BY <1>3 DEF ClearedAt
<1>5. \A k \in Fhs : handles'[k] = IF k = h THEN e ELSE handles[k]
  BY <1>1 DEF ClearDirty, Ownership, TypeOK
<1> HIDE DEF e
<1>6. /\ 0 < req[t].gen /\ req[t].gen <= handles[h].dirty_gen
      /\ t \in stale => req[t].gen < handles[h].dirty_gen
      /\ t \notin stale => h \notin unstored
      /\ t \in stale => req[t].op # "release"
  BY <1>1 DEF Tracking, SnapshotsTrack, Tracks
<1>7. ASSUME NEW u \in Threads PROVE Tracks(u)'
  <2>1. CASE u = t
    <3>1. IF req[t].op = "release" THEN pc'[t] = "drop" /\ req'[t].fh = h
                                   ELSE pc'[t] = "idle"
      BY <1>1, FinishEffect DEF Ownership
    <3> QED
      BY <1>1, <1>6, <2>1, <3>1 DEF Tracks, HasSnapshot
  <2>2. CASE u # t
    <3>1. HasSnapshot(u) => handles'[req[u].fh] = handles[req[u].fh]
      BY <1>1, <1>5, <2>2, UseFacts DEF Tracking, SingleUser
    <3>2. Stays(u)
      BY <1>1, <2>2, FinishEffect DEF Ownership
    <3> QED
      BY <1>1, <2>2, <3>1, <3>2 DEF Tracking, SnapshotsTrack, Tracks, HasSnapshot, Stays
  <2> QED
    BY <2>1, <2>2
<1>8. CleanMeansStored'
  <2>1. h \in unstored => e.dirty_gen > 0
    BY <1>1, <1>4, <1>6
  <2> QED
    BY <1>1, <1>5, <2>1, UseFacts DEF Tracking, CleanMeansStored, IsOpen, IsDirty
<1>9. UnstoredIsLive'
  BY <1>1, <1>4, <1>5 DEF Tracking, UnstoredIsLive, Ownership, TypeOK
<1> QED
  BY <1>2, <1>7, <1>8, <1>9 DEF Tracking, SnapshotsTrack

LEMMA DropKeepsTracking ==
    ASSUME Ownership, Tracking, NEW t \in Threads, DropHandle(t)
    PROVE  Tracking'
<1> DEFINE h == req[t].fh
<1>1. /\ Uses(t) /\ ~HasSnapshot(t) /\ req[t].op = "release"
      /\ pc[t] = "drop" /\ pc'[t] = "check"
      /\ ffh' = ffh /\ req' = req /\ stale' = stale /\ unstored' = unstored \ {h}
      /\ \A u \in Threads \ {t} : pc'[u] = pc[u]
      /\ \A k \in Fhs : k # h => handles'[k] = handles[k]
  BY UseFacts DEF DropHandle, HasSnapshot, Ownership, StepsFitRequests, TypeOK, kernelvars
<1>2. ASSUME NEW u \in Threads PROVE Tracks(u)'
  <2>1. CASE u = t
    BY <1>1, <2>1 DEF Tracking, SnapshotsTrack, Tracks, HasSnapshot
  <2>2. CASE u # t
    <3>1. HasSnapshot(u) => handles'[req[u].fh] = handles[req[u].fh]
      BY <1>1, <2>2, UseFacts DEF Tracking, SingleUser
    <3> QED
      BY <1>1, <2>2, <3>1 DEF Tracking, SnapshotsTrack, Tracks, HasSnapshot
  <2> QED
    BY <2>1, <2>2
<1>3. \A f \in Files : IsOpen(f) => ffh[f] \in Fhs /\ ffh[f] # h
  BY <1>1, UseFacts DEF Ownership, HandleIdentity
<1>4. CleanMeansStored'
  BY <1>1, <1>3 DEF Tracking, CleanMeansStored, IsOpen, IsDirty
<1>5. UnstoredIsLive'
  BY <1>1 DEF Tracking, UnstoredIsLive, Ownership, TypeOK
<1>6. SingleUser'
  BY <1>1 DEF Tracking, SingleUser, Uses
<1> QED
  BY <1>2, <1>4, <1>5, <1>6 DEF Tracking, SnapshotsTrack

(* A flush or release that begins, and is the only user of its handle.     *)
LEMMA BeginKeepsTracking ==
    ASSUME Ownership, Tracking, NEW t \in Threads, NEW f \in Files,
           NEW op \in {"flush", "release"}, NEW mode,
           IsOpen(f), pc[t] = "idle", ~InFlight(f),
           op = "release" => mode = "Final",
           Snapshot(t, [Request(op, f) EXCEPT !.fh = ffh[f]], mode),
           UNCHANGED <<handles, history>>,
           \A g \in Files : ffh'[g] \in {ffh[g], NoFh}
    PROVE  Tracking'
<1> DEFINE h == ffh[f]
           r == [Request(op, f) EXCEPT !.fh = h]
<1>1. h \in Fhs /\ \A u \in Threads : Uses(u) => req[u].fh # h
  BY UseFacts, OnlyUser
<1>2. r \in Requests /\ r.op = op /\ r.fh = h /\ r.ok
  BY <1>1, RequestFacts
<1>3. Snapshot(t, r, mode)
  OBVIOUS
<1> HIDE DEF r
<1>4. /\ \A u \in Threads \ {t} : Stays(u)
      /\ \/ /\ pc'[t] = "getlock" /\ req'[t].fh = h
            /\ req'[t].gen = handles[h].dirty_gen /\ handles[h].dirty_gen > 0
         \/ /\ pc'[t] = "drop" /\ req'[t] = r /\ op = "release"
            /\ ~MustFlush(handles[h], mode)
         \/ pc'[t] = "idle" /\ req'[t] = IdleReq
  BY <1>2, <1>3, SnapshotEffect DEF Ownership
<1>5. t \notin stale /\ stale' = stale /\ unstored' = unstored
  BY UseFacts DEF Tracking, SnapshotsTrack, Tracks, history
<1>6. Tracks(t)'
  <2>1. CASE pc'[t] = "getlock"
    BY <1>1, <1>4, <1>5, <2>1, UseFacts DEF Tracks, HasSnapshot
  <2>2. CASE pc'[t] = "drop"
    <3>1. ~IsDirty(handles[h])
      BY <1>4, <2>2 DEF MustFlush, Deferred
    <3>2. h \notin unstored
      BY <3>1 DEF Tracking, CleanMeansStored
    <3> QED
      BY <1>2, <1>4, <1>5, <2>2, <3>2 DEF Tracks, HasSnapshot
  <2>3. CASE pc'[t] = "idle"
    BY <1>5, <2>3 DEF Tracks, HasSnapshot
  <2> QED
    BY <1>4, <2>1, <2>2, <2>3
<1>7. SingleUser'
  <2>1. \A u \in Threads \ {t} : (Uses(u)' <=> Uses(u)) /\ req'[u] = req[u]
    BY <1>4 DEF Stays, Uses
  <2>2. Uses(t)' => req'[t].fh = h
    BY <1>2, <1>4, RequestFacts DEF Uses
  <2> QED
    BY <1>1, <2>1, <2>2 DEF Tracking, SingleUser
<1> QED
  BY <1>4, <1>5, <1>6, <1>7, WorkerKeepsTracking

LEMMA TrackingStep ==
    ASSUME ~KernelPassthrough, ~OverlappingFlushes, Ownership, Tracking, [Next]_vars
    PROVE  Tracking'
<1> USE ConstantFacts
<1>1. TypeOK /\ direct_io = {}
  BY DEF Ownership
<1>2. ASSUME NEW f \in Files, NEW h \in Fhs, NEW app \in Appends, OpenDirect(f, h, app)
      PROVE  Tracking'
  <2> DEFINE e == NewDirect(InodeOf[f], FALSE, app)
  <2>1. e \in Entries(Inodes) /\ e.inode # 0
    BY NewEntryFacts DEF MadeFor
  <2> QED
    BY <1>2, <2>1, InsertKeepsTracking DEF OpenDirect
<1>3. ASSUME NEW f \in Files, NEW h \in Fhs, NEW app \in Appends, OpenBuffered(f, h, app)
      PROVE  Tracking'
  <2>1. PICK content \in Contents :
            InsertHandle(f, h, NewBuffered(InodeOf[f], content, FALSE, app))
    BY <1>3 DEF OpenBuffered
  <2> DEFINE e == NewBuffered(InodeOf[f], content, FALSE, app)
  <2>2. e \in Entries(Inodes) /\ e.inode # 0
    BY NewEntryFacts DEF MadeFor
  <2> QED
    BY <1>3, <2>1, <2>2, InsertKeepsTracking DEF OpenBuffered
<1>4. ASSUME NEW f \in Files, NEW h \in Fhs, NEW trunc \in BOOLEAN, NEW app \in Appends,
             Create(f, h, trunc, app)
      PROVE  Tracking'
  <2> DEFINE e == NewBuffered(InodeOf[f], << >>, trunc, app)
  <2>1. e \in Entries(Inodes) /\ e.inode # 0
    BY NewEntryFacts DEF MadeFor
  <2> QED
    BY <1>4, <2>1, InsertKeepsTracking DEF Create
<1>5. ASSUME NEW f \in Files, OpenPassthrough(f) PROVE Tracking'
  BY <1>5 DEF OpenPassthrough
<1>6. \A h \in Fhs : Kept(Inodes, handles[h], handles[h])
  BY <1>1 DEF Kept, TypeOK, Entries
<1>7. ASSUME NEW f \in Files, NEW n \in 0 .. MaxLen, WriteFails(f, n) PROVE Tracking'
  <2>1. Kept(Inodes, handles[ffh[f]], WriteFailed(handles[ffh[f]], n))
    BY <1>1, <1>7, UseFacts, EntryFacts DEF WriteFails, TypeOK
  <2>2. \A h \in Fhs : Kept(Inodes, handles[h], handles'[h])
    BY <1>1, <1>6, <1>7, <2>1 DEF WriteFails, TypeOK
  <2> QED
    BY <1>7, <2>2, ContentKeepsTracking DEF WriteFails, kernelvars, history
<1>8. ASSUME NEW f \in Files, NEW size \in 0 .. MaxLen, NEW fd \in Contents,
             TruncateFile(f, size, fd)
      PROVE  Tracking'
  <2>1. Kept(Inodes, handles[ffh[f]], TruncatedTo(handles[ffh[f]], size, fd))
    BY <1>1, <1>8, UseFacts, EntryFacts DEF TruncateFile, TypeOK
  <2>2. \A h \in Fhs : Kept(Inodes, handles[h], handles'[h])
    BY <1>1, <1>6, <1>8, <2>1 DEF TruncateFile, TypeOK
  <2> QED
    BY <1>8, <2>2, ContentKeepsTracking DEF TruncateFile, kernelvars, history
<1>9. ASSUME NEW i \in Inodes, NEW size \in 0 .. MaxLen, NEW fd \in Contents,
             TruncateInode(i, size, fd)
      PROVE  Tracking'
  <2>1. \A h \in Fhs : Kept(Inodes, handles[h], TruncatedTo(handles[h], size, fd))
    BY <1>1, EntryFacts DEF TypeOK
  <2>2. \A h \in Fhs : Kept(Inodes, handles[h], handles'[h])
    BY <1>6, <1>9, <2>1 DEF TruncateInode
  <2> QED
    BY <1>9, <2>2, ContentKeepsTracking DEF TruncateInode, kernelvars, history
<1>10. ASSUME NEW t \in Threads, NEW f \in Files, Flush(t, f) PROVE Tracking'
  BY <1>10, BeginKeepsTracking DEF Flush, MayFlush, kernelvars
<1>11. ASSUME NEW t \in Threads, NEW f \in Files, Release(t, f) PROVE Tracking'
  <2>1. \A g \in Files : ffh'[g] \in {ffh[g], NoFh}
    BY <1>1, <1>11 DEF Release, TypeOK
  <2> QED
    BY <1>11, <2>1, BeginKeepsTracking DEF Release
<1>12. ASSUME NEW t \in Threads, Proceed(t) PROVE Tracking'
  BY <1>12, QuietKeepsTracking, StoreKeepsTracking, ClearKeepsTracking, DropKeepsTracking
  DEF Proceed
<1>13. CASE UNCHANGED vars
  BY <1>6, <1>13, ContentKeepsTracking DEF vars
<1> QED
  BY <1>2, <1>3, <1>4, <1>5, <1>7, <1>8, <1>9, <1>10, <1>11, <1>12, <1>13,
     WriteKeepsTracking
  DEF Next, AtOnce, Begin

LEMMA TrackingInit == Init => Tracking
BY RequestFacts
DEF Init, Tracking, SingleUser, SnapshotsTrack, Tracks, HasSnapshot, Uses,
    UnstoredIsLive, CleanMeansStored

LEMMA TrackingHolds ==
    ASSUME ~KernelPassthrough, ~OverlappingFlushes
    PROVE  Spec => [](Ownership /\ Tracking)
<1>1. Init => Ownership /\ Tracking
  BY OwnershipInit, TrackingInit
<1>2. Ownership /\ Tracking /\ [Next]_vars => Ownership' /\ Tracking'
  BY OwnershipStep, TrackingStep
<1> QED
  BY <1>1, <1>2, PTL DEF Spec

(* While the kernel keeps the flushes of one open file apart, clear_dirty's *)
(* generation check is enough: a clean open handle has its last accepted    *)
(* write behind the inode, however many files share the inode.              *)
THEOREM CleanHandlesAreStored ==
    ASSUME ~KernelPassthrough, ~OverlappingFlushes
    PROVE  Spec => []CleanMeansStored
<1>1. Tracking => CleanMeansStored
  BY DEF Tracking
<1> QED
  BY TrackingHolds, <1>1, PTL

(* Only release empties an entry of the table.                             *)
LEMMA OnlyReleaseVacates ==
    ASSUME ~KernelPassthrough, Ownership, Next, NEW h \in Fhs,
           handles[h].inode # 0, handles'[h].inode = 0
    PROVE  \E t \in Threads : DropHandle(t) /\ req[t].fh = h
<1> USE ConstantFacts
<1>1. TypeOK /\ direct_io = {}
  BY DEF Ownership
<1>2. ~SameInodes
  BY DEF SameInodes
<1>3. \A e : \A f \in Files, k \in Fhs : ~InsertHandle(f, k, e)
  <2>1. ASSUME NEW f \in Files, NEW k \in Fhs, NEW e, InsertHandle(f, k, e) PROVE FALSE
    <3>1. handles[k].inode = 0
      BY <2>1, VacantFacts DEF InsertHandle, VacantFh
    <3>2. handles'[h] = handles[h]
      BY <1>1, <2>1, <3>1 DEF InsertHandle, TypeOK
    <3> QED
      BY <3>2
  <2> QED
    BY <2>1
<1>4. \A f \in Files, n \in 0 .. MaxLen : ~WriteFails(f, n)
  <2>1. ASSUME NEW f \in Files, NEW n \in 0 .. MaxLen, WriteFails(f, n) PROVE FALSE
    <3>1. Kept(Inodes, handles[ffh[f]], WriteFailed(handles[ffh[f]], n))
      BY <1>1, <2>1, UseFacts, EntryFacts DEF WriteFails, TypeOK
    <3> QED
      BY <1>1, <1>2, <2>1, <3>1 DEF WriteFails, SameInodes, TypeOK, Kept
  <2> QED
    BY <2>1
<1>5. \A f \in Files, size \in 0 .. MaxLen, fd \in Contents : ~TruncateFile(f, size, fd)
  <2>1. ASSUME NEW f \in Files, NEW size \in 0 .. MaxLen, NEW fd \in Contents,
               TruncateFile(f, size, fd)
        PROVE  FALSE
    <3>1. Kept(Inodes, handles[ffh[f]], TruncatedTo(handles[ffh[f]], size, fd))
      BY <1>1, <2>1, UseFacts, EntryFacts DEF TruncateFile, TypeOK
    <3>2. TruncatedTo(handles[ffh[f]], size, fd).inode = handles[ffh[f]].inode
      BY <3>1 DEF Kept
    <3> QED
      BY <1>1, <1>2, <2>1, <3>2 DEF TruncateFile, SameInodes, TypeOK
  <2> QED
    BY <2>1
<1>6. \A i \in Inodes, size \in 0 .. MaxLen, fd \in Contents : ~TruncateInode(i, size, fd)
  <2>1. ASSUME NEW i \in Inodes, NEW size \in 0 .. MaxLen, NEW fd \in Contents,
               TruncateInode(i, size, fd)
        PROVE  FALSE
    <3>1. Kept(Inodes, handles[h], TruncatedTo(handles[h], size, fd))
      BY <1>1, EntryFacts DEF TypeOK
    <3>2. TruncatedTo(handles[h], size, fd).inode = handles[h].inode
      BY <3>1 DEF Kept
    <3> QED
      BY <2>1, <3>2 DEF TruncateInode
  <2> QED
    BY <2>1
<1>7. \A t \in Threads, f \in Files, off \in 0 .. MaxLen, fd \in Contents :
            ~Write(t, f, off, fd)
  <2>1. ASSUME NEW t \in Threads, NEW f \in Files, NEW off \in 0 .. MaxLen,
               NEW fd \in Contents, Write(t, f, off, fd)
        PROVE  FALSE
    <3> DEFINE e == Written(handles[ffh[f]], off, <<NUL>>, fd)
    <3>1. ffh[f] \in Fhs
      BY <1>1, <2>1, UseFacts DEF Write
    <3>2. Dirtied(Inodes, handles[ffh[f]], e)
      BY <1>1, <3>1, EntryFacts DEF TypeOK
    <3>3. e.inode = handles[ffh[f]].inode
      BY <3>2 DEF Dirtied
    <3>4. handles' = [handles EXCEPT ![ffh[f]] = e]
      BY <2>1 DEF Write
    <3> HIDE DEF e
    <3> QED
      BY <1>1, <1>2, <3>1, <3>3, <3>4 DEF SameInodes, TypeOK
  <2> QED
    BY <2>1
<1>8. PICK t \in Threads : DropHandle(t)
  <2>1. ~AtOnce
    BY <1>3, <1>4, <1>5, <1>6
    DEF AtOnce, OpenPassthrough, OpenDirect, OpenBuffered, Create
  <2>2. \A t \in Threads : ~Begin(t)
    BY <1>2, <1>7 DEF Begin, Flush, Release, SameInodes
  <2>3. PICK t \in Threads : Proceed(t)
    BY <2>1, <2>2 DEF Next
  <2> QED
    BY <1>2, <2>3, ProceedAdvances
<1>9. req[t].fh = h
  BY <1>1, <1>8 DEF DropHandle, TypeOK
<1> QED
  BY <1>8, <1>9

(* Under the same assumption a write leaves the table unstored only with    *)
(* the release whose own flush was refused.                                 *)
THEOREM NothingDroppedSilently ==
    ASSUME ~KernelPassthrough, ~OverlappingFlushes
    PROVE  Spec => NoSilentDrop
<1> DEFINE Silent ==
        \A h \in Fhs :
            /\ handles[h].inode # 0 /\ handles'[h].inode = 0
            /\ h \in unstored
            => \E t \in Threads : pc[t] = "drop" /\ req[t].fh = h /\ ~req[t].ok
<1>1. Ownership /\ Tracking /\ [Next]_vars => [Silent]_vars
  <2> SUFFICES ASSUME Ownership, Tracking, Next, NEW h \in Fhs,
                      handles[h].inode # 0, handles'[h].inode = 0, h \in unstored
               PROVE  \E t \in Threads : pc[t] = "drop" /\ req[t].fh = h /\ ~req[t].ok
    OBVIOUS
  <2>1. PICK t \in Threads : DropHandle(t) /\ req[t].fh = h
    BY OnlyReleaseVacates
  <2> QED
    BY <2>1 DEF DropHandle, Tracking, SnapshotsTrack, Tracks
<1>2. [][Silent]_vars <=> NoSilentDrop
  BY DEF NoSilentDrop
<1> QED
  BY TrackingHolds, <1>1, <1>2, PTL DEF Spec
-----------------------------------------------------------------------------
(* What is kept for an inode, and who still answers for it.                *)

(* A handle is in the table for an open file, or for the release that is   *)
(* about to drop it.                                                       *)
HasOwner(h) ==
    \/ \E f \in Files : IsOpen(f) /\ ffh[f] = h
    \/ \E t \in Threads : Uses(t) /\ req[t].op = "release" /\ req[t].fh = h

HandlesOwned == \A h \in Fhs : handles[h].inode # 0 => HasOwner(h)

Attended(i) ==
    \/ \E f \in Files : InodeOf[f] = i /\ IsOpen(f)
    \/ \E t \in Threads : req[t].op # "none" /\ req[t].ino = i

Residue(i) == write_locks[i] # 0 \/ i \in write_errors

Tended == HandlesOwned /\ \A i \in Inodes : Residue(i) => Attended(i)

(* A step of one worker that closes no file.                               *)
LEMMA WorkerKeepsTended ==
    ASSUME Ownership, Tended, NEW t \in Threads,
           \A u \in Threads \ {t} : Stays(u), ffh' = ffh,
           \A h \in Fhs : handles'[h].inode # 0 => handles[h].inode # 0,
           Uses(t) /\ req[t].op = "release" =>
               \/ Uses(t)' /\ req'[t].op = "release" /\ req'[t].fh = req[t].fh
               \/ handles'[req[t].fh].inode = 0,
           \A i \in Inodes : req[t].op # "none" /\ req[t].ino = i =>
               \/ req'[t].op # "none" /\ req'[t].ino = i
               \/ Attended(i)'
               \/ ~Residue(i)',
           \A i \in Inodes : Residue(i)' => Residue(i) \/ Attended(i)'
    PROVE  Tended'
<1>1. ASSUME NEW h \in Fhs, handles'[h].inode # 0 PROVE HasOwner(h)'
  <2>1. HasOwner(h)
    BY <1>1 DEF Tended, HandlesOwned
  <2>2. CASE \E f \in Files : IsOpen(f) /\ ffh[f] = h
    BY <2>2 DEF HasOwner, IsOpen
  <2>3. CASE \E u \in Threads : Uses(u) /\ req[u].op = "release" /\ req[u].fh = h
    <3>1. PICK u \in Threads : Uses(u) /\ req[u].op = "release" /\ req[u].fh = h
      BY <2>3
    <3>2. Uses(u)' /\ req'[u].op = "release" /\ req'[u].fh = h
      <4>1. CASE u = t
        BY <1>1, <3>1, <4>1
      <4>2. CASE u # t
        BY <3>1, <4>2 DEF Stays, Uses
      <4> QED
        BY <4>1, <4>2
    <3> QED
      BY <3>2 DEF HasOwner
  <2> QED
    BY <2>1, <2>2, <2>3 DEF HasOwner
<1>2. ASSUME NEW i \in Inodes, Residue(i)' PROVE Attended(i)'
  <2>1. CASE Attended(i)'
    BY <2>1
  <2>2. CASE Residue(i) /\ ~Attended(i)'
    <3>1. Attended(i)
      BY <2>2 DEF Tended
    <3>2. ~\E f \in Files : InodeOf[f] = i /\ IsOpen(f)
      BY <2>2 DEF Attended, IsOpen
    <3>3. PICK u \in Threads : req[u].op # "none" /\ req[u].ino = i
      BY <3>1, <3>2 DEF Attended
    <3>4. req'[u].op # "none" /\ req'[u].ino = i
      <4>1. CASE u = t
        BY <1>2, <2>2, <3>3, <4>1
      <4>2. CASE u # t
        BY <3>3, <4>2 DEF Stays
      <4> QED
        BY <4>1, <4>2
    <3> QED
      BY <3>4 DEF Attended
  <2> QED
    BY <1>2, <2>1, <2>2
<1>3. HandlesOwned'
  BY <1>1 DEF HandlesOwned
<1> QED
  BY <1>2, <1>3 DEF Tended

LEMMA InsertKeepsTended ==
    ASSUME Ownership, Tended, NEW f \in Files, NEW h \in Fhs, NEW e,
           ~IsOpen(f), InsertHandle(f, h, e), UNCHANGED <<pc, req, inodevars>>
    PROVE  Tended'
<1>1. /\ \A k \in Fhs : k # h => handles'[k] = handles[k]
      /\ \A g \in Files : ffh'[g] = IF g = f THEN h ELSE ffh[g]
      /\ h # NoFh
  BY ConstantFacts DEF InsertHandle, Ownership, TypeOK
<1>2. \A g \in Files : IsOpen(g) => IsOpen(g)' /\ ffh'[g] = ffh[g]
  BY <1>1 DEF IsOpen
<1>3. ASSUME NEW k \in Fhs, handles'[k].inode # 0 PROVE HasOwner(k)'
  <2>1. CASE k = h
    BY <1>1, <2>1 DEF HasOwner, IsOpen
  <2>2. CASE k # h
    <3>1. HasOwner(k)
      BY <1>1, <1>3, <2>2 DEF Tended, HandlesOwned
    <3>2. CASE \E g \in Files : IsOpen(g) /\ ffh[g] = k
      BY <1>2, <3>2 DEF HasOwner
    <3>3. CASE \E u \in Threads : Uses(u) /\ req[u].op = "release" /\ req[u].fh = k
      BY <3>3 DEF HasOwner, Uses
    <3> QED
      BY <3>1, <3>2, <3>3 DEF HasOwner
  <2> QED
    BY <2>1, <2>2
<1>4. ASSUME NEW i \in Inodes, Residue(i)' PROVE Attended(i)'
  <2>1. Attended(i)
    BY <1>4 DEF Tended, Residue, inodevars
  <2> QED
    BY <1>2, <2>1 DEF Attended
<1>5. HandlesOwned'
  BY <1>3 DEF HandlesOwned
<1> QED
  BY <1>4, <1>5 DEF Tended

(* A file closes: its handle and its inode pass to the releasing worker.   *)
LEMMA ReleaseKeepsTended ==
    ASSUME Ownership, Tended, NEW t \in Threads, NEW f \in Files,
           Release(t, f)
    PROVE  Tended'
<1> DEFINE r == [Request("release", f) EXCEPT !.fh = ffh[f]]
<1>1. TypeOK /\ ffh[f] \in Fhs /\ pc[t] = "idle" /\ req[t].op = "none"
  BY UseFacts DEF Release, Ownership, StepsFitRequests
<1>2. /\ r \in Requests /\ r.op = "release" /\ r.file = f
      /\ r.ino = InodeOf[f] /\ r.fh = ffh[f]
  BY <1>1, RequestFacts
<1>3. Snapshot(t, r, "Final")
  BY DEF Release
<1> HIDE DEF r
<1>4. /\ \A u \in Threads \ {t} : Stays(u)
      /\ pc'[t] \in {"getlock", "drop"} /\ req'[t].op = "release"
      /\ req'[t].ino = InodeOf[f] /\ req'[t].fh = ffh[f]
  BY <1>1, <1>2, <1>3, SnapshotEffect
<1>5. Uses(t)'
  BY <1>4 DEF Uses
<1>6. \A g \in Files : g # f => ffh'[g] = ffh[g]
  BY <1>1 DEF Release, TypeOK
<1>7. \A g \in Files : g # f /\ IsOpen(g) => IsOpen(g)'
  BY <1>6 DEF IsOpen
<1>8. \A u \in Threads : req[u].op # "none" =>
            u # t /\ req'[u] = req[u] /\ (Uses(u) => Uses(u)')
  BY <1>1, <1>4 DEF Stays, Uses
<1>9. ASSUME NEW k \in Fhs, handles'[k].inode # 0 PROVE HasOwner(k)'
  <2>1. HasOwner(k)
    BY <1>9 DEF Tended, HandlesOwned, Release
  <2>2. CASE k = ffh[f]
    BY <1>4, <1>5, <2>2 DEF HasOwner
  <2>3. CASE k # ffh[f] /\ \E g \in Files : IsOpen(g) /\ ffh[g] = k
    BY <1>6, <1>7, <2>3 DEF HasOwner
  <2>4. CASE \E u \in Threads : Uses(u) /\ req[u].op = "release" /\ req[u].fh = k
    <3>1. PICK u \in Threads : Uses(u) /\ req[u].op = "release" /\ req[u].fh = k
      BY <2>4
    <3>2. Uses(u)' /\ req'[u] = req[u]
      BY <1>8, <3>1
    <3> QED
      BY <3>1, <3>2 DEF HasOwner
  <2> QED
    BY <2>1, <2>2, <2>3, <2>4 DEF HasOwner
<1>10. ASSUME NEW i \in Inodes, Residue(i)' PROVE Attended(i)'
  <2>1. Attended(i)
    BY <1>10 DEF Tended, Residue, Release, inodevars
  <2>2. CASE i = InodeOf[f]
    BY <1>4, <2>2 DEF Attended
  <2>3. CASE i # InodeOf[f]
    <3>1. CASE \E g \in Files : InodeOf[g] = i /\ IsOpen(g)
      BY <1>7, <2>3, <3>1 DEF Attended
    <3>2. CASE \E u \in Threads : req[u].op # "none" /\ req[u].ino = i
      BY <1>8, <3>2 DEF Attended
    <3> QED
      BY <2>1, <3>1, <3>2 DEF Attended
  <2> QED
    BY <2>2, <2>3
<1>11. HandlesOwned'
  BY <1>9 DEF HandlesOwned
<1> QED
  BY <1>10, <1>11 DEF Tended

(* The file a write or flush in progress is about stays open.              *)
LEMMA WritersAttended ==
    ASSUME Ownership, NEW t \in Threads, req[t].op \in {"write", "flush"}, ffh' = ffh
    PROVE  \A i \in Inodes : i = req[t].ino => Attended(i)'
<1>1. PICK f \in Files : f = req[t].file
  BY DEF Ownership, TypeOK, Requests
<1>2. req[t].fh \in Fhs /\ ffh[f] = req[t].fh /\ req[t].ino = InodeOf[f]
  BY <1>1 DEF Ownership, TypeOK, Requests, UsersKeepOpen, StepsFitRequests
<1>3. IsOpen(f)'
  BY <1>2, ConstantFacts DEF IsOpen
<1> QED
  BY <1>2, <1>3 DEF Attended

(* Another handle of the inode has an owner of its own.                    *)
LEMMA OthersAttend ==
    ASSUME Ownership, Tended, NEW t \in Threads, CheckLastHandle(t),
           HasHandlesForInode(req[t].ino)
    PROVE  \A i \in Inodes : i = req[t].ino => Attended(i)'
<1>1. req[t].ino \in Inodes /\ req[t].ino # 0
  BY ConstantFacts DEF Ownership, TypeOK, Requests
<1>2. PICK h \in Fhs : handles[h].inode = req[t].ino
  BY DEF HasHandlesForInode
<1>3. HasOwner(h)
  BY <1>1, <1>2 DEF Tended, HandlesOwned
<1>4. CASE \E f \in Files : IsOpen(f) /\ ffh[f] = h
  BY <1>2, <1>4 DEF Ownership, HandleIdentity, Attended, IsOpen, CheckLastHandle, kernelvars
<1>5. CASE \E u \in Threads : Uses(u) /\ req[u].op = "release" /\ req[u].fh = h
  <2>1. PICK u \in Threads : Uses(u) /\ req[u].op = "release" /\ req[u].fh = h
    BY <1>5
  <2>2. req[u].ino = req[t].ino
    BY <1>2, <2>1 DEF Ownership, HandleIdentity
  <2>3. u # t
    BY <2>1 DEF Uses, CheckLastHandle
  <2>4. req'[u] = req[u]
    BY <2>3 DEF CheckLastHandle, Ownership, TypeOK
  <2> QED
    BY <2>1, <2>2, <2>4 DEF Attended
<1> QED
  BY <1>3, <1>4, <1>5 DEF HasOwner

LEMMA ProceedKeepsTended ==
    ASSUME Ownership, Tended, NEW t \in Threads, Proceed(t)
    PROVE  Tended'
<1>1. /\ TypeOK /\ req[t] \in Requests /\ req[t].ino \in Inodes /\ req[t].fh \in Fhs
      /\ pc[t] = "idle" <=> req[t].op = "none"
      /\ pc[t] = "snap" => req[t].op = "write"
      /\ pc[t] \in {"drop", "check", "evict"} => req[t].op = "release"
  BY DEF Ownership, TypeOK, StepsFitRequests, Requests
<1>2. CASE FlushWrite(t)
  <2>1. req[t].op = "write" /\ pc[t] = "snap" /\ Snapshot(t, req[t], "Final") /\ ffh' = ffh
    BY <1>1, <1>2 DEF FlushWrite, kernelvars
  <2>2. \A u \in Threads \ {t} : Stays(u)
    BY <1>1, <2>1, SnapshotEffect
  <2>3. \A i \in Inodes : i = req[t].ino => Attended(i)'
    BY <2>1, WritersAttended
  <2>4. \A i \in Inodes : Residue(i)' => Residue(i)
    BY <1>2 DEF FlushWrite, Residue, inodevars
  <2> QED
    BY <1>2, <2>1, <2>2, <2>3, <2>4, WorkerKeepsTended DEF FlushWrite
<1>3. CASE GetLock(t)
  <2>1. PICK m \in Locks :
            /\ req' = [req EXCEPT ![t].lock = m]
            /\ write_locks' = [write_locks EXCEPT ![req[t].ino] = m]
    BY <1>3 DEF GetLock
  <2>2. /\ \A u \in Threads \ {t} : Stays(u)
        /\ pc[t] = "getlock" /\ pc'[t] = "lock" /\ ffh' = ffh /\ handles' = handles
        /\ req'[t].op = req[t].op /\ req'[t].ino = req[t].ino /\ req'[t].fh = req[t].fh
    BY <1>1, <1>3, <2>1 DEF GetLock, Stays, TypeOK, Requests, kernelvars
  <2>3. req'[t].op # "none"
    BY <1>1, <2>2
  <2>4. \A i \in Inodes : i = req[t].ino => Attended(i)'
    BY <2>2, <2>3 DEF Attended
  <2>5. \A i \in Inodes : Residue(i)' => Residue(i) \/ i = req[t].ino
    BY <1>1, <1>3, <2>1 DEF GetLock, Residue, TypeOK
  <2>6. Uses(t) => Uses(t)'
    BY <2>2 DEF Uses
  <2> QED
    BY <2>2, <2>3, <2>4, <2>5, <2>6, WorkerKeepsTended
<1>4. CASE Lock(t) \/ StoreWrite(t)
  <2>1. /\ \A u \in Threads \ {t} : Stays(u)
        /\ pc'[t] \in {"flush", "clear"} /\ req' = req
        /\ ffh' = ffh /\ handles' = handles
    BY <1>1, <1>4 DEF Lock, StoreWrite, Stays, TypeOK, kernelvars
  <2>2. Uses(t) => Uses(t)'
    BY <2>1 DEF Uses
  <2>3. \A i \in Inodes : Residue(i)' => Residue(i)
    BY <1>4 DEF Lock, StoreWrite, Residue, inodevars
  <2> QED
    BY <2>1, <2>2, <2>3, WorkerKeepsTended
<1>5. CASE ClearDirty(t) \/ FlushFails(t)
  <2>1. PICK ok \in BOOLEAN : Finish(t, ok)
    BY <1>5 DEF ClearDirty, FlushFails
  <2>2. pc[t] \in {"clear", "flush"} /\ ffh' = ffh /\ req[t].op # "none"
    BY <1>1, <1>5 DEF ClearDirty, FlushFails, kernelvars
  <2>3. req[t].op \in {"write", "flush", "release"}
    BY <1>1, <2>2 DEF Requests
  <2>4. SameInodes
    BY <1>5, ProceedAdvances DEF Proceed, ClearDirty, FlushFails, DropHandle
  <2>5. /\ \A u \in Threads \ {t} : Stays(u)
        /\ req[t].op = "release" =>
             pc'[t] = "drop" /\ req'[t].op = "release"
             /\ req'[t].ino = req[t].ino /\ req'[t].fh = req[t].fh
    BY <1>1, <2>1, FinishEffect
  <2>6. req[t].op = "release" => Uses(t)'
    BY <2>5 DEF Uses
  <2>7. \A i \in Inodes : i = req[t].ino => Attended(i)'
    <3>1. CASE req[t].op = "release"
      BY <2>5, <3>1 DEF Attended
    <3>2. CASE req[t].op # "release"
      BY <2>2, <2>3, <3>2, WritersAttended
    <3> QED
      BY <3>1, <3>2
  <2>8. \A i \in Inodes : Residue(i)' => Residue(i) \/ i = req[t].ino
    BY <1>5 DEF ClearDirty, FlushFails, Residue
  <2>9. \A h \in Fhs : handles'[h].inode # 0 => handles[h].inode # 0
    BY <2>4 DEF SameInodes
  <2> QED
    BY <2>2, <2>5, <2>6, <2>7, <2>8, <2>9, WorkerKeepsTended
<1>6. CASE DropHandle(t)
  <2>1. /\ \A u \in Threads \ {t} : Stays(u)
        /\ req' = req /\ ffh' = ffh
        /\ \A h \in Fhs : handles'[h] = IF h = req[t].fh THEN Vacant ELSE handles[h]
    BY <1>1, <1>6 DEF DropHandle, Stays, TypeOK, kernelvars
  <2>2. /\ handles'[req[t].fh].inode = 0
        /\ \A h \in Fhs : handles'[h].inode # 0 => handles[h].inode # 0
    BY <1>1, <2>1, VacantFacts
  <2>3. \A i \in Inodes : Residue(i)' => Residue(i)
    BY <1>6 DEF DropHandle, Residue, inodevars
  <2> QED
    BY <2>1, <2>2, <2>3, WorkerKeepsTended
<1>7. CASE CheckLastHandle(t)
  <2>1. /\ \A u \in Threads \ {t} : Stays(u)
        /\ ~Uses(t) /\ ffh' = ffh /\ handles' = handles
    BY <1>1, <1>7 DEF CheckLastHandle, Stays, TypeOK, Uses, kernelvars
  <2>2. \A i \in Inodes : i = req[t].ino => req'[t] = req[t] \/ Attended(i)'
    <3>1. CASE HasHandlesForInode(req[t].ino)
      BY <1>7, <3>1, OthersAttend
    <3>2. CASE ~HasHandlesForInode(req[t].ino)
      BY <1>1, <1>7, <3>2 DEF CheckLastHandle, TypeOK
    <3> QED
      BY <3>1, <3>2
  <2>3. \A i \in Inodes : Residue(i)' => Residue(i)
    BY <1>7 DEF CheckLastHandle, Residue, inodevars
  <2> QED
    BY <2>1, <2>2, <2>3, WorkerKeepsTended
<1>8. CASE Evict(t)
  <2>1. /\ \A u \in Threads \ {t} : Stays(u)
        /\ ~Uses(t) /\ ffh' = ffh /\ handles' = handles
    BY <1>1, <1>8 DEF Evict, Stays, TypeOK, Uses, kernelvars
  <2>2. \A i \in Inodes : Residue(i)' => Residue(i) /\ i # req[t].ino
    BY <1>1, <1>8 DEF Evict, Residue, TypeOK
  <2> QED
    BY <2>1, <2>2, WorkerKeepsTended
<1> QED
  BY <1>2, <1>3, <1>4, <1>5, <1>6, <1>7, <1>8 DEF Proceed

(* A write or flush that a worker takes, or answers at once.               *)
LEMMA BeginKeepsTended ==
    ASSUME ~KernelPassthrough, Ownership, Tended, NEW t \in Threads, Begin(t)
    PROVE  Tended'
<1>1. PICK f \in Files :
        \/ Flush(t, f) \/ Release(t, f)
        \/ \E off \in 0 .. MaxLen, fd \in Contents : Write(t, f, off, fd)
  BY DEF Begin
<1>2. TypeOK /\ \A u \in Threads : pc[u] = "idle" => req[u].op = "none" /\ ~Uses(u)
  BY DEF Ownership, StepsFitRequests, Uses
<1>3. CASE Release(t, f)
  BY <1>3, ReleaseKeepsTended
<1>4. CASE Flush(t, f)
  <2> DEFINE r == [Request("flush", f) EXCEPT !.fh = ffh[f]]
  <2>1. ffh[f] \in Fhs /\ pc[t] = "idle" /\ ffh' = ffh /\ Snapshot(t, r, "Eager")
    BY <1>2, <1>4, UseFacts DEF Flush, kernelvars
  <2>2. r \in Requests /\ r.op = "flush"
    BY <2>1, RequestFacts
  <2> HIDE DEF r
  <2>3. \A u \in Threads \ {t} : Stays(u)
    BY <1>2, <2>1, <2>2, SnapshotEffect
  <2>4. \A i \in Inodes : Residue(i)' => Residue(i)
    BY <1>4 DEF Flush, Residue, inodevars
  <2> QED
    BY <1>2, <1>4, <2>1, <2>3, <2>4, WorkerKeepsTended DEF Flush
<1>5. CASE \E off \in 0 .. MaxLen, fd \in Contents : Write(t, f, off, fd)
  <2>1. PICK off \in 0 .. MaxLen, fd \in Contents : Write(t, f, off, fd)
    BY <1>5
  <2>2. ffh' = ffh /\ pc[t] = "idle" /\ \A u \in Threads \ {t} : Stays(u)
    BY <1>2, <2>1 DEF Write, Stays, TypeOK, kernelvars
  <2>3. \A h \in Fhs : handles'[h].inode # 0 => handles[h].inode # 0
    <3> DEFINE e == Written(handles[ffh[f]], off, <<NUL>>, fd)
    <3>1. ffh[f] \in Fhs
      BY <2>1, UseFacts DEF Write
    <3>2. Dirtied(Inodes, handles[ffh[f]], e)
      BY <1>2, <3>1, EntryFacts DEF TypeOK
    <3>3. e.inode = handles[ffh[f]].inode
      BY <3>2 DEF Dirtied
    <3>4. handles' = [handles EXCEPT ![ffh[f]] = e]
      BY <2>1 DEF Write
    <3> HIDE DEF e
    <3> QED
      BY <1>2, <3>1, <3>3, <3>4 DEF TypeOK
  <2>4. \A i \in Inodes : Residue(i)' => Residue(i)
    BY <2>1 DEF Write, Residue, inodevars
  <2> QED
    BY <1>2, <2>2, <2>3, <2>4, WorkerKeepsTended
<1> QED
  BY <1>1, <1>3, <1>4, <1>5

(* Only an open turns a vacant entry into one of an inode.                 *)
LEMMA AtOnceKeepsTended ==
    ASSUME ~KernelPassthrough, Ownership, Ownership', Tended, AtOnce
    PROVE  Tended'
<1> USE ConstantFacts
<1>1. TypeOK
  BY DEF Ownership
<1>2. ASSUME NEW f \in Files, NEW h \in Fhs, NEW e,
             ~IsOpen(f), InsertHandle(f, h, e), UNCHANGED <<pc, req, inodevars>>
      PROVE  Tended'
  BY <1>2, InsertKeepsTended
<1>3. ASSUME NEW f \in Files, NEW h \in Fhs, NEW app \in Appends,
             OpenDirect(f, h, app) \/ OpenBuffered(f, h, app)
             \/ \E trunc \in BOOLEAN : Create(f, h, trunc, app)
      PROVE  Tended'
  BY <1>2, <1>3 DEF OpenDirect, OpenBuffered, Create
<1>4. ASSUME SomeWorkerIdle, SameInodes, UNCHANGED <<kernelvars, inodevars, pc, req>>
      PROVE  Tended'
  <2>1. PICK t \in Threads : pc[t] = "idle"
    BY <1>4 DEF SomeWorkerIdle
  <2>2. \A u \in Threads : Stays(u)
    BY <1>4 DEF Stays
  <2>3. \A i \in Inodes : Residue(i)' => Residue(i)
    BY <1>4 DEF Residue, inodevars
  <2>4. \A h \in Fhs : handles'[h].inode # 0 => handles[h].inode # 0
    BY <1>4 DEF SameInodes
  <2>5. Uses(t)' <=> Uses(t)
    BY <1>4 DEF Uses
  <2> QED
    BY <1>4, <2>2, <2>3, <2>4, <2>5, WorkerKeepsTended DEF kernelvars
<1>5. ASSUME NEW f \in Files, NEW n \in 0 .. MaxLen, WriteFails(f, n) PROVE Tended'
  <2>1. Kept(Inodes, handles[ffh[f]], WriteFailed(handles[ffh[f]], n))
    BY <1>1, <1>5, UseFacts, EntryFacts DEF WriteFails, TypeOK
  <2>2. SameInodes
    BY <1>1, <1>5, <2>1 DEF WriteFails, SameInodes, TypeOK, Kept
  <2> QED
    BY <1>4, <1>5, <2>2 DEF WriteFails
<1>6. ASSUME NEW f \in Files, NEW size \in 0 .. MaxLen, NEW fd \in Contents,
             TruncateFile(f, size, fd)
      PROVE  Tended'
  <2>1. Kept(Inodes, handles[ffh[f]], TruncatedTo(handles[ffh[f]], size, fd))
    BY <1>1, <1>6, UseFacts, EntryFacts DEF TruncateFile, TypeOK
  <2>2. TruncatedTo(handles[ffh[f]], size, fd).inode = handles[ffh[f]].inode
    BY <2>1 DEF Kept
  <2>3. SameInodes
    BY <1>1, <1>6, <2>2 DEF TruncateFile, SameInodes, TypeOK
  <2> QED
    BY <1>4, <1>6, <2>3 DEF TruncateFile
<1>7. ASSUME NEW i \in Inodes, NEW size \in 0 .. MaxLen, NEW fd \in Contents,
             TruncateInode(i, size, fd)
      PROVE  Tended'
  <2>1. \A h \in Fhs : TruncatedTo(handles[h], size, fd).inode = handles[h].inode
    <3>1. \A h \in Fhs : Kept(Inodes, handles[h], TruncatedTo(handles[h], size, fd))
      BY <1>1, EntryFacts DEF TypeOK
    <3> QED
      BY <3>1 DEF Kept
  <2>2. SameInodes
    BY <1>7, <2>1 DEF TruncateInode, SameInodes
  <2> QED
    BY <1>4, <1>7, <2>2 DEF TruncateInode
<1>8. \A f \in Files : ~OpenPassthrough(f)
  BY DEF OpenPassthrough
<1> QED
  BY <1>3, <1>5, <1>6, <1>7, <1>8 DEF AtOnce

LEMMA TendedStep ==
    ASSUME ~KernelPassthrough, Ownership, Ownership', Tended, [Next]_vars
    PROVE  Tended'
<1>1. CASE AtOnce
  BY <1>1, AtOnceKeepsTended
<1>2. CASE \E t \in Threads : Begin(t) \/ Proceed(t)
  BY <1>2, BeginKeepsTended, ProceedKeepsTended
<1>3. CASE UNCHANGED vars
  BY <1>3 DEF vars, Tended, HandlesOwned, HasOwner, Attended, Residue, IsOpen, Uses
<1> QED
  BY <1>1, <1>2, <1>3 DEF Next

LEMMA TendedInit == Init => Tended
BY VacantFacts DEF Init, Tended, HandlesOwned, Residue

(* Whatever releases, opens, writes and late flushes overlap, a mutex or a  *)
(* write error is kept only for an inode with an open file or a request in  *)
(* progress: the last handle's release, which checks and evicts in two      *)
(* steps, never leaves one behind.                                          *)
THEOREM NothingKeptForClosed ==
    ASSUME ~KernelPassthrough
    PROVE  Spec => []NoResidue
<1>1. Init => Ownership /\ Tended
  BY OwnershipInit, TendedInit
<1>2. Ownership /\ Tended /\ [Next]_vars => Ownership' /\ Tended'
  BY OwnershipStep, TendedStep
<1>3. Tended => NoResidue
  BY DEF Tended, Residue, Attended, NoResidue
<1> QED
  BY <1>1, <1>2, <1>3, PTL DEF Spec

-----------------------------------------------------------------------------
(* Nothing is written through a handle that still reads its descriptor.    *)
DescriptorIsClean == entry.source = "DirectFd" => entry.dirty_gen = 0

(* A loaded buffer that was emptied says so: an eager flush defers it.     *)
EmptiedIsMarked ==
    entry.source = "Preloaded" /\ entry.buffer = << >> /\ IsDirty(entry)
        => entry.truncation # "None"

(* The handle remembers how its client opened it.                          *)
FlagsAreKept ==
    /\ flags \in [append : BOOLEAN, whole : BOOLEAN] /\ turn \in BOOLEAN
    /\ Opened => /\ entry.append = flags.append
                 /\ entry.source = "Preloaded" <=> flags.whole = TRUE

SingleInv ==
    SingleTypeOK /\ DescriptorIsClean /\ EmptiedIsMarked /\ CleanIsSaved /\ FlagsAreKept

-----------------------------------------------------------------------------
LEMMA InodeFacts == {Inode} \subseteq Nat \ {0} /\ Inode \in {Inode}
BY SingleHandleAssumption

(* What an operator that changes some fields of an entry leaves.           *)
LEMMA EntryFields ==
    ASSUME NEW e \in Entries({Inode})
    PROVE  /\ e.inode \in {Inode, 0} /\ e.buffer \in Content /\ e.source \in Sources
           /\ e.dirty_gen \in Nat /\ e.append \in BOOLEAN /\ e.truncation \in Truncations
BY DEF Entries

(* What do_flush leaves: nothing changed, or the buffer is stored and the  *)
(* handle clean.                                                           *)
Flushed(e) ==
    /\ entry' \in Entries({Inode})
    /\ entry'.inode = e.inode /\ entry'.buffer = e.buffer /\ entry'.source = e.source
    /\ entry'.truncation = e.truncation /\ entry'.append = e.append
    /\ entry'.dirty_gen = 0 /\ store' = e.buffer

LEMMA FlushFacts ==
    ASSUME NEW e \in Entries({Inode}), NEW mode, NEW ok \in BOOLEAN,
           FlushOf(e, mode, ok), rejected \in BOOLEAN
    PROVE  /\ rejected' \in BOOLEAN
           /\ \/ entry' = e /\ store' = store /\ ~(ok /\ MustFlush(e, mode))
              \/ Flushed(e) /\ IsDirty(e) /\ ~Deferred(e, mode) /\ ok
<1>1. e.dirty_gen \in Nat
  BY EntryFields
<1>2. ClearedAt({Inode}, e, e.dirty_gen, Cleared(e, e.dirty_gen))
  BY <1>1, InodeFacts, ClearedFacts
<1>3. LET c == Cleared(e, e.dirty_gen) IN
      /\ c \in Entries({Inode}) /\ c.inode = e.inode /\ c.dirty_gen = 0
      /\ c.buffer = e.buffer /\ c.source = e.source /\ c.truncation = e.truncation
      /\ c.append = e.append
  BY <1>2 DEF ClearedAt, Cleared, Entries
<1>4. CASE ~MustFlush(e, mode)
  BY <1>4 DEF FlushOf
<1>5. CASE MustFlush(e, mode)
  BY <1>3, <1>5 DEF FlushOf, MustFlush, Flushed
<1> QED
  BY <1>4, <1>5

(* A buffer cut no shorter than it is stays as it is.                      *)
LEMMA CutWhole ==
    ASSUME NEW c \in Content, NEW n \in Nat, Len(c) <= n
    PROVE  Cut(c, n) = c
<1>1. /\ Cut(c, n) \in Content /\ Len(Cut(c, n)) = Len(c)
      /\ \A i \in 1 .. Len(Cut(c, n)) : Cut(c, n)[i] = c[i]
  <2>1. Len(c) \in Nat
    BY LenProperties DEF Content
  <2> QED
    BY <2>1, CutFacts
<1> QED
  BY <1>1, SeqEqual DEF Content

(* A written byte leaves something in the buffer, read back where the      *)
(* handle was reading before it.                                           *)
LEMMA WriteFacts ==
    ASSUME NEW e \in Entries({Inode}), NEW off \in Nat, NEW b \in Bytes, store \in Content
    PROVE  LET w == Written(e, off, <<b>>, store) IN
           /\ w \in Entries({Inode}) /\ w.inode = e.inode
           /\ w.dirty_gen = e.dirty_gen + 1
           /\ w.source # "DirectFd" /\ w.buffer # << >>
           /\ w.source = "Preloaded" <=> e.source = "Preloaded"
           /\ w.append = e.append
           /\ w.buffer = Spliced(View(e, store), WriteOffset(e, off, store), <<b>>)
           /\ View(e, store) \in Content /\ WriteOffset(e, off, store) \in Nat
<1> DEFINE w == Written(e, off, <<b>>, store)
           c == View(e, store)
           o == WriteOffset(e, off, store)
<1>1. Dirtied({Inode}, e, w)
  BY InodeFacts, WrittenFacts
<1>2. c \in Content /\ Populated(e, store) = c
  BY EntryFields DEF View, Populated
<1>3. o \in Nat
  BY <1>2, LenProperties DEF WriteOffset, Content
<1>4. /\ w.buffer = Spliced(c, o, <<b>>) /\ w.source # "DirectFd"
      /\ w.source = "Preloaded" <=> e.source = "Preloaded"
      /\ w.append = e.append
  BY <1>2 DEF Written, Entries, Sources
<1>5. <<b>> \in Content /\ Len(<<b>>) = 1
  BY DEF Content
<1>6. Len(Spliced(c, o, <<b>>)) > 0
  <2>1. Len(c) \in Nat
    BY <1>2, LenProperties DEF Content
  <2> HIDE DEF c, o
  <2>2. Len(Spliced(c, o, <<b>>)) = IF o + Len(<<b>>) > Len(c) THEN o + Len(<<b>>) ELSE Len(c)
    BY <1>2, <1>3, <1>5, SplicedFacts
  <2> QED
    BY <1>3, <1>5, <2>1, <2>2
<1>7. w.buffer # << >>
  BY <1>4, <1>6, EmptySeq
<1> QED
  BY <1>1, <1>2, <1>3, <1>4, <1>7 DEF Dirtied

LEMMA VacantHandle ==
    ASSUME store' \in Content, entry' = Vacant, rejected' \in BOOLEAN, tail' \in BOOLEAN,
           turn' \in BOOLEAN, flags' \in [append : BOOLEAN, whole : BOOLEAN]
    PROVE  SingleInv'
<1>1. Vacant \in Entries({Inode}) /\ Vacant.inode = 0 /\ Vacant.dirty_gen = 0
      /\ Vacant.source # "DirectFd"
  BY InodeFacts, VacantFacts DEF Vacant
<1>2. SingleTypeOK'
  BY <1>1 DEF SingleTypeOK
<1>3. ~Opened' /\ entry'.dirty_gen = 0 /\ entry'.source # "DirectFd"
  BY <1>1 DEF Opened
<1>4. DescriptorIsClean' /\ EmptiedIsMarked' /\ CleanIsSaved' /\ FlagsAreKept'
  BY <1>3 DEF DescriptorIsClean, EmptiedIsMarked, CleanIsSaved, IsDirty, FlagsAreKept
<1> QED
  BY <1>2, <1>4 DEF SingleInv

-----------------------------------------------------------------------------
LEMMA Initially == SingleInit => SingleInv
<1> SUFFICES ASSUME SingleInit PROVE SingleInv
  OBVIOUS
<1>1. store \in Content
  <2>1. PICK n \in 0 .. MaxSize : store \in [1 .. n -> Bytes]
    BY SingleHandleAssumption DEF SingleInit, StoredContents
  <2> QED
    BY <2>1, SingleHandleAssumption, FunctionIsSequence DEF Content
<1>2. Vacant \in Entries({Inode}) /\ Vacant.inode = 0 /\ Vacant.dirty_gen = 0
      /\ Vacant.source # "DirectFd"
  BY InodeFacts, VacantFacts DEF Vacant
<1>3. SingleTypeOK
  BY <1>1, <1>2 DEF SingleInit, SingleTypeOK
<1>4. ~Opened /\ entry.dirty_gen = 0 /\ entry.source # "DirectFd"
  BY <1>2 DEF SingleInit, Opened
<1>5. DescriptorIsClean /\ EmptiedIsMarked /\ CleanIsSaved
  BY <1>4 DEF DescriptorIsClean, EmptiedIsMarked, CleanIsSaved, IsDirty
<1>6. FlagsAreKept
  BY <1>4 DEF FlagsAreKept, SingleInit
<1> QED
  BY <1>3, <1>5, <1>6 DEF SingleInv

(* The three ways to open leave a clean handle that shows the store and    *)
(* remembers the client's flags.                                           *)
LEMMA OpenKeeps ==
    ASSUME SingleInv, NEW app \in BOOLEAN,
           \/ OpenDescriptor(app) \/ OpenWhole(app)
           \/ \E trunc \in BOOLEAN : CreateNew(trunc, app)
    PROVE  /\ SingleInv' /\ ~Opened /\ Opened' /\ store' = store /\ Content0' = store
           /\ entry'.dirty_gen = 0
           /\ \E whole \in BOOLEAN : OpensWith(app, whole)
<1>0. /\ store \in Content /\ rejected \in BOOLEAN /\ Inode # 0 /\ ~Opened
      /\ UNCHANGED <<store, rejected, tail>> /\ tail \in BOOLEAN /\ turn \in BOOLEAN
  <2>1. /\ store \in Content /\ rejected \in BOOLEAN /\ tail \in BOOLEAN /\ Inode # 0
        /\ turn \in BOOLEAN
    BY SingleHandleAssumption DEF SingleInv, SingleTypeOK
  <2>2. Closed /\ UNCHANGED <<store, rejected, tail>>
    BY DEF OpenDescriptor, OpenWhole, CreateNew
  <2>3. ~Opened
    BY <2>2 DEF Closed, Opened, Vacant
  <2> QED
    BY <2>1, <2>2, <2>3
<1>1. SUFFICES /\ MadeFor({Inode}, Inode, entry') /\ entry'.dirty_gen = 0
               /\ Content0' = store
               /\ \E whole \in BOOLEAN :
                    /\ OpensWith(app, whole) /\ entry'.append = app
                    /\ entry'.source = "Preloaded" <=> whole = TRUE
  <2>1. PICK whole \in BOOLEAN :
          /\ OpensWith(app, whole) /\ entry'.append = app
          /\ entry'.source = "Preloaded" <=> whole = TRUE
    BY <1>1
  <2>2. /\ flags' \in [append : BOOLEAN, whole : BOOLEAN] /\ turn' \in BOOLEAN
        /\ flags'.append = app /\ flags'.whole = whole
    BY <1>0, <2>1 DEF OpensWith, Requested
  <2>3. FlagsAreKept'
    BY <2>1, <2>2 DEF FlagsAreKept
  <2>4. SingleTypeOK'
    BY <1>0, <1>1, <2>2 DEF SingleTypeOK, MadeFor
  <2>5. DescriptorIsClean' /\ EmptiedIsMarked' /\ CleanIsSaved' /\ Opened'
    BY <1>0, <1>1
    DEF MadeFor, DescriptorIsClean, EmptiedIsMarked, CleanIsSaved, Opened, IsDirty
  <2> QED
    BY <1>0, <1>1, <2>1, <2>3, <2>4, <2>5 DEF SingleInv
<1>2. CASE OpenDescriptor(app)
  <2>1. MadeFor({Inode}, Inode, entry')
    BY <1>2, InodeFacts, NewDirectFacts DEF OpenDescriptor
  <2> QED
    BY <1>0, <1>2, <2>1 DEF OpenDescriptor, NewDirect, Content0, View
<1>3. CASE OpenWhole(app)
  <2>1. MadeFor({Inode}, Inode, entry')
    BY <1>0, <1>3, InodeFacts, NewBufferedFacts DEF OpenWhole
  <2> QED
    BY <1>0, <1>3, <2>1 DEF OpenWhole, NewBuffered, Content0, View
<1>4. ASSUME NEW trunc \in BOOLEAN, CreateNew(trunc, app)
      PROVE  /\ MadeFor({Inode}, Inode, entry') /\ entry'.dirty_gen = 0
             /\ Content0' = store
             /\ \E whole \in BOOLEAN :
                    /\ OpensWith(app, whole) /\ entry'.append = app
                    /\ entry'.source = "Preloaded" <=> whole = TRUE
  <2>1. << >> \in Content
    BY EmptySeq DEF Content
  <2>2. MadeFor({Inode}, Inode, entry')
    BY <1>4, <2>1, InodeFacts, NewBufferedFacts DEF CreateNew
  <2> QED
    BY <1>0, <1>4, <2>2 DEF CreateNew, NewBuffered, Content0, View
<1> QED
  BY <1>2, <1>3, <1>4

LEMMA WriteKeeps ==
    ASSUME SingleInv, NEW off \in 0 .. MaxSize, NEW b \in Bytes, NEW ok \in BOOLEAN,
           WriteAt(off, <<b>>, ok)
    PROVE  /\ SingleInv' /\ Opened'
           /\ \/ store' = store /\ IsDirty(entry)'
              \/ ok /\ store' = Content0' /\ ~IsDirty(entry)'
           /\ Content0' # << >>
           /\ Content0' = Spliced(Content0, WriteOffset(entry, off, store), <<b>>)
           /\ Content0 \in Content /\ WriteOffset(entry, off, store) \in Nat
           /\ WriteOffset(entry, off, store) = IF flags.append THEN Len(Content0) ELSE off
<1> DEFINE w == Written(entry, off, <<b>>, store)
<1>0. /\ entry \in Entries({Inode}) /\ store \in Content /\ off \in Nat
      /\ rejected \in BOOLEAN /\ Opened /\ entry.dirty_gen \in Nat /\ tail' = FALSE
      /\ FlagsAreKept /\ flags' = flags /\ turn' \in BOOLEAN
  <2>1. /\ entry \in Entries({Inode}) /\ store \in Content /\ rejected \in BOOLEAN
        /\ FlagsAreKept /\ turn \in BOOLEAN
    BY DEF SingleInv, SingleTypeOK
  <2>2. Opened /\ tail' = FALSE /\ flags' = flags /\ turn' = ~turn
    BY DEF WriteAt, Requested
  <2>3. off \in Nat
    BY SingleHandleAssumption
  <2> QED
    BY <2>1, <2>2, <2>3, EntryFields
<1>1. /\ w \in Entries({Inode}) /\ w.inode = entry.inode
      /\ w.dirty_gen = entry.dirty_gen + 1
      /\ w.source # "DirectFd" /\ w.buffer # << >>
      /\ w.buffer = Spliced(Content0, WriteOffset(entry, off, store), <<b>>)
      /\ Content0 \in Content /\ WriteOffset(entry, off, store) \in Nat
      /\ w.buffer \in Content /\ w.append = entry.append
      /\ w.source = "Preloaded" <=> entry.source = "Preloaded"
  <2>1. /\ w \in Entries({Inode}) /\ w.inode = entry.inode
        /\ w.dirty_gen = entry.dirty_gen + 1
        /\ w.source # "DirectFd" /\ w.buffer # << >>
        /\ w.buffer = Spliced(View(entry, store), WriteOffset(entry, off, store), <<b>>)
        /\ View(entry, store) \in Content /\ WriteOffset(entry, off, store) \in Nat
        /\ w.append = entry.append /\ (w.source = "Preloaded" <=> entry.source = "Preloaded")
    BY <1>0, WriteFacts
  <2> HIDE DEF w
  <2> QED
    BY <2>1, EntryFields DEF Content0
<1> HIDE DEF w
<1>2. /\ rejected' \in BOOLEAN
      /\ (entry' = w /\ store' = store) \/ (Flushed(w) /\ ok)
  <2>1. CASE IsReplacement(entry)
    BY <1>0, <1>1, <2>1, FlushFacts DEF WriteAt, w
  <2>2. CASE ~IsReplacement(entry)
    BY <1>0, <2>2 DEF WriteAt, w
  <2> QED
    BY <2>1, <2>2
<1>3. /\ entry' \in Entries({Inode}) /\ entry'.inode = entry.inode
      /\ entry'.buffer = w.buffer /\ entry'.source # "DirectFd"
      /\ \/ entry'.dirty_gen = entry.dirty_gen + 1 /\ store' = store
         \/ entry'.dirty_gen = 0 /\ ok /\ store' = w.buffer
      /\ store' \in Content /\ entry'.append = entry.append
      /\ entry'.source = "Preloaded" <=> entry.source = "Preloaded"
  BY <1>0, <1>1, <1>2 DEF Flushed
<1>4. Content0' = w.buffer
  BY <1>3 DEF Content0, View
<1>5. SingleTypeOK' /\ FlagsAreKept'
  BY <1>0, <1>2, <1>3 DEF SingleTypeOK, FlagsAreKept, Opened
<1>6. DescriptorIsClean' /\ EmptiedIsMarked'
  BY <1>1, <1>3 DEF DescriptorIsClean, EmptiedIsMarked
<1>7. CleanIsSaved'
  BY <1>0, <1>3, <1>4 DEF CleanIsSaved, IsDirty
<1>8. WriteOffset(entry, off, store) = IF flags.append THEN Len(Content0) ELSE off
  BY <1>0 DEF WriteOffset, Populated, Content0, View, FlagsAreKept
<1>9. \/ store' = store /\ IsDirty(entry)'
      \/ ok /\ store' = Content0' /\ ~IsDirty(entry)'
  BY <1>0, <1>3, <1>4 DEF IsDirty
<1> QED
  BY <1>0, <1>1, <1>3, <1>4, <1>5, <1>6, <1>7, <1>8, <1>9 DEF SingleInv, Opened

LEMMA TruncateKeeps ==
    ASSUME SingleInv, NEW size \in 0 .. MaxSize, Truncate(size)
    PROVE  /\ SingleInv' /\ Opened' /\ store' = store
           /\ Content0' = Cut(Content0, size) /\ Content0 \in Content
           /\ IsDirty(entry)' <=> IsDirty(entry) \/ (flags.whole /\ size < Len(Content0))
<1> DEFINE t == TruncatedTo(entry, size, store)
<1>0. /\ entry \in Entries({Inode}) /\ store \in Content /\ size \in Nat
      /\ rejected \in BOOLEAN /\ Opened /\ entry.dirty_gen \in Nat /\ tail \in BOOLEAN
      /\ tail' = (tail \/ entry.source # "Preloaded")
      /\ UNCHANGED <<store, rejected, flags>> /\ entry.buffer \in Content
      /\ turn' \in BOOLEAN /\ FlagsAreKept
  <2>1. turn' \in BOOLEAN /\ FlagsAreKept /\ flags' = flags
    BY DEF SingleInv, SingleTypeOK, Truncate, Requested
  <2>2. /\ Opened /\ tail' = (tail \/ entry.source # "Preloaded")
        /\ UNCHANGED <<store, rejected>>
    BY DEF Truncate
  <2>3. /\ entry \in Entries({Inode}) /\ store \in Content /\ size \in Nat
        /\ rejected \in BOOLEAN /\ tail \in BOOLEAN
    BY SingleHandleAssumption DEF SingleInv, SingleTypeOK
  <2> QED
    BY <2>1, <2>2, <2>3, EntryFields
<1>1. entry' = t /\ Kept({Inode}, entry, t)
  BY <1>0, InodeFacts, TruncatedFacts DEF Truncate
<1>2. /\ t.source = IF entry.source = "DirectFd" THEN "Truncated" ELSE entry.source
      /\ t.buffer = Cut(IF entry.source = "DirectFd" /\ size > 0 THEN store ELSE entry.buffer,
                        size)
      /\ t.dirty_gen = IF entry.source = "Preloaded" /\ size < Len(entry.buffer)
                       THEN entry.dirty_gen + 1 ELSE entry.dirty_gen
      /\ t.truncation = IF entry.source = "DirectFd"
                           \/ (entry.source = "Preloaded" /\ size < Len(entry.buffer))
                        THEN "Pending" ELSE entry.truncation
      /\ t.append = entry.append
  BY <1>0 DEF TruncatedTo, Entries
<1> HIDE DEF t
<1>3. \A c, d \in Content : size = 0 => Cut(c, size) = Cut(d, size)
  <2>1. ASSUME NEW c \in Content, size = 0 PROVE Cut(c, size) = << >>
    <3>1. Len(c) \in Nat
      BY LenProperties DEF Content
    <3>2. Cut(c, size) \in Content /\ Len(Cut(c, size)) = 0
      BY <1>0, <2>1, <3>1, CutFacts, SMTT(40)
    <3> QED
      BY <3>2, EmptySeq DEF Content
  <2> QED
    BY <2>1
<1>4. Content0' = Cut(Content0, size) /\ Content0 \in Content
  <2>1. Content0' = t.buffer
    BY <1>1, <1>2 DEF Content0, View
  <2> QED
    BY <1>0, <1>2, <1>3, <2>1 DEF Content0, View
<1>5. SingleTypeOK' /\ FlagsAreKept'
  BY <1>0, <1>1, <1>2 DEF SingleTypeOK, FlagsAreKept, Opened, Kept
<1>6. DescriptorIsClean'
  BY <1>1, <1>2 DEF DescriptorIsClean
<1>7. entry.source = "Preloaded" /\ ~(size < Len(entry.buffer)) => t.buffer = entry.buffer
  BY <1>0, <1>2, CutWhole, LenProperties DEF Content
<1>8. EmptiedIsMarked'
  BY <1>1, <1>2, <1>7 DEF SingleInv, EmptiedIsMarked, IsDirty
<1>9. CleanIsSaved'
  <2> SUFFICES ASSUME entry'.dirty_gen = 0, ~tail' PROVE Content0' = store'
    <3>1. entry'.dirty_gen \in Nat
      BY <1>1, EntryFields DEF Kept
    <3> QED
      BY <3>1 DEF CleanIsSaved, IsDirty
  <2>1. entry.source = "Preloaded" /\ ~tail
    BY <1>0
  <2>2. ~(size < Len(entry.buffer)) /\ entry.dirty_gen = 0
    BY <1>0, <1>1, <1>2, <2>1
  <2> QED
    BY <1>0, <1>1, <1>2, <1>7, <2>1, <2>2 DEF SingleInv, CleanIsSaved, IsDirty, Content0, View
<1>10. IsDirty(entry)' <=> IsDirty(entry) \/ (flags.whole /\ size < Len(Content0))
  <2>1. flags.whole \in BOOLEAN /\ (entry.source = "Preloaded" <=> flags.whole = TRUE)
    BY <1>0 DEF FlagsAreKept
  <2>2. entry.source = "Preloaded" => Content0 = entry.buffer
    BY DEF Content0, View
  <2>3. Len(entry.buffer) \in Nat /\ entry'.dirty_gen = t.dirty_gen
    BY <1>0, <1>1, LenProperties DEF Content
  <2> QED
    BY <1>0, <1>2, <2>1, <2>2, <2>3 DEF IsDirty
<1> QED
  BY <1>0, <1>1, <1>4, <1>5, <1>6, <1>8, <1>9, <1>10 DEF SingleInv, Opened, Kept

LEMMA FlushKeeps ==
    ASSUME SingleInv, NEW ok \in BOOLEAN, CloseDuplicate(ok)
    PROVE  /\ SingleInv' /\ Opened' /\ Content0' = Content0
           /\ \/ IsDirty(entry) /\ ok /\ store' = Content0 /\ ~IsDirty(entry)'
              \/ /\ store' = store /\ (IsDirty(entry)' <=> IsDirty(entry))
                 /\ ~(IsDirty(entry) /\ ok /\ Content0 # << >>)
           /\ entry.source = "Preloaded" /\ store' = << >> => store' = store
<1>0. /\ entry \in Entries({Inode}) /\ store \in Content /\ entry.dirty_gen \in Nat
      /\ rejected \in BOOLEAN /\ Opened /\ tail \in BOOLEAN /\ tail' = tail
      /\ entry.buffer \in Content /\ FlushOf(entry, "Eager", ok)
      /\ flags' = flags /\ turn' \in BOOLEAN /\ FlagsAreKept
  BY EntryFields DEF SingleInv, SingleTypeOK, CloseDuplicate, Requested
<1>1. /\ rejected' \in BOOLEAN
      /\ \/ entry' = entry /\ store' = store /\ ~(ok /\ MustFlush(entry, "Eager"))
         \/ Flushed(entry) /\ IsDirty(entry) /\ ~Deferred(entry, "Eager") /\ ok
  BY <1>0, FlushFacts
<1>2. CASE entry' = entry /\ store' = store /\ ~(ok /\ MustFlush(entry, "Eager"))
  <2>1. SingleInv' /\ Opened' /\ Content0' = Content0
    BY <1>0, <1>1, <1>2
    DEF SingleInv, SingleTypeOK, DescriptorIsClean, EmptiedIsMarked, CleanIsSaved, Opened,
        Content0, FlagsAreKept
  <2>2. ~(IsDirty(entry) /\ ok /\ Content0 # << >>)
    BY <1>0, <1>2 DEF MustFlush, Deferred, Content0, View, SingleInv, DescriptorIsClean, IsDirty
  <2>3. IsDirty(entry)' <=> IsDirty(entry)
    BY <1>2 DEF IsDirty
  <2> QED
    BY <1>0, <1>2, <2>1, <2>2, <2>3
<1>3. CASE Flushed(entry) /\ IsDirty(entry) /\ ~Deferred(entry, "Eager") /\ ok
  <2>1. entry.source # "DirectFd" /\ Content0 = entry.buffer /\ Content0' = entry.buffer
    BY <1>0, <1>3 DEF SingleInv, DescriptorIsClean, IsDirty, Flushed, Content0, View
  <2>2. entry.source = "Preloaded" => store' # << >>
    BY <1>3 DEF SingleInv, EmptiedIsMarked, Flushed, Deferred
  <2>3. SingleInv'
    BY <1>0, <1>1, <1>3, <2>1
    DEF SingleInv, SingleTypeOK, DescriptorIsClean, EmptiedIsMarked, CleanIsSaved, IsDirty, Flushed,
        FlagsAreKept, Opened
  <2> QED
    BY <1>0, <1>3, <2>1, <2>2, <2>3 DEF Flushed, Opened, IsDirty
<1> QED
  BY <1>1, <1>2, <1>3

LEMMA ReleaseKeeps ==
    ASSUME SingleInv, NEW ok \in BOOLEAN, CloseLast(ok)
    PROVE  /\ SingleInv' /\ ~Opened'
           /\ store' = IF IsDirty(entry) /\ ok THEN Content0 ELSE store
<1>0. /\ entry \in Entries({Inode}) /\ store \in Content /\ entry.dirty_gen \in Nat
      /\ entry.buffer \in Content /\ entry' = Vacant /\ rejected' = FALSE /\ tail' = FALSE
      /\ turn' \in BOOLEAN /\ flags' \in [append : BOOLEAN, whole : BOOLEAN]
  BY EntryFields DEF SingleInv, SingleTypeOK, CloseLast, Requested
<1>1. store' = IF IsDirty(entry) /\ ok THEN Content0 ELSE store
  BY <1>0
  DEF SingleInv, CloseLast, MustFlush, Deferred, IsDirty, DescriptorIsClean, Content0, View
<1>2. store' \in Content
  BY <1>0 DEF CloseLast
<1>3. Vacant.inode = 0
  BY DEF Vacant
<1> QED
  BY <1>0, <1>1, <1>2, <1>3, VacantHandle DEF Opened

LEMMA InvariantKept == SingleInv /\ [SingleNext]_singlevars => SingleInv'
<1> SUFFICES ASSUME SingleInv, [SingleNext]_singlevars PROVE SingleInv'
  OBVIOUS
<1>1. CASE UNCHANGED singlevars
  BY <1>1 DEF singlevars, SingleInv, SingleTypeOK, DescriptorIsClean, EmptiedIsMarked, CleanIsSaved, Opened,
     IsDirty, Content0, FlagsAreKept
<1>2. CASE SingleNext
  BY <1>2, OpenKeeps, WriteKeeps, TruncateKeeps, FlushKeeps, ReleaseKeeps DEF SingleNext
<1> QED
  BY <1>1, <1>2

LEMMA InvHolds == SingleSpec => []SingleInv
BY Initially, InvariantKept, PTL DEF SingleSpec

(* The variables keep their types.                                         *)
THEOREM SingleTypeCorrect == SingleSpec => []SingleTypeOK
<1>1. SingleInv => SingleTypeOK
  BY DEF SingleInv
<1> QED
  BY <1>1, InvHolds, PTL

(* A clean handle has nothing the store lacks, unless it was truncated by  *)
(* descriptor after its last write (release flushes only a dirty handle).  *)
THEOREM CleanStaysSaved == SingleSpec => []CleanIsSaved
<1>1. SingleInv => CleanIsSaved
  BY DEF SingleInv
<1> QED
  BY <1>1, InvHolds, PTL

(* A virtual file being rewritten is never stored empty before its data    *)
(* arrives: neither a write nor an eager flush does it (do_flush).         *)
THEOREM RewritesAreNotStoredEmpty == SingleSpec => EmptyWaitsForRelease
<1> DEFINE Step == Opened /\ entry.source = "Preloaded" /\ store # << >> /\ store' = << >>
                       => entry'.inode = 0
<1>1. SingleInv /\ [SingleNext]_singlevars => Step
  <2> SUFFICES ASSUME SingleInv, [SingleNext]_singlevars, Opened, entry.source = "Preloaded",
                      store # << >>, store' = << >>
               PROVE  entry'.inode = 0
    OBVIOUS
  <2>1. ASSUME NEW app \in BOOLEAN,
               \/ OpenDescriptor(app) \/ OpenWhole(app)
               \/ \E trunc \in BOOLEAN : CreateNew(trunc, app)
        PROVE  FALSE
    BY <2>1, OpenKeeps
  <2>2. ASSUME NEW off \in 0 .. MaxSize, NEW b \in Bytes, NEW ok \in BOOLEAN,
               WriteAt(off, <<b>>, ok)
        PROVE  FALSE
    BY <2>2, WriteKeeps
  <2>3. ASSUME NEW size \in 0 .. MaxSize, Truncate(size) PROVE FALSE
    BY <2>3, TruncateKeeps
  <2>4. ASSUME NEW ok \in BOOLEAN, CloseDuplicate(ok) PROVE FALSE
    BY <2>4, FlushKeeps
  <2>5. ASSUME NEW ok \in BOOLEAN, CloseLast(ok) PROVE entry'.inode = 0
    BY <2>5 DEF CloseLast, Vacant
  <2>6. CASE UNCHANGED singlevars
    BY <2>6 DEF singlevars
  <2> QED
    BY <2>1, <2>2, <2>3, <2>4, <2>5, <2>6 DEF SingleNext
<1>2. SingleInv /\ [SingleNext]_singlevars => [Step]_singlevars
  BY <1>1
<1> QED
  BY <1>2, InvHolds, PTL DEF SingleSpec, EmptyWaitsForRelease

-----------------------------------------------------------------------------
(* The contract's words for a write and a truncation.                      *)

(* The elements of three sequences put together.                           *)
Parts(o, h, m, r) ==
    /\ Len(o) = Len(h) + Len(m) + Len(r)
    /\ \A i \in 1 .. Len(h) : o[i] = h[i]
    /\ \A i \in 1 .. Len(m) : o[Len(h) + i] = m[i]
    /\ \A i \in 1 .. Len(r) : o[Len(h) + Len(m) + i] = r[i]

LEMMA ThreeParts ==
    ASSUME NEW S, NEW h \in Seq(S), NEW m \in Seq(S), NEW r \in Seq(S)
    PROVE  (h \o m) \o r \in Seq(S) /\ Parts((h \o m) \o r, h, m, r)
<1> DEFINE f == h \o m
<1>0. Len(h) \in Nat /\ Len(m) \in Nat /\ Len(r) \in Nat
  BY LenProperties
<1>1. /\ f \in Seq(S) /\ Len(f) = Len(h) + Len(m)
      /\ \A i \in 1 .. Len(h) + Len(m) : f[i] = IF i <= Len(h) THEN h[i] ELSE m[i - Len(h)]
  BY ConcatProperties
<1> HIDE DEF f
<1>a. f \in Seq(S)
  BY <1>1
<1>2. /\ f \o r \in Seq(S) /\ Len(f \o r) = Len(f) + Len(r)
      /\ \A i \in 1 .. Len(f) + Len(r) : (f \o r)[i] = IF i <= Len(f) THEN f[i] ELSE r[i - Len(f)]
  BY <1>a, ConcatProperties
<1>3. ASSUME NEW i \in 1 .. Len(h) PROVE (f \o r)[i] = h[i]
  BY <1>0, <1>1, <1>2
<1>4. ASSUME NEW i \in 1 .. Len(m) PROVE (f \o r)[Len(h) + i] = m[i]
  <2>1. /\ Len(h) + i \in 1 .. Len(h) + Len(m) /\ ~(Len(h) + i <= Len(h))
        /\ (Len(h) + i) - Len(h) = i
    BY <1>0
  <2>2. f[Len(h) + i] = m[i]
    BY <1>1, <2>1
  <2> QED
    BY <1>0, <1>1, <1>2, <2>1, <2>2
<1>5. ASSUME NEW i \in 1 .. Len(r) PROVE (f \o r)[Len(h) + Len(m) + i] = r[i]
  <2>1. /\ Len(f) + i \in 1 .. Len(f) + Len(r) /\ ~(Len(f) + i <= Len(f))
        /\ (Len(f) + i) - Len(f) = i
    BY <1>0, <1>1
  <2> QED
    BY <1>1, <1>2, <2>1
<1> QED
  BY <1>1, <1>2, <1>3, <1>4, <1>5 DEF f, Parts

LEMMA SpliceIsOverwrite ==
    ASSUME NEW c \in Content, NEW off \in Nat, NEW b \in Bytes
    PROVE  /\ Spliced(c, off, <<b>>) = Contract!Overwritten(c, off, <<b>>)
           /\ off <= Len(Spliced(c, off, <<b>>))
<1>a. \A w \in Content :
        /\ Spliced(c, off, w) \in Content
        /\ Len(Spliced(c, off, w)) = IF off + Len(w) > Len(c) THEN off + Len(w) ELSE Len(c)
        /\ \A i \in 1 .. Len(w) : Spliced(c, off, w)[off + i] = w[i]
        /\ \A i \in 1 .. Len(c) : (i <= off \/ off + Len(w) < i) => Spliced(c, off, w)[i] = c[i]
        /\ \A i \in Len(c) + 1 .. off : Spliced(c, off, w)[i] = NUL
  BY SplicedFacts
<1> DEFINE n == Len(c)
           d == <<b>>
           fill == Contract!Fill(off - n)
           head == IF off <= n THEN SubSeq(c, 1, off) ELSE c \o fill
           rest == SubSeq(c, off + 2, n)
           s == Spliced(c, off, d)
<1>0. /\ c \in Seq(Bytes) /\ n \in Nat /\ \A i \in 1 .. n : c[i] \in Bytes
      /\ d \in Seq(Bytes) /\ d \in Content /\ Len(d) = 1 /\ d[1] = b
  BY LenProperties, ElementOfSeq DEF Content
<1>1. /\ s \in Seq(Bytes) /\ Len(s) = IF off + 1 > n THEN off + 1 ELSE n
      /\ s[off + 1] = b
      /\ \A i \in 1 .. n : (i <= off \/ off + 1 < i) => s[i] = c[i]
      /\ \A i \in n + 1 .. off : s[i] = NUL
  <2> HIDE DEF d
  <2>1. /\ s \in Content /\ Len(s) = IF off + Len(d) > n THEN off + Len(d) ELSE n
        /\ \A i \in 1 .. Len(d) : s[off + i] = d[i]
        /\ \A i \in 1 .. n : (i <= off \/ off + Len(d) < i) => s[i] = c[i]
        /\ \A i \in n + 1 .. off : s[i] = NUL
    BY <1>0, <1>a
  <2> HIDE DEF s
  <2>2. 1 \in 1 .. Len(d) /\ Len(d) = 1
    BY <1>0
  <2>3. s[off + 1] = b
    BY <1>0, <2>1, <2>2
  <2>4. s \in Seq(Bytes)
    BY <2>1 DEF Content
  <2> QED
    BY <2>1, <2>2, <2>3, <2>4
<1>2. /\ head \in Seq(Bytes) /\ Len(head) = off
      /\ \A i \in 1 .. off : head[i] = IF i <= n THEN c[i] ELSE NUL
  <2>1. CASE off <= n
    <3>1. \A i \in 1 .. off : c[i] \in Bytes
      BY <1>0, <2>1
    <3>2. LET h == SubSeq(c, 1, off) IN
          /\ h \in Seq(Bytes) /\ Len(h) = (IF 1 <= off THEN off - 1 + 1 ELSE 0)
          /\ \A i \in 1 .. off - 1 + 1 : h[i] = c[1 + i - 1]
      BY <3>1, SubSeqProperties
    <3> QED
      BY <1>0, <2>1, <3>2
  <2>2. CASE ~(off <= n)
    <3>1. off - n \in Nat /\ fill \in [1 .. off - n -> Bytes]
      BY <1>0, <2>2, BytesAssumption DEF Contract!Fill
    <3>2. fill \in Seq(Bytes) /\ Len(fill) = off - n /\ \A i \in 1 .. off - n : fill[i] = NUL
      <4>1. fill \in Seq(Bytes)
        BY <3>1, FunctionIsSequence
      <4>2. Len(fill) = off - n
        BY <3>1, <4>1, LenProperties
      <4> QED
        BY <4>1, <4>2 DEF Contract!Fill
    <3> HIDE DEF fill
    <3>3. /\ c \o fill \in Seq(Bytes) /\ Len(c \o fill) = n + (off - n)
          /\ \A i \in 1 .. n + (off - n) : (c \o fill)[i] = IF i <= n THEN c[i] ELSE fill[i - n]
      BY <1>0, <3>2, ConcatProperties
    <3> QED
      BY <1>0, <2>2, <3>1, <3>2, <3>3
  <2> QED
    BY <2>1, <2>2
<1>3. /\ rest \in Seq(Bytes) /\ Len(rest) = IF off + 2 <= n THEN n - off - 1 ELSE 0
      /\ \A i \in 1 .. n - off - 1 : rest[i] = c[off + 1 + i]
  <2>1. \A i \in off + 2 .. n : c[i] \in Bytes
    BY <1>0
  <2>2. /\ rest \in Seq(Bytes)
        /\ Len(rest) = (IF off + 2 <= n THEN n - (off + 2) + 1 ELSE 0)
        /\ \A i \in 1 .. n - (off + 2) + 1 : rest[i] = c[(off + 2) + i - 1]
    BY <1>0, <2>1, SubSeqProperties
  <2> HIDE DEF rest
  <2> QED
    BY <1>0, <2>2
<1>4. Contract!Overwritten(c, off, d) = (head \o d) \o rest
  <2>1. off + Len(d) + 1 = off + 2
    BY <1>0
  <2> HIDE DEF d
  <2> QED
    BY <2>1 DEF Contract!Overwritten
<1> HIDE DEF head, rest, s, d
<1> DEFINE o == (head \o d) \o rest
<1>5. /\ o \in Seq(Bytes) /\ Len(o) = off + 1 + Len(rest)
      /\ \A i \in 1 .. off : o[i] = head[i]
      /\ \A i \in 1 .. 1 : o[off + i] = d[i]
      /\ \A i \in 1 .. Len(rest) : o[off + 1 + i] = rest[i]
  <2>1. head \in Seq(Bytes) /\ d \in Seq(Bytes) /\ rest \in Seq(Bytes)
    BY <1>0, <1>2, <1>3
  <2>2. o \in Seq(Bytes) /\ Parts(o, head, d, rest)
    BY <2>1, ThreeParts
  <2>3. Len(head) = off /\ Len(d) = 1
    BY <1>0, <1>2
  <2> HIDE DEF o
  <2> QED
    BY <2>2, <2>3 DEF Parts
<1> HIDE DEF o
<1>6. Len(o) = Len(s)
  <2>1. CASE off + 2 <= n
    BY <1>0, <1>1, <1>3, <1>5, <2>1
  <2>2. CASE ~(off + 2 <= n)
    <3>1. Len(o) = off + 1 /\ off + 1 >= n
      BY <1>0, <1>3, <1>5, <2>2
    <3> QED
      BY <1>0, <1>1, <3>1
  <2> QED
    BY <2>1, <2>2
<1>7. ASSUME NEW i \in 1 .. Len(s) PROVE s[i] = o[i]
  <2>1. CASE i <= off
    <3>1. o[i] = IF i <= n THEN c[i] ELSE NUL
      BY <1>2, <1>5, <2>1
    <3>2. i <= n => s[i] = c[i]
      BY <1>0, <1>1, <2>1
    <3>3. ~(i <= n) => s[i] = NUL
      BY <1>0, <1>1, <2>1
    <3> QED
      BY <3>1, <3>2, <3>3
  <2>2. CASE i = off + 1
    BY <1>0, <1>1, <1>5, <2>2
  <2>3. CASE off + 1 < i
    <3>1. /\ i - (off + 1) \in 1 .. n - off - 1 /\ i \in 1 .. n
          /\ i - (off + 1) \in 1 .. Len(rest) /\ off + 1 + (i - (off + 1)) = i
      BY <1>0, <1>1, <1>3, <2>3
    <3>2. s[i] = c[i]
      BY <1>1, <2>3, <3>1
    <3>3. o[i] = rest[i - (off + 1)] /\ rest[i - (off + 1)] = c[i]
      BY <1>3, <1>5, <3>1
    <3> QED
      BY <3>2, <3>3
  <2>4. i <= off \/ i = off + 1 \/ off + 1 < i
    BY <1>0, <1>1
  <2> QED
    BY <2>1, <2>2, <2>3, <2>4
<1>8. s = o
  BY <1>1, <1>5, <1>6, <1>7, SeqEqual
<1>9. off <= Len(s)
  BY <1>0, <1>1
<1> QED
  BY <1>4, <1>8, <1>9 DEF s, d, o

LEMMA CutIsShrink ==
    ASSUME NEW c \in Content, NEW n \in Nat, n < Len(c)
    PROVE  Cut(c, n) = SubSeq(c, 1, n)
<1>1. c \in Seq(Bytes) /\ Len(c) \in Nat /\ \A i \in 1 .. n : c[i] \in Bytes
  BY LenProperties, ElementOfSeq DEF Content
<1>2. /\ Cut(c, n) \in Seq(Bytes) /\ Len(Cut(c, n)) = n
      /\ \A i \in 1 .. n : Cut(c, n)[i] = c[i]
  BY CutFacts DEF Content
<1>3. LET t == SubSeq(c, 1, n) IN
      /\ t \in Seq(Bytes) /\ Len(t) = n /\ \A i \in 1 .. n : t[i] = c[i]
  <2>1. LET t == SubSeq(c, 1, n) IN
        /\ t \in Seq(Bytes) /\ Len(t) = (IF 1 <= n THEN n - 1 + 1 ELSE 0)
        /\ \A i \in 1 .. n - 1 + 1 : t[i] = c[1 + i - 1]
    BY <1>1, SubSeqProperties
  <2> QED
    BY <2>1
<1> QED
  BY <1>2, <1>3, SeqEqual

-----------------------------------------------------------------------------
(* The contract's words for the requests of the client.                    *)
LEMMA StepsAreTheContracts == SingleInv /\ [SingleNext]_singlevars => [Contract!Next]_(Contract!vars)
<1> SUFFICES ASSUME SingleInv, [SingleNext]_singlevars
             PROVE  Contract!Next \/ UNCHANGED <<request, turn, flags, Shown, store, Due>>
  BY DEF Contract!vars
<1>0. /\ Opened => Shown = Content0
      /\ Opened' => Shown' = Content0'
      /\ ~Opened => Shown = store /\ Due = FALSE
      /\ ~Opened' => Shown' = store' /\ Due' = FALSE
      /\ Opened => Due = IsDirty(entry)
      /\ Opened' => Due' = IsDirty(entry)'
      /\ IsDirty(entry) \in BOOLEAN /\ IsDirty(entry)' \in BOOLEAN
  BY DEF Shown, Due, IsDirty
<1>1. ASSUME NEW app \in BOOLEAN,
             \/ OpenDescriptor(app) \/ OpenWhole(app)
             \/ \E trunc \in BOOLEAN : CreateNew(trunc, app)
      PROVE  Contract!Open
  <2>1. /\ ~Opened /\ Opened' /\ store' = store /\ Content0' = store
        /\ entry'.dirty_gen = 0
    BY <1>1, OpenKeeps
  <2>2. PICK whole \in BOOLEAN : OpensWith(app, whole)
    BY <1>1, OpenKeeps
  <2>3. ~IsDirty(entry)'
    BY <2>1 DEF IsDirty
  <2>4. Shown' = Shown /\ Due' = Due
    BY <1>0, <2>1, <2>3
  <2>5. request'.op = "open" /\ request'.append = app /\ request'.whole = whole
    BY <2>2 DEF OpensWith, Requested, OpenRequest
  <2> QED
    BY <2>1, <2>2, <2>4, <2>5 DEF Contract!Open, Contract!Served, Contract!Kept, OpensWith, Requested
<1>2. ASSUME NEW off \in 0 .. MaxSize, NEW b \in Bytes, NEW ok \in BOOLEAN,
             WriteAt(off, <<b>>, ok)
      PROVE  Contract!Write
  <2> DEFINE at == WriteOffset(entry, off, store)
  <2>1. /\ Opened' /\ Content0' = Spliced(Content0, at, <<b>>)
        /\ Content0 \in Content /\ at \in Nat
        /\ at = IF flags.append THEN Len(Content0) ELSE off
        /\ \/ store' = store /\ IsDirty(entry)'
           \/ ok /\ store' = Content0' /\ ~IsDirty(entry)'
    BY <1>2, WriteKeeps
  <2>2. Opened /\ Requested(WriteRequest(off, <<b>>, ok)) /\ flags' = flags
    BY <1>2 DEF WriteAt
  <2>3. /\ request'.op = "write" /\ request'.at = off /\ request'.data = <<b>>
        /\ request'.ok = ok /\ turn' = ~turn
    BY <2>2 DEF Requested, WriteRequest
  <2> HIDE DEF at
  <2>4. Content0' = Contract!Overwritten(Content0, at, <<b>>)
    BY <2>1, SpliceIsOverwrite
  <2>5. /\ Shown' = Contract!Overwritten(Shown, IF flags.append THEN Len(Shown) ELSE request'.at,
                                         request'.data)
    BY <1>0, <2>1, <2>2, <2>3, <2>4
  <2>6. (store' = store /\ Due' = TRUE) \/ (request'.ok /\ store' = Shown' /\ Due' = FALSE)
    BY <1>0, <2>1, <2>3
  <2> QED
    BY <2>2, <2>3, <2>5, <2>6 DEF Contract!Write, Contract!Served, Contract!Stored
<1>3. ASSUME NEW size \in 0 .. MaxSize, Truncate(size) PROVE Contract!Truncate
  <2>1. /\ Opened' /\ store' = store /\ Content0' = Cut(Content0, size) /\ Content0 \in Content
        /\ IsDirty(entry)' <=> IsDirty(entry) \/ (flags.whole /\ size < Len(Content0))
    BY <1>3, TruncateKeeps
  <2>2. Opened /\ Requested(TruncateRequest(size)) /\ flags' = flags
    BY <1>3 DEF Truncate
  <2>3. request'.op = "truncate" /\ request'.at = size /\ turn' = ~turn
    BY <2>2 DEF Requested, TruncateRequest
  <2>4. Len(Content0) \in Nat /\ size \in Nat
    BY <2>1, LenProperties, SingleHandleAssumption DEF Content
  <2>5. Content0' = IF size < Len(Content0) THEN SubSeq(Content0, 1, size) ELSE Content0
    BY <2>1, <2>4, CutIsShrink, CutWhole
  <2>6. Due' = (Due \/ (flags.whole /\ request'.at < Len(Shown)))
    BY <1>0, <2>1, <2>2, <2>3
  <2> QED
    BY <1>0, <2>1, <2>2, <2>3, <2>5, <2>6 DEF Contract!Truncate, Contract!Served
<1>4. ASSUME NEW ok \in BOOLEAN, CloseDuplicate(ok) PROVE Contract!Flush
  <2>1. /\ Opened' /\ Content0' = Content0
        /\ \/ IsDirty(entry) /\ ok /\ store' = Content0 /\ ~IsDirty(entry)'
           \/ /\ store' = store /\ (IsDirty(entry)' <=> IsDirty(entry))
              /\ ~(IsDirty(entry) /\ ok /\ Content0 # << >>)
    BY <1>4, FlushKeeps
  <2>2. Opened /\ Requested(CloseRequest("flush", ok)) /\ flags' = flags
    BY <1>4 DEF CloseDuplicate
  <2>3. request'.op = "flush" /\ request'.ok = ok /\ turn' = ~turn
    BY <2>2 DEF Requested, CloseRequest
  <2>4. \/ Due /\ request'.ok /\ store' = Shown' /\ Due' = FALSE
        \/ ~(Due /\ request'.ok /\ Shown # << >>) /\ store' = store /\ Due' = Due
    BY <1>0, <2>1, <2>2, <2>3
  <2> QED
    BY <1>0, <2>1, <2>2, <2>3, <2>4
    DEF Contract!Flush, Contract!Served, Contract!Stored, Contract!Kept
<1>5. ASSUME NEW ok \in BOOLEAN, CloseLast(ok) PROVE Contract!Close
  <2>1. ~Opened' /\ store' = IF IsDirty(entry) /\ ok THEN Content0 ELSE store
    BY <1>5, ReleaseKeeps
  <2>2. Opened /\ Requested(CloseRequest("release", ok)) /\ flags' = flags
    BY <1>5 DEF CloseLast
  <2>3. request'.op = "release" /\ request'.ok = ok /\ turn' = ~turn
    BY <2>2 DEF Requested, CloseRequest
  <2>4. store' = IF Due /\ request'.ok THEN Shown ELSE store
    BY <1>0, <2>1, <2>2, <2>3
  <2> QED
    BY <1>0, <2>1, <2>2, <2>3, <2>4 DEF Contract!Close, Contract!Served
<1>6. CASE UNCHANGED singlevars
  BY <1>6 DEF singlevars, Opened, Content0, Shown, Due, IsDirty
<1> QED
  BY <1>1, <1>2, <1>3, <1>4, <1>5, <1>6 DEF SingleNext, Contract!Next

(* Every request of the client of an open file has the effect its own      *)
(* arguments name on what the client sees and on what the store holds,     *)
(* whatever the length of the contents and of the run: the bytes land at   *)
(* the offset asked for or at the end, a truncation cuts where asked, and  *)
(* what is due is stored.                                                  *)
THEOREM HandleImplementsContract == SingleSpec => RefinesContract
<1>1. SingleInit => Contract!Init
  <2> SUFFICES ASSUME SingleInit PROVE Contract!Init
    OBVIOUS
  <2>1. ~Opened /\ store \in Seq(Bytes) /\ turn \in BOOLEAN
    BY Initially DEF SingleInit, Opened, Vacant, SingleInv, SingleTypeOK, Content
  <2> QED
    BY <2>1 DEF Contract!Init, Shown, Due
<1> QED
  BY <1>1, InvHolds, StepsAreTheContracts, PTL DEF SingleSpec, RefinesContract, Contract!Spec

----------------------------------------------------------------------------
(* One inode: what its requests are told.                                  *)
(* The requests a node grants are the bits its mode shows, for any node,   *)
(* permissions and kind of it.                                             *)
Rights == {"r", "w", "x"}

LEMMA BitsOfMode ==
    ASSUME NEW perms \in SUBSET Rights, NEW p \in Rights
    PROVE  BitsSet(to_mode_bits(perms), Bit[p]) <=> p \in perms
<1>1. Bit["r"] = 256 /\ Bit["w"] = 128 /\ Bit["x"] = 64
  BY DEF Bit, READ_BITS, WRITE_BITS, EXECUTE_BITS
<1> DEFINE b(q, n) == IF q \in perms THEN n ELSE 0
<1>2. to_mode_bits(perms) = b("r", 256) + b("w", 128) + b("x", 64)
  BY DEF to_mode_bits, READ_BITS, WRITE_BITS, EXECUTE_BITS
<1>3. /\ b("r", 256) \in {0, 256} /\ b("w", 128) \in {0, 128} /\ b("x", 64) \in {0, 64}
      /\ (b("r", 256) = 256 <=> "r" \in perms) /\ (b("w", 128) = 128 <=> "w" \in perms)
      /\ (b("x", 64) = 64 <=> "x" \in perms)
  OBVIOUS
<1> HIDE DEF b
<1>4. \A i \in {0, 256}, j \in {0, 128}, k \in {0, 64} :
        /\ (((i + j + k) \div 256) % 2 = 1) <=> i = 256
        /\ (((i + j + k) \div 128) % 2 = 1) <=> j = 128
        /\ (((i + j + k) \div 64) % 2 = 1) <=> k = 64
  OBVIOUS
<1>5. CASE p = "r"
  BY <1>1, <1>2, <1>3, <1>4, <1>5 DEF BitsSet
<1>6. CASE p = "w"
  BY <1>1, <1>2, <1>3, <1>4, <1>6 DEF BitsSet
<1>7. CASE p = "x"
  BY <1>1, <1>2, <1>3, <1>4, <1>7 DEF BitsSet
<1> QED
  BY <1>5, <1>6, <1>7 DEF Rights

(* access, getattr, readlink and is_writable_dir agree on every inode: it  *)
(* is there for all of them or for none; what access grants is what the    *)
(* mode shows, unless the mode is a backing file's; and a link is read     *)
(* where getattr says link.                                                *)
THEOREM AccessAgreesWithMode ==
    ASSUME NEW s,
           lookup_node(s) = None \/
               \E node : lookup_node(s) = Some(node) /\ permissions(node) \in SUBSET Rights
    PROVE  AccessMatchesMode(s)
<1>1. CASE lookup_node(s) = None
  <2>1. resolve_attr(s) = None
    BY <1>1 DEF resolve_attr
  <2>2. reply_attr(s) = Error("ENOENT")
    BY <2>1 DEF reply_attr
  <2>3. access(s, {}) = Error("ENOENT")
    BY <1>1 DEF access
  <2>4. readlink(s) = Error("ENOENT")
    BY <1>1 DEF readlink
  <2>5. is_writable_dir(s) = FALSE
    BY <2>1, Zenon DEF is_writable_dir
  <2>6. Error("ENOENT").errno # "ok"
    BY DEF Error
  <2> QED
    BY <2>2, <2>3, <2>4, <2>5, <2>6 DEF AccessMatchesMode
<1>2. ASSUME NEW node, lookup_node(s) = Some(node), permissions(node) \in SUBSET Rights
      PROVE  AccessMatchesMode(s)
  <2> DEFINE a == node_attr(s, node)
  <2>1. lookup_node(s) # None /\ lookup_node(s)[1] = node
    BY <1>2 DEF Some, None
  <2>2. resolve_attr(s) = Some(a) /\ resolve_attr(s) # None /\ resolve_attr(s)[1] = a
    BY <2>1 DEF resolve_attr, Some, None
  <2>3. reply_attr(s) = Reply(a)
    BY <2>2 DEF reply_attr
  <2>4. reply_attr(s).errno = "ok" /\ reply_attr(s).v = a
    BY <2>3 DEF Reply
  <2>5. \A mask : access(s, mask).errno = "ok" <=> mask \subseteq permissions(node)
    BY <2>1 DEF access, Reply, Error
  <2>6. a.attr.kind = node.kind
    BY DEF node_attr, make_attr
  <2>7. ~Backed(node) \/ s.meta = None => a.attr.perm = to_mode_bits(permissions(node))
    BY DEF node_attr, make_attr
  <2> HIDE DEF a
  <2>8. readlink(s).errno = "ok" <=> node.kind = "link"
    BY <2>1 DEF readlink, Reply, Error
  <2>9. is_writable_dir(s) <=> BitsSet(a.attr.perm, WRITE_BITS)
    BY <2>2 DEF is_writable_dir
  <2>10. ASSUME ~Backed(node) \/ s.meta = None, NEW mask \in SUBSET Rights
         PROVE  (access(s, mask).errno = "ok") = (\A p \in mask : BitsSet(a.attr.perm, Bit[p]))
    <3>1. \A p \in mask : BitsSet(a.attr.perm, Bit[p]) <=> p \in permissions(node)
      BY <1>2, <2>7, <2>10, BitsOfMode
    <3>2. (\A p \in mask : BitsSet(a.attr.perm, Bit[p])) <=> mask \subseteq permissions(node)
      BY <3>1
    <3> QED
      BY <2>5, <3>2
  <2>11. access(s, {}).errno = "ok"
    BY <2>5
  <2>12. (readlink(s).errno = "ok") = (a.attr.kind = "link")
    BY <2>6, <2>8
  <2>13. is_writable_dir(s) \in BOOLEAN
    BY DEF is_writable_dir
  <2>14. is_writable_dir(s) = BitsSet(a.attr.perm, WRITE_BITS)
    BY <2>9, <2>13 DEF BitsSet
  <2> DEFINE reply == reply_attr(s)
  <2>15. (reply.errno = "ok") = (access(s, {}).errno = "ok")
    BY <2>4, <2>11
  <2>16. reply.errno = "ok" /\ (~Backed(lookup_node(s)[1]) \/ s.meta = None) =>
           \A mask \in SUBSET {"r", "w", "x"} :
               (access(s, mask).errno = "ok") = \A p \in mask : BitsSet(reply.v.attr.perm, Bit[p])
    BY <2>1, <2>4, <2>10, Zenon DEF Rights
  <2>17. (readlink(s).errno = "ok") = (reply.errno = "ok" /\ reply.v.attr.kind = "link")
    BY <2>4, <2>12, Zenon
  <2>18. is_writable_dir(s) = (reply.errno = "ok" /\ BitsSet(reply.v.attr.perm, WRITE_BITS))
    BY <2>4, <2>14, Zenon DEF BitsSet
  <2> QED
    BY <2>15, <2>16, <2>17, <2>18 DEF AccessMatchesMode
<1> QED
  BY <1>1, <1>2

-----------------------------------------------------------------------------
(* The courses of requests to one inode.                                   *)

(* The bindings of a node that comes with a creation, and the states.      *)
Slots(sink) == {Unbound} \cup {[node |-> Some(sink), expires |-> Some(t)] : t \in Nat}
States(sink, Chains, Metas) ==
    [now : Nat, slot : Slots(sink), chain : Chains, meta : Metas,
     error : {None, Some("why")}, atime : {None, Some(5)}, handles : Nat]
Courses(sink, Chains, Metas) ==
    [s : States(sink, Chains, Metas), opening : {None, Some(TRUE), Some(FALSE)},
     gone : BOOLEAN, failed : BOOLEAN]

(* A binding has no more time than its node gives; a name that was found   *)
(* to be gone has none at all, so that nothing is left to refresh.         *)
Fresh(s, d) == s.slot # Unbound => s.slot.expires[1] <= s.now + d
CourseInv(w, d) == Fresh(w.s, d) /\ (w.gone /\ w.s.chain = None => w.s.slot = Unbound)

(* What a request leaves of the state: its time and what the chain says of *)
(* it; it binds no node.                                                   *)
KeepsTime(s, r, S, d) ==
    /\ r \in S /\ Fresh(r, d) /\ r.now = s.now /\ r.chain = s.chain
    /\ s.slot = Unbound => r.slot = Unbound

LEMMA SlotParts ==
    ASSUME NEW sink, NEW t \in Nat
    PROVE  LET e == [node |-> Some(sink), expires |-> Some(t)]
           IN e \in Slots(sink) /\ e # Unbound /\ e.node[1] = sink /\ e.node # None
              /\ e.expires[1] = t /\ e.expires # None
BY DEF Slots, Unbound, Some, None

LEMMA LookedKeeps ==
    ASSUME NEW sink, NEW Chains, NEW Metas, NEW d \in Nat,
           NEW s \in States(sink, Chains, Metas), Fresh(s, d)
    PROVE  /\ KeepsTime(s, Looked(s), States(sink, Chains, Metas), d)
           /\ Looked(s).handles = s.handles
           /\ lookup_node(s) = None => Looked(s).slot = Unbound
<1>1. s.slot \in Slots(sink) /\ Unbound \in Slots(sink)
  BY DEF States, Slots
<1>2. CASE Expired(s)
  <2>1. Looked(s) = [s EXCEPT !.slot = Unbound]
    BY <1>2 DEF Looked
  <2>2. Looked(s) \in States(sink, Chains, Metas) /\ Looked(s).slot = Unbound
        /\ Looked(s).now = s.now /\ Looked(s).chain = s.chain /\ Looked(s).handles = s.handles
    BY <1>1, <2>1 DEF States
  <2> QED
    BY <2>2 DEF KeepsTime, Fresh
<1>3. CASE ~Expired(s)
  <2>1. Looked(s) = s
    BY <1>3 DEF Looked
  <2>2. ASSUME lookup_node(s) = None PROVE s.slot = Unbound
    <3>1. bound_node(s) = None
      BY <2>2 DEF lookup_node
    <3>2. s.slot.node = None
      BY <1>3, <3>1 DEF bound_node
    <3> QED
      BY <1>1, <3>2, SlotParts DEF Slots
  <2> QED
    BY <2>1, <2>2 DEF KeepsTime
<1> QED
  BY <1>2, <1>3

LEMMA TouchKeeps ==
    ASSUME NEW d \in Nat, NEW sink, sink.cache = Ttl(d), NEW Chains, NEW Metas,
           NEW s \in States(sink, Chains, Metas), Fresh(s, d)
    PROVE  KeepsTime(s, touch(s), States(sink, Chains, Metas), d) /\ touch(s).handles = s.handles
<1>1. s.slot \in Slots(sink) /\ s.now \in Nat
  BY DEF States
<1>2. CASE s.slot = Unbound
  <2>1. touch(s) = s
    BY <1>2 DEF touch, Unbound
  <2> QED
    BY <2>1 DEF KeepsTime
<1>3. CASE s.slot # Unbound
  <2>1. PICK t \in Nat : s.slot = [node |-> Some(sink), expires |-> Some(t)]
    BY <1>1, <1>3 DEF Slots
  <2>2. s.slot.node # None /\ s.slot.node[1] = sink
    BY <2>1, SlotParts
  <2>3. sink.cache.policy = "ttl" /\ sink.cache.d = d
    BY DEF Ttl
  <2>4. touch(s) = [s EXCEPT !.slot.expires = Some(s.now + d)]
    BY <2>2, <2>3 DEF touch, expires_at_from_policy
  <2>5. s.now + d \in Nat
    BY <1>1
  <2>6. touch(s) = [s EXCEPT !.slot = [node |-> Some(sink), expires |-> Some(s.now + d)]]
    BY <2>1, <2>4
  <2>7. touch(s) \in States(sink, Chains, Metas) /\ touch(s).now = s.now /\ touch(s).chain = s.chain
        /\ touch(s).slot = [node |-> Some(sink), expires |-> Some(s.now + d)]
        /\ touch(s).handles = s.handles
    BY <2>5, <2>6, SlotParts DEF States
  <2>8. touch(s).slot.expires[1] = s.now + d
    <3>1. touch(s).slot.expires = Some(s.now + d)
      BY <2>7
    <3> QED
      BY <3>1 DEF Some
  <2> QED
    BY <1>1, <1>3, <2>7, <2>8 DEF KeepsTime, Fresh
<1> QED
  BY <1>2, <1>3

(* Errors, times and the number of handles are no matter of the binding.   *)
Errors == {None, Some("why")}
Times == {None, Some(5)}
LEMMA RestKeeps ==
    ASSUME NEW d, NEW sink, NEW Chains, NEW Metas, NEW S, S = States(sink, Chains, Metas),
           NEW s, NEW r, KeepsTime(s, r, S, d)
    PROVE  /\ \A n \in Nat : KeepsTime(s, [r EXCEPT !.handles = n], S, d)
                             /\ [r EXCEPT !.handles = n].slot = r.slot
           /\ \A e \in Errors : KeepsTime(s, [r EXCEPT !.error = e], S, d)
                                /\ [r EXCEPT !.error = e].slot = r.slot
           /\ \A a \in Times : KeepsTime(s, [r EXCEPT !.atime = a], S, d)
                               /\ [r EXCEPT !.atime = a].slot = r.slot
<1>1. r \in S
  BY DEF KeepsTime
<1>2. ASSUME NEW n \in Nat
      PROVE  KeepsTime(s, [r EXCEPT !.handles = n], S, d) /\ [r EXCEPT !.handles = n].slot = r.slot
  BY <1>1 DEF KeepsTime, Fresh, States
<1>3. ASSUME NEW e \in Errors
      PROVE  KeepsTime(s, [r EXCEPT !.error = e], S, d) /\ [r EXCEPT !.error = e].slot = r.slot
  BY <1>1 DEF KeepsTime, Fresh, States, Errors
<1>4. ASSUME NEW a \in Times
      PROVE  KeepsTime(s, [r EXCEPT !.atime = a], S, d) /\ [r EXCEPT !.atime = a].slot = r.slot
  BY <1>1 DEF KeepsTime, Fresh, States, Times
<1> QED
  BY <1>2, <1>3, <1>4

(* Each request keeps to it.                                               *)
LEMMA OpenKeepsTime ==
    ASSUME NEW d \in Nat, NEW sink, sink.cache = Ttl(d), NEW Chains, NEW Metas,
           NEW s \in States(sink, Chains, Metas), Fresh(s, d), NEW found \in BOOLEAN
    PROVE  KeepsTime(s, notify_open(s, found), States(sink, Chains, Metas), d)
<1> DEFINE r == IF found THEN touch(s) ELSE s
           S == States(sink, Chains, Metas)
<1>1. KeepsTime(s, r, S, d) /\ r.handles = s.handles
  BY TouchKeeps DEF KeepsTime
<1>2. r \in S /\ r.handles \in Nat
  BY <1>1 DEF KeepsTime, States
<1>3. notify_open(s, found) = [r EXCEPT !.handles = r.handles + 1]
  BY DEF notify_open
<1> HIDE DEF r
<1>4. r.handles + 1 \in Nat
  BY <1>2
<1> QED
  BY <1>1, <1>3, <1>4, RestKeeps

LEMMA FlushKeepsTime ==
    ASSUME NEW d \in Nat, NEW sink, NEW Chains, NEW Metas,
           NEW s \in States(sink, Chains, Metas), Fresh(s, d), NEW accepted \in BOOLEAN
    PROVE  /\ KeepsTime(s, flush_content(s, accepted), States(sink, Chains, Metas), d)
           /\ flush_content(s, accepted).slot = Looked(s).slot
<1> DEFINE S == States(sink, Chains, Metas)
<1>1. KeepsTime(s, Looked(s), S, d) /\ Looked(s) \in S
  BY LookedKeeps DEF KeepsTime
<1>2. PICK e \in Errors : flush_content(s, accepted) = [Looked(s) EXCEPT !.error = e]
  <2> DEFINE c == lookup_node(s) # None /\ lookup_node(s)[1].writable /\ accepted
  <2>1. flush_content(s, accepted) = IF c THEN [Looked(s) EXCEPT !.error = None]
                                     ELSE [Looked(s) EXCEPT !.error = Some("why")]
    BY DEF flush_content
  <2> HIDE DEF c
  <2>2. None \in Errors /\ Some("why") \in Errors
    BY DEF Errors
  <2>3. CASE c
    BY <2>1, <2>2, <2>3
  <2>4. CASE ~c
    BY <2>1, <2>2, <2>4
  <2> QED
    BY <2>3, <2>4
<1> QED
  BY <1>1, <1>2, RestKeeps

LEMMA TimesKeep ==
    ASSUME NEW d \in Nat, NEW sink, NEW Chains, NEW Metas,
           NEW s \in States(sink, Chains, Metas), Fresh(s, d)
    PROVE  /\ KeepsTime(s, setattr(s, 5), States(sink, Chains, Metas), d)
           /\ setattr(s, 5).slot = Looked(s).slot
<1> DEFINE S == States(sink, Chains, Metas)
<1>1. KeepsTime(s, Looked(s), S, d) /\ Looked(s) \in S
  BY LookedKeeps DEF KeepsTime
<1>2. PICK a \in Times : setattr(s, 5) = [Looked(s) EXCEPT !.atime = a]
  BY DEF setattr, Times
<1> DEFINE r == Looked(s)
<1> HIDE DEF r
<1>3. KeepsTime(s, [r EXCEPT !.atime = a], S, d) /\ [r EXCEPT !.atime = a].slot = r.slot
  BY <1>1, RestKeeps DEF r
<1> QED
  BY <1>2, <1>3 DEF r

LEMMA ReleaseKeepsTime ==
    ASSUME NEW d \in Nat, NEW sink, sink.cache = Ttl(d), NEW Chains, NEW Metas,
           NEW s \in States(sink, Chains, Metas), Fresh(s, d), s.handles > 0
    PROVE  /\ KeepsTime(s, release(s), States(sink, Chains, Metas), d)
           /\ s.handles = 1 /\ lookup_node(s) = None => release(s).slot = Unbound
<1> DEFINE S == States(sink, Chains, Metas)
           L == Looked(s)
<1>1. KeepsTime(s, L, S, d) /\ L \in S /\ Fresh(L, d) /\ (lookup_node(s) = None => L.slot = Unbound)
  BY LookedKeeps DEF KeepsTime
<1>2. s.handles \in Nat /\ KeepsTime(s, s, S, d) /\ None \in Errors /\ None \in Times
  BY DEF KeepsTime, States, Errors, Times
<1>3. CASE s.handles > 1
  <2>1. release(s) = [s EXCEPT !.handles = s.handles - 1]
    BY <1>3 DEF release
  <2>2. s.handles - 1 \in Nat /\ s.handles # 1
    BY <1>2, <1>3
  <2> QED
    BY <1>2, <1>3, <2>1, <2>2, RestKeeps
<1>4. CASE ~(s.handles > 1)
  <2> DEFINE r == IF lookup_node(s) # None THEN touch(L) ELSE L
             q == [r EXCEPT !.handles = 0]
             p == [q EXCEPT !.error = None]
  <2>1. KeepsTime(L, touch(L), S, d)
    BY <1>1, TouchKeeps
  <2>2. KeepsTime(s, r, S, d) /\ r \in S /\ (lookup_node(s) = None => r.slot = Unbound)
    BY <1>1, <2>1 DEF KeepsTime
  <2>3. release(s) = [p EXCEPT !.atime = None]
    BY <1>4 DEF release, evict
  <2> HIDE DEF r
  <2>4. KeepsTime(s, q, S, d) /\ q.slot = r.slot
    BY <2>2, RestKeeps
  <2> HIDE DEF q
  <2>5. KeepsTime(s, p, S, d) /\ p.slot = q.slot
    BY <1>2, <2>4, RestKeeps
  <2> HIDE DEF p
  <2>6. KeepsTime(s, [p EXCEPT !.atime = None], S, d) /\ [p EXCEPT !.atime = None].slot = p.slot
    BY <1>2, <2>5, RestKeeps
  <2> QED
    BY <2>2, <2>3, <2>4, <2>5, <2>6
<1> QED
  BY <1>3, <1>4

LEMMA CreateFits ==
    ASSUME NEW d \in Nat, NEW sink, sink.cache = Ttl(d), NEW Chains, NEW Metas,
           NEW s \in States(sink, Chains, Metas)
    PROVE  do_create(s, sink) \in States(sink, Chains, Metas) /\ Fresh(do_create(s, sink), d)
<1> DEFINE e == [node |-> Some(sink), expires |-> Some(s.now + d)]
           S == States(sink, Chains, Metas)
           b == [[s EXCEPT !.slot = e] EXCEPT !.handles = s.handles + 1]
<1>1. s.now \in Nat /\ s.handles \in Nat /\ s.now + d \in Nat /\ s.handles + 1 \in Nat
  BY DEF States
<1>2. e \in Slots(sink) /\ e.expires[1] = s.now + d
  BY <1>1, SlotParts
<1>3. sink.cache.policy = "ttl" /\ sink.cache.d = d
  BY DEF Ttl
<1>4. bind_node(s, sink) = [s EXCEPT !.slot = e]
  BY <1>3 DEF bind_node, expires_at_from_policy
<1> HIDE DEF e
<1>5. [bind_node(s, sink) EXCEPT !.handles = @ + 1] = b
  <2>1. [s EXCEPT !.slot = e].handles = s.handles
    BY DEF States
  <2> QED
    BY <1>4, <2>1
<1>6. b \in S /\ Fresh(b, d)
  <2>1. [s EXCEPT !.slot = e] \in S /\ [s EXCEPT !.slot = e].slot = e /\ [s EXCEPT !.slot = e].now = s.now
    BY <1>2 DEF States
  <2> DEFINE x == [s EXCEPT !.slot = e]
  <2> HIDE DEF x
  <2>2. x \in S /\ x.slot = e /\ x.now = s.now
    BY <2>1 DEF x
  <2>3. [x EXCEPT !.handles = s.handles + 1] \in S
        /\ [x EXCEPT !.handles = s.handles + 1].slot = e /\ [x EXCEPT !.handles = s.handles + 1].now = s.now
    BY <1>1, <2>2 DEF States
  <2>4. b = [x EXCEPT !.handles = s.handles + 1]
    BY DEF x
  <2>5. b \in S /\ b.slot.expires[1] <= b.now + d
    BY <1>1, <1>2, <2>3, <2>4
  <2> QED
    BY <2>5 DEF Fresh
<1>7. KeepsTime(b, touch(b), S, d)
  BY <1>6, TouchKeeps
<1> QED
  BY <1>5, <1>7 DEF do_create, KeepsTime

(* One request, or a tick.                                                 *)
LEMMA MovedKeeps ==
    ASSUME NEW d, NEW sink, NEW Chains, NEW Metas,
           NEW w \in Courses(sink, Chains, Metas), CourseInv(w, d),
           NEW v \in Courses(sink, Chains, Metas), KeepsTime(w.s, v.s, States(sink, Chains, Metas), d),
           v.gone => w.gone \/ v.s.slot = Unbound
    PROVE  CourseInv(v, d)
BY DEF KeepsTime, CourseInv

LEMMA Rewritten ==
    ASSUME NEW a, NEW b, NEW c, NEW e, NEW x, NEW y
    PROVE  [[s |-> a, opening |-> b, gone |-> c, failed |-> e] EXCEPT !.s = x, !.failed = y]
               = [s |-> x, opening |-> b, gone |-> c, failed |-> y]
<1> DEFINE k == [s |-> a, opening |-> b, gone |-> c, failed |-> e]
           l == [s |-> x, opening |-> b, gone |-> c, failed |-> e]
<1>1. [k EXCEPT !.s = x] = l
  OBVIOUS
<1>2. [l EXCEPT !.failed = y] = [s |-> x, opening |-> b, gone |-> c, failed |-> y]
  OBVIOUS
<1>3. [k EXCEPT !.s = x, !.failed = y] = [[k EXCEPT !.s = x] EXCEPT !.failed = y]
  <2> HIDE DEF k
  <2> QED
    OBVIOUS
<1> QED
  BY <1>1, <1>2, <1>3, Zenon

LEMMA StepKeeps ==
    ASSUME NEW d \in Nat, NEW sink, sink.cache = Ttl(d), NEW Chains, NEW Metas,
           NEW w \in Courses(sink, Chains, Metas), CourseInv(w, d), NEW last, NEW most,
           NEW v \in OneRequest(w, sink, last, most)
    PROVE  v \in Courses(sink, Chains, Metas) /\ CourseInv(v, d)
<1> DEFINE S == States(sink, Chains, Metas)
           W == Courses(sink, Chains, Metas)
           s == w.s
           g == w.gone \/ lookup_node(s) = None
           asked == [s |-> Looked(s), opening |-> w.opening, gone |-> g, failed |-> w.failed]
<1>1. /\ w = [s |-> s, opening |-> w.opening, gone |-> w.gone, failed |-> w.failed]
      /\ s \in S /\ w.opening \in {None, Some(TRUE), Some(FALSE)}
      /\ w.gone \in BOOLEAN /\ w.failed \in BOOLEAN
  BY DEF Courses
<1>2. Fresh(s, d)
  BY DEF CourseInv
<1>3. KeepsTime(s, Looked(s), S, d) /\ (lookup_node(s) = None => Looked(s).slot = Unbound)
  BY <1>1, <1>2, LookedKeeps
<1>4. Asked(w) = [w EXCEPT !.s = Looked(s), !.gone = g]
  BY Zenon DEF Asked
<1>15. g \in BOOLEAN /\ (g => w.gone \/ lookup_node(s) = None)
  OBVIOUS
<1> HIDE DEF g
<1>16. Asked(w) = asked
  BY <1>1, <1>4
<1> HIDE DEF asked
<1>5. KeepsTime(s, s, S, d)
  BY <1>1, <1>2 DEF KeepsTime
<1>6. CASE v = Asked(w)
  <2>1. v \in W /\ v.s = Looked(s) /\ v.gone = g
    <3>1. v = [s |-> Looked(s), opening |-> w.opening, gone |-> g, failed |-> w.failed]
      BY <1>6, <1>16 DEF asked
    <3> QED
      BY <1>1, <1>3, <1>15, <3>1 DEF Courses, KeepsTime
  <2> QED
    BY <1>3, <1>15, <2>1, MovedKeeps
<1>7. CASE v = Ticked(w)
  <2>1. s.now \in Nat /\ s.now + 1 \in Nat
    BY <1>1 DEF States
  <2> DEFINE r == [s EXCEPT !.now = s.now + 1]
  <2>2. v = [s |-> r, opening |-> w.opening, gone |-> w.gone, failed |-> w.failed]
    BY <1>1, <1>7 DEF Ticked
  <2>3. r \in S /\ r.slot = s.slot /\ r.now = s.now + 1 /\ r.chain = s.chain
    BY <1>1, <2>1 DEF States
  <2>4. s.slot # Unbound => s.slot.expires[1] \in Nat
    BY <1>1, SlotParts DEF States, Slots
  <2> HIDE DEF r
  <2>5. Fresh(r, d)
    BY <1>2, <2>1, <2>3, <2>4 DEF Fresh
  <2> QED
    <3>1. v \in W /\ v.s = r /\ v.gone = w.gone
      BY <1>1, <2>2, <2>3 DEF Courses
    <3> QED
      BY <2>3, <2>5, <3>1 DEF CourseInv
<1>8. CASE v = Created(w, sink)
  <2> DEFINE r == do_create(Looked(s), sink)
  <2>1. v = [s |-> r, opening |-> w.opening, gone |-> FALSE, failed |-> w.failed]
    BY <1>1, <1>8 DEF Created
  <2>2. r \in S /\ Fresh(r, d)
    BY <1>3, CreateFits DEF KeepsTime
  <2> HIDE DEF r
  <2> QED
    <3>1. v \in W /\ v.s = r /\ v.gone = FALSE
      BY <1>1, <2>1, <2>2 DEF Courses
    <3> QED
      BY <2>2, <3>1 DEF CourseInv
<1>9. CASE v = OpenBegun(w)
  <2> DEFINE o == Some(lookup_node(s) # None)
  <2>1. o \in {None, Some(TRUE), Some(FALSE)}
    BY DEF Some
  <2>2. v = [s |-> Looked(s), opening |-> o, gone |-> g, failed |-> w.failed]
    BY <1>16, <1>9 DEF OpenBegun, asked
  <2> HIDE DEF o
  <2>3. v \in W /\ v.s = Looked(s) /\ v.gone = g
    BY <1>1, <1>3, <1>15, <2>1, <2>2 DEF Courses, KeepsTime
  <2> QED
    BY <1>3, <1>15, <2>3, MovedKeeps
<1>10. CASE v = OpenDone(w) /\ w.opening # None
  <2>1. w.opening[1] \in BOOLEAN
    <3>1. <<TRUE>>[1] = TRUE /\ <<FALSE>>[1] = FALSE
      OBVIOUS
    <3>2. w.opening = <<TRUE>> \/ w.opening = <<FALSE>>
      BY <1>1, <1>10 DEF Some
    <3> QED
      BY <3>1, <3>2
  <2>2. KeepsTime(s, notify_open(s, w.opening[1]), S, d)
    BY <1>1, <1>2, <2>1, OpenKeepsTime
  <2>3. v = [s |-> notify_open(s, w.opening[1]), opening |-> None, gone |-> w.gone, failed |-> w.failed]
    BY <1>1, <1>10 DEF OpenDone
  <2> DEFINE r == notify_open(s, w.opening[1])
  <2> HIDE DEF r
  <2>4. v \in W /\ v.s = r /\ v.gone = w.gone /\ KeepsTime(s, r, S, d)
    BY <1>1, <2>2, <2>3 DEF Courses, KeepsTime, r
  <2> QED
    BY <2>4, MovedKeeps
<1>11. ASSUME NEW ok \in BOOLEAN, v = FlushDone(w, ok)
       PROVE  v \in W /\ CourseInv(v, d)
  <2> DEFINE r == flush_content(s, ok)
             f == r.error # None
  <2>4. f \in BOOLEAN
    OBVIOUS
  <2>1. KeepsTime(s, r, S, d) /\ r.slot = Looked(s).slot
    BY <1>1, <1>2, FlushKeepsTime
  <2>2. v = [s |-> r, opening |-> w.opening, gone |-> g, failed |-> f]
    <3>1. v = [Asked(w) EXCEPT !.s = r, !.failed = f]
      BY <1>11, Zenon DEF FlushDone
    <3> HIDE DEF f, r
    <3>2. v = [asked EXCEPT !.s = r, !.failed = f]
      BY <1>16, <3>1, Zenon
    <3>3. v = [[s |-> Looked(s), opening |-> w.opening, gone |-> g, failed |-> w.failed]
                  EXCEPT !.s = r, !.failed = f]
      BY <3>2, Zenon DEF asked
    <3> QED
      BY <3>3, Rewritten, Zenon
  <2> HIDE DEF f
  <2> HIDE DEF r
  <2>3. v \in W /\ v.s = r /\ v.gone = g
    BY <1>1, <1>15, <2>1, <2>2, <2>4 DEF Courses, KeepsTime
  <2> QED
    BY <1>3, <1>15, <2>1, <2>3, MovedKeeps
<1>12. CASE v = Released(w) /\ s.handles > 0
  <2> DEFINE r == release(s)
  <2>1. KeepsTime(s, r, S, d) /\ (s.handles = 1 /\ lookup_node(s) = None => r.slot = Unbound)
    BY <1>1, <1>2, <1>12, ReleaseKeepsTime
  <2>2. CASE s.handles = 1
    <3>1. v = [s |-> r, opening |-> w.opening, gone |-> g, failed |-> FALSE]
      <4>1. v = [Asked(w) EXCEPT !.s = r, !.failed = FALSE]
        BY <1>12, <2>2 DEF Released
      <4> HIDE DEF r
      <4>2. v = [asked EXCEPT !.s = r, !.failed = FALSE]
        BY <1>16, <4>1, Zenon
      <4>3. v = [[s |-> Looked(s), opening |-> w.opening, gone |-> g, failed |-> w.failed]
                    EXCEPT !.s = r, !.failed = FALSE]
        BY <4>2, Zenon DEF asked
      <4> QED
        BY <4>3, Rewritten, Zenon
    <3> HIDE DEF r
    <3>2. v \in W /\ v.s = r /\ v.gone = g
      BY <1>1, <1>15, <2>1, <3>1 DEF Courses, KeepsTime
    <3> QED
      BY <1>15, <2>1, <2>2, <3>2, MovedKeeps
  <2>3. CASE s.handles # 1
    <3>1. v = [s |-> r, opening |-> w.opening, gone |-> w.gone, failed |-> w.failed]
      BY <1>1, <1>12, <2>3 DEF Released
    <3> HIDE DEF r
    <3>2. v \in W /\ v.s = r /\ v.gone = w.gone
      BY <1>1, <1>15, <2>1, <3>1 DEF Courses, KeepsTime
    <3> QED
      BY <2>1, <3>2, MovedKeeps
  <2> QED
    BY <2>2, <2>3
<1>13. CASE v = Timed(w)
  <2> DEFINE r == setattr(s, 5)
  <2>1. KeepsTime(s, r, S, d) /\ r.slot = Looked(s).slot
    BY <1>1, <1>2, TimesKeep
  <2>2. v = [s |-> r, opening |-> w.opening, gone |-> g, failed |-> w.failed]
    BY <1>16, <1>13 DEF Timed, asked
  <2> HIDE DEF r
  <2>3. v \in W /\ v.s = r /\ v.gone = g
    BY <1>1, <1>15, <2>1, <2>2 DEF Courses, KeepsTime
  <2> QED
    BY <1>3, <1>15, <2>1, <2>3, MovedKeeps
<1>14. \/ v \in {Asked(w), Ticked(w), Created(w, sink), OpenBegun(w), Timed(w)}
       \/ v = OpenDone(w) /\ w.opening # None
       \/ \E ok \in BOOLEAN : v = FlushDone(w, ok)
       \/ v = Released(w) /\ s.handles > 0
  BY DEF OneRequest, When
<1> QED
  BY <1>6, <1>7, <1>8, <1>9, <1>10, <1>11, <1>12, <1>13, <1>14

(* A course begins with an inode nothing was asked of yet.                 *)
LEMMA StartKeeps ==
    ASSUME NEW d, NEW sink, NEW Chains, NEW Metas,
           NEW s \in States(sink, Chains, Metas), s.slot = Unbound
    PROVE  Start(s) \in Courses(sink, Chains, Metas) /\ CourseInv(Start(s), d)
BY DEF Start, Courses, CourseInv, Fresh

(* What CourseInv says is what the properties need.                        *)
LEMMA GoneFollows ==
    ASSUME NEW d, NEW w, CourseInv(w, d)
    PROVE  GoneStaysGone(w)
<1> SUFFICES ASSUME w.gone, w.s.chain = None PROVE lookup_node(w.s) = None
  BY DEF GoneStaysGone
<1>1. w.s.slot = Unbound
  BY DEF CourseInv
<1>2. bound_node(w.s) = None
  BY <1>1 DEF bound_node, Unbound, None
<1> QED
  BY <1>2 DEF lookup_node

LEMMA BindingFollows ==
    ASSUME NEW d \in Nat, NEW sink, sink.cache = Ttl(d), NEW Chains, NEW Metas,
           NEW w \in Courses(sink, Chains, Metas), CourseInv(w, d)
    PROVE  BindingHolds(w)
<1> DEFINE s == w.s
<1> SUFFICES ASSUME lookup_node(s) # None, s.chain = None
             PROVE  /\ s.now <= s.slot.expires[1]
                    /\ s.slot.expires[1] - s.now <= resolve_attr(s)[1].ttl
  BY Zenon DEF BindingHolds
<1>1. s.now \in Nat /\ s.slot \in Slots(sink) /\ Fresh(s, d)
  BY DEF Courses, States, CourseInv
<1> HIDE DEF s
<1>2. lookup_node(s) = bound_node(s) /\ bound_node(s) # None
  BY DEF lookup_node
<1>3. ~Expired(s) /\ bound_node(s) = s.slot.node /\ s.slot.node # None
  BY <1>2 DEF bound_node
<1>4. s.slot # Unbound
  BY <1>3 DEF Unbound
<1>5. PICK t \in Nat : s.slot = [node |-> Some(sink), expires |-> Some(t)]
  BY <1>1, <1>4 DEF Slots
<1>6. s.slot.expires # None /\ s.slot.expires[1] = t /\ s.slot.node[1] = sink
  BY <1>5, SlotParts
<1>7. s.now <= t
  BY <1>1, <1>3, <1>6 DEF Expired
<1>8. t - s.now <= d
  BY <1>1, <1>4, <1>6 DEF Fresh
<1>9. resolve_attr(s)[1] = node_attr(s, sink)
  BY <1>2, <1>3, <1>6 DEF resolve_attr, Some
<1>10. node_attr(s, sink).ttl = d
  <2>1. \A e : resolve_attr_ttl(sink.cache, e) = d
    BY DEF resolve_attr_ttl, Ttl
  <2> QED
    BY <2>1 DEF node_attr
<1> QED
  BY <1>6, <1>7, <1>8, <1>9, <1>10

(* What was said of one inode: along every course of requests to it that   *)
(* serves as many handles, and runs as long, as one likes, a name that was *)
(* found to be gone is not found again before it is created again, and     *)
(* while it is found its binding has time left, at most the node's own.    *)
(* Whatever the chain finds under the name, whatever the backing file says *)
(* and however long the endpoint lives: the course's invariant holds at    *)
(* its beginning, each request keeps it, and it says what is to be shown.  *)
THEOREM EndpointsAnswerInTime ==
    ASSUME NEW d \in Nat, NEW sink, sink.cache = Ttl(d), NEW Chains, NEW Metas
    PROVE  /\ \A s \in States(sink, Chains, Metas) :
                 s.slot = Unbound =>
                     Start(s) \in Courses(sink, Chains, Metas) /\ CourseInv(Start(s), d)
           /\ \A w \in Courses(sink, Chains, Metas), last \in Nat, most \in Nat :
                 CourseInv(w, d) =>
                     \A v \in OneRequest(w, sink, last, most) :
                         v \in Courses(sink, Chains, Metas) /\ CourseInv(v, d)
           /\ \A w \in Courses(sink, Chains, Metas) :
                 CourseInv(w, d) => GoneStaysGone(w) /\ BindingHolds(w)
BY StartKeeps, StepKeeps, GoneFollows, BindingFollows, Zenon
=============================================================================
