------------------------ MODULE NetConnectionProofs ------------------------
(***************************************************************************)
(* Machine-checked proofs about NetConnection, for any number of callbacks,*)
(* user operations and units of data.                                      *)
(***************************************************************************)
EXTENDS NetConnection, SequenceTheorems, TLAPS

(* The calls in progress, as TypeOK has them.                              *)
Frames ==
    [k: {"cb"}, ev: Closes \cup {"Connected"}, i: 1 .. Callbacks]
    \cup [k: {"data"}, close: BOOLEAN]
    \cup [k: {"flush", "write"}]

HasFlush(st) == \E i \in 1 .. Len(st) : st[i].k = "flush"

(* read_disable has not given a flushing handle callbacks nor left a read  *)
(* scheduled; on an accepted connection it never schedules one.            *)
Settled(c) == ~c.revived \/ c.role = "server"

(* A bufferevent that was freed has no callbacks and only reads are        *)
(* injected into the file event; a connection that is settled injects none *)
(* and its handle, once closed, is not read from.                          *)
Quiet(c) ==
    /\ c.bev = "freed" => c.cbs = {}
    /\ c.injected \subseteq {"Read"}
    /\ c.abort # "can_flush_close"
    /\ c.bev = "open" => c.closes = 0
    /\ c.role = "server" => ~c.connecting
    /\ Settled(c) =>
          /\ ~c.lateData /\ c.injected = {} /\ ~c.armed /\ ~c.wake
          /\ c.bev = "flushing" => "read" \notin c.cbs
    /\ ~c.revived /\ c.bev = "flushing" => "event" \notin c.cbs

Good(m) == m.c \in Conn /\ m.st \in Seq(Frames) /\ Quiet(m.c)

(* What is written and has not reached the bufferevent waits for the       *)
(* connect, or for the flush that follows the Connected callbacks.         *)
Flushed(m) ==
    IsOpen(m.c) /\ ~m.c.connecting /\ m.c.wbuf # 0 =>
        m.c.role = "client" /\ HasFlush(m.st)

Others ==
    /\ seen \in [1 .. Callbacks -> Seq(Closes \cup {"Connected"})]
    /\ peer \in [units: 0 .. PeerUnits, gone: BOOLEAN]
    /\ errno \in {"other", "reset"}
    /\ ops \in 0 .. UserOps
    /\ ops = UserOps => conn.wbuf = 0

(* The inductive invariant.                                                *)
IInv == Good(M(conn, stack)) /\ Flushed(M(conn, stack)) /\ Others

----------------------------------------------------------------------------
(* Fields.                                                                 *)

(* A machine has the connection and the calls it was made of.              *)
LEMMA MachineFields ==
  ASSUME NEW c, NEW st
  PROVE  M(c, st).c = c /\ M(c, st).st = st
BY DEF M

(* Pushing calls keeps the type of the stack and the flush that waits.     *)
LEMMA Push ==
  ASSUME NEW st \in Seq(Frames), NEW f \in Frames
  PROVE  /\ <<f>> \o st \in Seq(Frames)
         /\ HasFlush(st) => HasFlush(<<f>> \o st)
         /\ Len(<<f>> \o st) = Len(st) + 1 /\ (<<f>> \o st)[1] = f
<1>1. <<f>> \o st \in Seq(Frames) /\ Len(<<f>> \o st) = Len(st) + 1 /\ Len(st) \in Nat
  OBVIOUS
<1>2. (<<f>> \o st)[1] = f /\ \A i \in 1 .. Len(st) : (<<f>> \o st)[i + 1] = st[i]
  OBVIOUS
<1>3. HasFlush(st) => HasFlush(<<f>> \o st)
  <2> SUFFICES ASSUME NEW i \in 1 .. Len(st), st[i].k = "flush" PROVE HasFlush(<<f>> \o st)
    BY DEF HasFlush
  <2>1. i + 1 \in 1 .. Len(<<f>> \o st) /\ (<<f>> \o st)[i + 1].k = "flush"
    BY <1>1, <1>2
  <2> QED
    BY <2>1 DEF HasFlush
<1> QED
  BY <1>1, <1>2, <1>3

(* The frames that are pushed.                                             *)
LEMMA FrameTypes ==
  /\ \A ev \in Closes \cup {"Connected"}, i \in 1 .. Callbacks :
        [k |-> "cb", ev |-> ev, i |-> i] \in Frames
  /\ \A b \in BOOLEAN : [k |-> "data", close |-> b] \in Frames
  /\ [k |-> "flush"] \in Frames /\ [k |-> "write"] \in Frames
BY DEF Frames

(* The next callback of an event.                                          *)
LEMMA Raises ==
  ASSUME NEW m, Good(m), NEW ev \in Closes \cup {"Connected"}, NEW i \in Nat \ {0}
  PROVE  /\ Good(RaiseFrom(m, ev, i)) /\ RaiseFrom(m, ev, i).c = m.c
         /\ HasFlush(m.st) => HasFlush(RaiseFrom(m, ev, i).st)
         /\ Len(RaiseFrom(m, ev, i).st) <= Len(m.st) + 1
<1>0. m.st \in Seq(Frames) /\ Len(m.st) \in Nat
  BY DEF Good
<1>1. CASE i <= Callbacks /\ (ev \in Closes \/ IsOpen(m.c))
  <2> DEFINE f == [k |-> "cb", ev |-> ev, i |-> i]
  <2>1. i \in 1 .. Callbacks
    BY <1>1, CallbacksAssumption
  <2>2. f \in Frames
    BY <2>1, FrameTypes
  <2>3. RaiseFrom(m, ev, i) = M(m.c, <<f>> \o m.st)
    BY <1>1 DEF RaiseFrom
  <2> HIDE DEF f
  <2>4. <<f>> \o m.st \in Seq(Frames) /\ (HasFlush(m.st) => HasFlush(<<f>> \o m.st))
        /\ Len(<<f>> \o m.st) = Len(m.st) + 1
    BY <1>0, <2>2, Push
  <2>5. RaiseFrom(m, ev, i).c = m.c /\ RaiseFrom(m, ev, i).st = <<f>> \o m.st
    BY <2>3 DEF M
  <2> QED
    BY <1>0, <2>4, <2>5 DEF Good
<1>2. CASE ~(i <= Callbacks /\ (ev \in Closes \/ IsOpen(m.c)))
  <2>1. RaiseFrom(m, ev, i) = m
    BY <1>2 DEF RaiseFrom
  <2> QED
    BY <1>0, <2>1
<1> QED
  BY <1>1, <1>2

(* close_i of the handle.                                                  *)
LEMMA HandleCloses ==
  ASSUME NEW c \in Conn, Quiet(c), NEW n \in Nat, NEW why \in {"none", "peer", "connect", "errno", "empty"}
  PROVE  LET d == [HandleClose([c EXCEPT !.wbuf = 0]) EXCEPT !.closes = n, !.cause = why]
         IN  d \in Conn /\ Quiet(d) /\ d.wbuf = 0
<1> DEFINE x == [c EXCEPT !.wbuf = 0]
           a == [c EXCEPT !.wbuf = 0, !.bev = "flushing", !.cbs = {"free"}, !.closes = n, !.cause = why]
           b == [c EXCEPT !.wbuf = 0, !.bev = "freed", !.cbs = {}, !.inp = 0, !.closes = n, !.cause = why]
           d == [HandleClose(x) EXCEPT !.closes = n, !.cause = why]
<1>1. d = a \/ d = b
  BY DEF Conn, HandleClose
<1>2. a \in Conn
  BY DEF Conn
<1>3. b \in Conn
  BY DEF Conn
<1>4. Quiet(a) /\ a.wbuf = 0
  BY DEF Conn, Quiet, Settled
<1>5. Quiet(b) /\ b.wbuf = 0
  BY DEF Conn, Quiet, Settled
<1> QED
  BY <1>1, <1>2, <1>3, <1>4, <1>5

Causes == {"none", "peer", "connect", "errno", "empty"}

(* close_socket: a connection that is open loses what it had not written.  *)
LEMMA ClosesSocket ==
  ASSUME NEW m, Good(m), NEW ev \in Closes, NEW why \in Causes
  PROVE  LET r == CloseSocket(m, ev, why)
         IN  /\ Good(r)
             /\ IsOpen(m.c) => r.c.wbuf = 0
             /\ ~IsOpen(m.c) => r = m
<1>1. CASE ~IsOpen(m.c)
  BY <1>1 DEF CloseSocket
<1>2. CASE IsOpen(m.c)
  <2> DEFINE n == m.c.closes + 1
             y == IF m.c.cause = "none" THEN why ELSE m.c.cause
             d == [HandleClose([m.c EXCEPT !.wbuf = 0]) EXCEPT !.closes = n, !.cause = y]
             x == M(d, m.st)
  <2>0. m.c \in Conn /\ m.st \in Seq(Frames) /\ Quiet(m.c)
    BY DEF Good
  <2>1. n \in Nat /\ y \in Causes
    BY <2>0 DEF Conn, Causes
  <2>2. HandleClose([m.c EXCEPT !.wbuf = 0]).closes = m.c.closes
        /\ HandleClose([m.c EXCEPT !.wbuf = 0]).cause = m.c.cause
    BY <2>0 DEF Conn, HandleClose
  <2>3. CloseSocket(m, ev, why) = RaiseFrom(x, ev, 1)
    <3> DEFINE h == HandleClose([m.c EXCEPT !.wbuf = 0])
    <3>1. [h EXCEPT !.closes = @ + 1, !.cause = IF @ = "none" THEN why ELSE @] = d
      BY <2>2
    <3> HIDE DEF h, d
    <3> QED
      BY <1>2, <3>1 DEF CloseSocket, h
  <2> HIDE DEF n, y
  <2>4. d \in Conn /\ Quiet(d) /\ d.wbuf = 0
    BY <2>0, <2>1, HandleCloses DEF Causes
  <2> HIDE DEF d
  <2>5. Good(x) /\ x.c.wbuf = 0
    BY <2>0, <2>4, MachineFields DEF Good
  <2> HIDE DEF x
  <2>6. Good(RaiseFrom(x, ev, 1)) /\ RaiseFrom(x, ev, 1).c = x.c
    BY <2>5, Raises
  <2> QED
    BY <1>2, <2>3, <2>5, <2>6
<1> QED
  BY <1>1, <1>2

(* What the raw buffer socket writes reaches the bufferevent whole.        *)
LEMMA DoesWrite ==
  ASSUME NEW c \in Conn, Quiet(c), NEW end \in BOOLEAN
  PROVE  LET d == DoWrite(c, end)
         IN  d \in Conn /\ Quiet(d) /\ d.wbuf = 0 /\ d.bev = c.bev
             /\ d.connecting = c.connecting /\ d.role = c.role /\ d.closes = c.closes
<1> DEFINE a == [c EXCEPT !.shut = TRUE]
           n == c.out + c.wbuf
           b == [c EXCEPT !.out = n, !.wbuf = 0]
<1>1. CASE c.wbuf = 0
  <2>1. DoWrite(c, end) = a \/ DoWrite(c, end) = c
    BY <1>1 DEF DoWrite
  <2>2. a \in Conn
    BY DEF Conn
  <2>3. Quiet(a) /\ a.wbuf = 0 /\ a.bev = c.bev /\ a.connecting = c.connecting
        /\ a.role = c.role /\ a.closes = c.closes
    BY <1>1 DEF Conn, Quiet, Settled
  <2> HIDE DEF a
  <2> QED
    BY <1>1, <2>1, <2>2, <2>3
<1>2. CASE c.wbuf # 0
  <2>0. n \in Nat
    BY DEF Conn
  <2>1. DoWrite(c, end) = b
    BY <1>2 DEF DoWrite
  <2> HIDE DEF n
  <2>2. b \in Conn
    BY <2>0 DEF Conn
  <2>3. Quiet(b) /\ b.wbuf = 0 /\ b.bev = c.bev /\ b.connecting = c.connecting
        /\ b.role = c.role /\ b.closes = c.closes
    BY <1>2 DEF Conn, Quiet, Settled
  <2> HIDE DEF b
  <2> QED
    BY <2>1, <2>2, <2>3
<1> QED
  BY <1>1, <1>2

(* on_write_ready leaves nothing in the write buffer.                      *)
LEMMA WritesReady ==
  ASSUME NEW m, Good(m)
  PROVE  LET r == WriteReady(m)
         IN  /\ Good(r) /\ r.c.wbuf = 0
             /\ ~IsOpen(m.c) => r.st = m.st /\ r.c.closes = m.c.closes
<1> DEFINE x == M(DoWrite(m.c, m.c.wend), m.st)
<1>0. m.c \in Conn /\ m.st \in Seq(Frames) /\ Quiet(m.c) /\ m.c.wend \in BOOLEAN
  BY DEF Good, Conn
<1>1. /\ DoWrite(m.c, m.c.wend) \in Conn /\ Quiet(DoWrite(m.c, m.c.wend))
      /\ DoWrite(m.c, m.c.wend).wbuf = 0 /\ DoWrite(m.c, m.c.wend).bev = m.c.bev
      /\ DoWrite(m.c, m.c.wend).closes = m.c.closes
  BY <1>0, DoesWrite
<1>2. x.c = DoWrite(m.c, m.c.wend) /\ x.st = m.st
  BY MachineFields
<1>3. Good(x) /\ x.c.wbuf = 0 /\ x.c.closes = m.c.closes /\ (IsOpen(x.c) <=> IsOpen(m.c))
  BY <1>0, <1>1, <1>2 DEF Good, IsOpen
<1>4. WriteReady(m) = x \/ WriteReady(m) = CloseSocket(x, "RemoteClose", "errno")
  BY DEF WriteReady
<1>5. "RemoteClose" \in Closes /\ "errno" \in Causes
  BY DEF Closes, Causes
<1> HIDE DEF x
<1>6. LET r == CloseSocket(x, "RemoteClose", "errno")
      IN  /\ Good(r)
          /\ IsOpen(x.c) => r.c.wbuf = 0
          /\ ~IsOpen(x.c) => r = x
  BY <1>3, <1>5, ClosesSocket
<1> QED
  BY <1>2, <1>3, <1>4, <1>6

(* The two calls that wait for the Connected callbacks.                    *)
LEMMA PushFlush ==
  ASSUME NEW st \in Seq(Frames)
  PROVE  LET t == <<[k |-> "flush"], [k |-> "write"]>> \o st
         IN  t \in Seq(Frames) /\ HasFlush(t)
<1> DEFINE p == <<[k |-> "flush"], [k |-> "write"]>>
<1>1. p \in Seq(Frames) /\ Len(p) = 2 /\ p[1] = [k |-> "flush"]
  BY FrameTypes
<1> HIDE DEF p
<1>2. p \o st \in Seq(Frames) /\ Len(p \o st) = 2 + Len(st) /\ Len(st) \in Nat
      /\ (p \o st)[1] = p[1]
  <2>1. p \o st \in Seq(Frames)
    BY <1>1
  <2>0. p \in Seq(Frames) /\ Len(p) = 2 /\ Len(st) \in Nat
    BY <1>1
  <2>2. Len(p \o st) = 2 + Len(st) /\ Len(st) \in Nat
    <3>1. Len(p \o st) = Len(p) + Len(st)
      BY <2>0, ConcatProperties
    <3> QED
      BY <2>0, <3>1
  <2>3. (p \o st)[1] = p[1]
    BY <1>1, <2>2, ConcatProperties
  <2> QED
    BY <2>1, <2>2, <2>3
<1>3. 1 \in 1 .. Len(p \o st) /\ (p \o st)[1].k = "flush"
  BY <1>1, <1>2
<1>4. HasFlush(p \o st)
  BY <1>3 DEF HasFlush
<1> QED
  BY <1>2, <1>4 DEF p

(* on_write_ready, the first one included.                                 *)
LEMMA OnWritesReady ==
  ASSUME NEW m, Good(m)
  PROVE  LET r == OnWriteReady(m)
         IN  /\ Good(r) /\ Flushed(r) /\ (m.c.wbuf = 0 => r.c.wbuf = 0)
             /\ ~m.c.connecting => r.c.wbuf = 0
<1>0. m.c \in Conn /\ m.st \in Seq(Frames) /\ Quiet(m.c)
  BY DEF Good
<1>1. CASE m.c.connecting
  <2> DEFINE c == [m.c EXCEPT !.connecting = FALSE]
             t == <<[k |-> "flush"], [k |-> "write"]>> \o m.st
             x == M(c, t)
  <2>1. c \in Conn
    BY <1>0 DEF Conn
  <2>2. Quiet(c) /\ c.wbuf = m.c.wbuf /\ c.role = "client"
    BY <1>0, <1>1 DEF Conn, Quiet, Settled, Roles
  <2>3. t \in Seq(Frames) /\ HasFlush(t)
    BY <1>0, PushFlush
  <2>4. OnWriteReady(m) = RaiseFrom(x, "Connected", 1)
    BY <1>1 DEF OnWriteReady
  <2> HIDE DEF c, t
  <2>5. x.c = c /\ x.st = t
    BY DEF M
  <2> HIDE DEF x
  <2>6. Good(x)
    BY <2>1, <2>2, <2>3, <2>5 DEF Good
  <2>7. Good(RaiseFrom(x, "Connected", 1)) /\ RaiseFrom(x, "Connected", 1).c = x.c
        /\ (HasFlush(x.st) => HasFlush(RaiseFrom(x, "Connected", 1).st))
    BY <2>6, Raises
  <2> QED
    BY <1>1, <2>2, <2>3, <2>4, <2>5, <2>7 DEF Flushed
<1>2. CASE ~m.c.connecting
  <2>1. OnWriteReady(m) = WriteReady(m)
    BY <1>2 DEF OnWriteReady
  <2>2. Good(WriteReady(m)) /\ WriteReady(m).c.wbuf = 0
    BY WritesReady
  <2> QED
    BY <2>1, <2>2 DEF Flushed
<1> QED
  BY <1>1, <1>2

(* A write is flushed at once, unless the connection connects.             *)
LEMMA WritesInternal ==
  ASSUME NEW m, Good(m), Flushed(m), NEW n \in 0 .. 1, NEW end \in BOOLEAN
  PROVE  LET r == WriteInternal(m, n, end)
         IN  Good(r) /\ Flushed(r) /\ (~IsOpen(m.c) => r = m)
<1>0. m.c \in Conn /\ m.st \in Seq(Frames) /\ Quiet(m.c)
  BY DEF Good
<1>1. CASE m.c.wend \/ ~IsOpen(m.c)
  BY <1>1 DEF WriteInternal
<1>2. CASE ~(m.c.wend \/ ~IsOpen(m.c))
  <2> DEFINE k == m.c.wbuf + n
             c == [m.c EXCEPT !.wend = end, !.wbuf = k]
             x == M(c, m.st)
  <2>1. k \in Nat /\ (n = 0 => k = m.c.wbuf)
    BY <1>0 DEF Conn
  <2>2. WriteInternal(m, n, end) = IF (n = 0 /\ ~end) \/ c.connecting THEN x ELSE OnWriteReady(x)
    BY <1>2 DEF WriteInternal
  <2> HIDE DEF k
  <2>3. c \in Conn
    BY <1>0, <2>1 DEF Conn
  <2>4. /\ Quiet(c) /\ c.wbuf = k /\ c.connecting = m.c.connecting /\ c.bev = m.c.bev
        /\ c.role = m.c.role
    BY <1>0 DEF Conn, Quiet, Settled
  <2> HIDE DEF c
  <2>5. x.c = c /\ x.st = m.st
    BY DEF M
  <2> HIDE DEF x
  <2>6. Good(x)
    BY <1>0, <2>3, <2>4, <2>5 DEF Good
  <2>7. Good(OnWriteReady(x)) /\ Flushed(OnWriteReady(x))
    BY <2>6, OnWritesReady
  <2>8. CASE (n = 0 /\ ~end) \/ c.connecting
    <3>1. Flushed(x)
      BY <2>1, <2>4, <2>5, <2>8 DEF Flushed, IsOpen
    <3> QED
      BY <1>2, <2>2, <2>6, <2>8, <3>1
  <2>9. CASE ~((n = 0 /\ ~end) \/ c.connecting)
    BY <1>2, <2>2, <2>7, <2>9
  <2> QED
    BY <2>8, <2>9
<1> QED
  BY <1>1, <1>2

(* The file events of a connection whose bufferevent is there.             *)
LEMMA EnablesFileEvents ==
  ASSUME NEW c \in Conn, Quiet(c), IsOpen(c), NEW evs \in SUBSET FileReady,
         c.bev = "flushing" => c.revived, c.role = "server" => "Read" \notin evs
  PROVE  LET e == EnableFileEvents(c, evs)
         IN  /\ e \in Conn /\ Quiet(e) /\ e.role = c.role /\ e.bev = c.bev /\ e.revived = c.revived
             /\ e.wbuf = c.wbuf /\ e.connecting = c.connecting
<1> DEFINE d == IF c.injected # {} THEN Cancel([c EXCEPT !.injected = {}]) ELSE c
<1>1. d = [c EXCEPT !.injected = {}, !.armed = FALSE] \/ d = c
  BY DEF Cancel
<1>2. [c EXCEPT !.injected = {}, !.armed = FALSE] \in Conn
  BY DEF Conn
<1>3. d \in Conn
  BY <1>1, <1>2
<1>4. /\ Quiet(d) /\ d.role = c.role /\ d.bev = c.bev /\ d.wbuf = c.wbuf
      /\ d.connecting = c.connecting /\ d.revived = c.revived
  BY <1>1 DEF Conn, Quiet, Settled
<1>5. EnableFileEvents(c, evs) = IF evs = d.events THEN d ELSE AssignEvents(d, evs)
  BY DEF EnableFileEvents
<1> HIDE DEF d
<1> DEFINE cb == {"event"} \cup (IF "Read" \in evs THEN {"read"} ELSE {})
           a == [d EXCEPT !.events = evs, !.cbs = cb]
<1>6. AssignEvents(d, evs) = a
  BY DEF AssignEvents
<1>7. cb \in SUBSET {"read", "free", "event"} /\ (c.role = "server" => "read" \notin cb)
  OBVIOUS
<1> HIDE DEF cb
<1>8. a \in Conn
  BY <1>3, <1>7 DEF Conn
<1>9. /\ Quiet(a) /\ a.role = c.role /\ a.bev = c.bev /\ a.wbuf = c.wbuf
      /\ a.connecting = c.connecting /\ a.revived = c.revived
  BY <1>3, <1>4, <1>7 DEF Conn, Quiet, Settled, IsOpen
<1> HIDE DEF a
<1> QED
  BY <1>3, <1>4, <1>5, <1>6, <1>8, <1>9

(* read_disable_i.                                                         *)
LEMMA ReadsDisable ==
  ASSUME NEW c \in Conn, Quiet(c), NEW disable \in BOOLEAN,
         disable \/ (c.dis > 0 /\ c.role = "client")
  PROVE  LET e == ReadDisable(c, disable)
         IN  /\ e \in Conn /\ Quiet(e) /\ e.role = c.role /\ e.bev = c.bev
             /\ e.wbuf = c.wbuf /\ e.connecting = c.connecting
             /\ ~IsOpen(c) => e.closes = c.closes
<1> DEFINE rv == (c.revived \/ Revives(c, disable))
           Same(e) == /\ e \in Conn /\ Quiet(e) /\ e.role = c.role /\ e.bev = c.bev
                      /\ e.wbuf = c.wbuf /\ e.connecting = c.connecting
                      /\ e.revived = rv
<1>0. c.dis \in Nat /\ c.rbuf \in Nat
  BY DEF Conn
<1>00. /\ rv \in BOOLEAN /\ (c.revived => rv) /\ (c.bev = "flushing" => rv)
       /\ (IsOpen(c) /\ ~disable /\ c.rbuf # 0 => rv)
  BY <1>0 DEF Conn, Revives
<1> HIDE DEF rv
<1>1. CASE disable
  <2> DEFINE n == c.dis + 1
             d == [c EXCEPT !.dis = n, !.revived = rv]
             evs == {"Write"} \cup (IF c.early /\ ~c.half THEN {"Closed"} ELSE {})
  <2>1. n \in Nat
    BY <1>0
  <2>2. ReadDisable(c, disable) = IF ~IsOpen(c) \/ d.dis > 1 THEN d ELSE EnableFileEvents(d, evs)
    BY <1>1 DEF ReadDisable, rv
  <2>3. evs \in SUBSET FileReady /\ "Read" \notin evs
    BY DEF FileReady
  <2> HIDE DEF n, evs
  <2>4. d \in Conn
    BY <1>00, <2>1 DEF Conn
  <2>5. Quiet(d) /\ d.role = c.role /\ d.bev = c.bev /\ d.wbuf = c.wbuf
        /\ d.connecting = c.connecting /\ d.closes = c.closes /\ d.revived = rv
    BY <1>00 DEF Conn, Quiet, Settled
  <2> HIDE DEF d
  <2>6. IsOpen(c) => Same(EnableFileEvents(d, evs))
    BY <1>00, <2>3, <2>4, <2>5, EnablesFileEvents DEF IsOpen
  <2> QED
    BY <2>2, <2>4, <2>5, <2>6
<1>2. CASE ~disable
  <2> DEFINE n == c.dis - 1
             d == [c EXCEPT !.dis = n, !.revived = rv]
             evs == {"Read", "Write"}
             e == EnableFileEvents(d, evs)
             f == [e EXCEPT !.dispatch = TRUE]
  <2>1. n \in Nat
    BY <1>0, <1>2
  <2>2. ReadDisable(c, disable) = IF ~IsOpen(c) \/ d.dis > 0 THEN d
                                  ELSE IF c.rbuf = 0 THEN e ELSE Activate(f, "Read")
    BY <1>2 DEF ReadDisable, rv
  <2>3. evs \in SUBSET FileReady
    BY DEF FileReady
  <2> HIDE DEF n, evs
  <2>4. d \in Conn
    BY <1>00, <2>1 DEF Conn
  <2>5. Quiet(d) /\ d.role = c.role /\ d.bev = c.bev /\ d.wbuf = c.wbuf
        /\ d.connecting = c.connecting /\ d.closes = c.closes /\ d.revived = rv
    BY <1>00 DEF Conn, Quiet, Settled
  <2> HIDE DEF d
  <2>6. IsOpen(c) => Same(e)
    BY <1>00, <1>2, <2>3, <2>4, <2>5, EnablesFileEvents DEF IsOpen
  <2> HIDE DEF e
  <2>7. ASSUME IsOpen(c), c.rbuf # 0 PROVE Same(Activate(f, "Read"))
    <3>0. c.role = "client" /\ rv
      BY <1>00, <1>2, <2>7
    <3>1. Same(e)
      BY <2>6, <2>7
    <3>2. f \in Conn
      BY <3>1 DEF Conn
    <3>3. /\ Quiet(f) /\ f.role = "client" /\ f.bev = c.bev /\ f.wbuf = c.wbuf
          /\ f.connecting = c.connecting /\ f.revived = rv
      BY <3>0, <3>1 DEF Conn, Quiet, Settled
    <3> HIDE DEF f
    <3> DEFINE a == [f EXCEPT !.abort = "file_event_activate:191"]
               i == f.injected \cup {"Read"}
               wk == (f.injected = {} \/ f.wake)
               b == [f EXCEPT !.enabled = TRUE, !.injected = i, !.wake = wk]
    <3>4. Activate(f, "Read") = a \/ Activate(f, "Read") = b
      BY DEF Activate
    <3>5. i \in SUBSET FileReady /\ i \subseteq {"Read"} /\ wk \in BOOLEAN
      BY <3>2, <3>3 DEF Conn, Quiet, Settled, FileReady
    <3> HIDE DEF i, wk
    <3>6. a \in Conn
      BY <3>2 DEF Conn, Aborts
    <3>7. b \in Conn
      BY <3>2, <3>5 DEF Conn
    <3>8. /\ Quiet(a) /\ a.role = "client" /\ a.bev = c.bev /\ a.wbuf = c.wbuf
          /\ a.connecting = c.connecting /\ a.revived = rv
      BY <3>2, <3>3 DEF Conn, Quiet, Settled
    <3>9. /\ Quiet(b) /\ b.role = "client" /\ b.bev = c.bev /\ b.wbuf = c.wbuf
          /\ b.connecting = c.connecting /\ b.revived = rv
      BY <3>0, <3>2, <3>3, <3>5 DEF Conn, Quiet, Settled
    <3> HIDE DEF a, b
    <3> QED
      BY <3>0, <3>4, <3>6, <3>7, <3>8, <3>9
  <2> QED
    BY <2>2, <2>4, <2>5, <2>6, <2>7
<1> QED
  BY <1>1, <1>2

(* close_i of the connection.                                              *)
LEMMA ClosesConnection ==
  ASSUME NEW m, Good(m), Flushed(m), NEW type \in CloseTypes(m.c.role)
  PROVE  LET r == Close(m, type)
         IN  Good(r) /\ Flushed(r) /\ (~IsOpen(m.c) => r = m)
<1>0. m.c \in Conn /\ m.st \in Seq(Frames) /\ Quiet(m.c)
  BY DEF Good
<1>1. CASE ~IsOpen(m.c)
  BY <1>1 DEF Close
<1>2. CASE IsOpen(m.c)
  <2>1. type \in {"NoFlush", "FlushWrite", "Abort", "FlushWriteAndDelay"}
        /\ (type \notin {"Abort", "NoFlush"} => m.c.role = "server")
    BY <1>0 DEF CloseTypes, Conn, Roles
  <2>2. ~(m.c.wbuf > 0 /\ type \notin {"Abort", "NoFlush"})
    <3>1. m.c.wbuf \in Nat
      BY <1>0 DEF Conn
    <3>2. m.c.role = "server" => ~m.c.connecting
      BY <1>0 DEF Quiet, Settled
    <3> QED
      BY <1>2, <2>1, <3>1, <3>2 DEF Flushed
  <2> DEFINE d == IF m.c.wbuf > 0 /\ type # "Abort" THEN DoWrite(m.c, TRUE) ELSE m.c
             x == M(d, m.st)
  <2>3. Close(m, type) = m \/ Close(m, type) = CloseSocket(x, "LocalClose", "none")
    BY <1>2, <2>1, <2>2 DEF Close
  <2>4. d \in Conn /\ Quiet(d) /\ d.bev = m.c.bev
    BY <1>0, DoesWrite
  <2> HIDE DEF d
  <2>5. x.c = d /\ x.st = m.st
    BY DEF M
  <2> HIDE DEF x
  <2>6. Good(x) /\ IsOpen(x.c)
    BY <1>0, <1>2, <2>4, <2>5 DEF Good, IsOpen
  <2>7. "LocalClose" \in Closes /\ "none" \in Causes
    BY DEF Closes, Causes
  <2>8. Good(CloseSocket(x, "LocalClose", "none")) /\ CloseSocket(x, "LocalClose", "none").c.wbuf = 0
    BY <2>6, <2>7, ClosesSocket
  <2> QED
    BY <1>2, <2>3, <2>8 DEF Flushed
<1> QED
  BY <1>1, <1>2

(* The end of on_read_ready.                                               *)
LEMMA AfterReads ==
  ASSUME NEW m, Good(m), Flushed(m), NEW close \in BOOLEAN
  PROVE  LET r == AfterRead(m, close)
         IN  /\ Good(r) /\ Flushed(r) /\ (m.c.wbuf = 0 => r.c.wbuf = 0)
             /\ ~IsOpen(m.c) => r = m
<1> DEFINE why == IF peer.gone THEN "peer" ELSE "empty"
           r == CloseSocket(m, "RemoteClose", why)
<1>1. why \in Causes /\ "RemoteClose" \in Closes
  BY DEF Causes, Closes
<1>2. AfterRead(m, close) = m \/ AfterRead(m, close) = r
  BY DEF AfterRead
<1> HIDE DEF why
<1>3. Good(r) /\ (IsOpen(m.c) => r.c.wbuf = 0) /\ (~IsOpen(m.c) => r = m)
  BY <1>1, ClosesSocket
<1> HIDE DEF r
<1>4. Flushed(r) /\ (m.c.wbuf = 0 => r.c.wbuf = 0)
  BY <1>3 DEF Flushed
<1> QED
  BY <1>2, <1>3, <1>4

(* on_read_ready: a connection that is settled is not closed when it is    *)
(* read from.                                                              *)
LEMMA OnReadsReady ==
  ASSUME NEW m, Good(m), Flushed(m), Settled(m.c) => m.c.bev = "open"
  PROVE  LET r == OnReadReady(m)
         IN  Good(r) /\ Flushed(r) /\ (m.c.wbuf = 0 => r.c.wbuf = 0)
<1>0. m.c \in Conn /\ m.st \in Seq(Frames) /\ Quiet(m.c) /\ m.c.inp \in Nat /\ m.c.rbuf \in Nat
  BY DEF Good, Conn
<1> DEFINE latched == m.c.dispatch
           n == m.c.inp
           end == n = 0
           k == m.c.rbuf + n
           re == (m.c.rend \/ (end /\ m.c.half))
           c == [m.c EXCEPT !.dispatch = FALSE, !.rbuf = k, !.inp = 0, !.rend = re]
           close == (end /\ ~m.c.half)
           onRead == n > 0 \/ (end /\ m.c.half) \/ (latched /\ c.rbuf > 0)
           deliver == onRead /\ (c.rbuf > 0 \/ c.rend) /\ ~(c.rend /\ c.rendRaised)
           a == [m.c EXCEPT !.dispatch = FALSE]
           d == [c EXCEPT !.rendRaised = @ \/ c.rend, !.lateData = @ \/ c.closes > 0]
           f == [k |-> "data", close |-> close]
<1>1. OnReadReady(m) = IF m.c.dis # 0 THEN M(a, m.st)
                       ELSE IF deliver THEN M(d, <<f>> \o m.st)
                       ELSE AfterRead(M(c, m.st), close)
  BY DEF OnReadReady
<1> HIDE DEF deliver
<1>2. k \in Nat /\ re \in BOOLEAN /\ close \in BOOLEAN
  BY <1>0
<1> HIDE DEF k, re, close
<1>3. a \in Conn /\ c \in Conn
  <2>1. a \in Conn
    BY <1>0 DEF Conn
  <2>2. c \in Conn
    BY <1>0, <1>2 DEF Conn
  <2> QED
    BY <2>1, <2>2
<1>4. /\ Quiet(a) /\ a.wbuf = m.c.wbuf /\ a.bev = m.c.bev /\ a.role = m.c.role
      /\ a.connecting = m.c.connecting
  BY <1>0 DEF Conn, Quiet, Settled
<1>5. /\ Quiet(c) /\ c.wbuf = m.c.wbuf /\ c.bev = m.c.bev /\ c.role = m.c.role
      /\ c.connecting = m.c.connecting /\ c.revived = m.c.revived
  BY <1>0 DEF Conn, Quiet, Settled
<1> HIDE DEF a, c
<1>6. CASE m.c.dis # 0
  <2>1. OnReadReady(m) = M(a, m.st)
    BY <1>1, <1>6
  <2>2. M(a, m.st).c = a /\ M(a, m.st).st = m.st
    BY DEF M
  <2> QED
    BY <1>0, <1>3, <1>4, <2>1, <2>2 DEF Good, Flushed, IsOpen
<1>7. CASE m.c.dis = 0 /\ deliver
  <2> DEFINE rr == (c.rendRaised \/ c.rend)
             ld == (c.lateData \/ c.closes > 0)
             e == [c EXCEPT !.rendRaised = rr, !.lateData = ld]
             x == M(e, <<f>> \o m.st)
  <2>1. OnReadReady(m) = x
    BY <1>1, <1>7
  <2>2. rr \in BOOLEAN /\ ld \in BOOLEAN /\ (Settled(c) => ~ld)
    BY <1>3, <1>5 DEF Conn, Quiet, Settled
  <2> HIDE DEF rr, ld
  <2>3. e \in Conn
    BY <1>3, <2>2 DEF Conn
  <2>4. /\ Quiet(e) /\ e.wbuf = m.c.wbuf /\ e.bev = m.c.bev /\ e.role = m.c.role
        /\ e.connecting = m.c.connecting
    BY <1>3, <1>5, <2>2 DEF Conn, Quiet, Settled
  <2>5. f \in Frames
    BY <1>2, FrameTypes
  <2> HIDE DEF e, f
  <2>6. <<f>> \o m.st \in Seq(Frames) /\ (HasFlush(m.st) => HasFlush(<<f>> \o m.st))
    BY <1>0, <2>5, Push
  <2>7. x.c = e /\ x.st = <<f>> \o m.st
    BY DEF M
  <2> HIDE DEF x
  <2> QED
    BY <2>1, <2>3, <2>4, <2>6, <2>7 DEF Good, Flushed, IsOpen
<1>8. CASE m.c.dis = 0 /\ ~deliver
  <2> DEFINE x == M(c, m.st)
  <2>1. OnReadReady(m) = AfterRead(x, close)
    BY <1>1, <1>8
  <2>2. x.c = c /\ x.st = m.st
    BY DEF M
  <2> HIDE DEF x
  <2>3. Good(x) /\ Flushed(x)
    BY <1>0, <1>3, <1>5, <2>2 DEF Good, Flushed, IsOpen
  <2>4. Good(AfterRead(x, close)) /\ Flushed(AfterRead(x, close))
        /\ (x.c.wbuf = 0 => AfterRead(x, close).c.wbuf = 0)
    BY <1>2, <2>3, AfterReads
  <2> QED
    BY <1>5, <2>1, <2>2, <2>4
<1> QED
  BY <1>6, <1>7, <1>8

(* on_file_event.                                                          *)
LEMMA OnFileEvents ==
  ASSUME NEW m, Good(m), Flushed(m), NEW evs \in SUBSET FileReady,
         Settled(m.c) /\ "Read" \in evs => m.c.bev = "open",
         "Write" \in evs => IsOpen(m.c)
  PROVE  LET r == OnFileEvent(m, evs)
         IN  /\ Good(r) /\ Flushed(r) /\ (m.c.wbuf = 0 => r.c.wbuf = 0)
             /\ ~IsOpen(m.c) => r.st = m.st /\ r.c.closes = m.c.closes
<1>0. m.c \in Conn /\ m.st \in Seq(Frames) /\ Quiet(m.c)
  BY DEF Good
<1>1. ASSUME NEW why \in Causes, OnFileEvent(m, evs) = CloseSocket(m, "RemoteClose", why)
      PROVE  LET r == OnFileEvent(m, evs)
             IN  /\ Good(r) /\ Flushed(r) /\ (m.c.wbuf = 0 => r.c.wbuf = 0)
                 /\ ~IsOpen(m.c) => r.st = m.st /\ r.c.closes = m.c.closes
  <2> DEFINE r == CloseSocket(m, "RemoteClose", why)
  <2>1. "RemoteClose" \in Closes
    BY DEF Closes
  <2>2. Good(r) /\ (IsOpen(m.c) => r.c.wbuf = 0) /\ (~IsOpen(m.c) => r = m)
    BY <2>1, ClosesSocket
  <2> HIDE DEF r
  <2>3. Flushed(r) /\ (m.c.wbuf = 0 => r.c.wbuf = 0)
    BY <2>2 DEF Flushed
  <2> QED
    BY <1>1, <2>2, <2>3 DEF r
<1>2. CASE m.c.immErr
  <2>1. OnFileEvent(m, evs) = CloseSocket(m, "RemoteClose", "connect")
    BY <1>2 DEF OnFileEvent
  <2> QED
    BY <1>1, <2>1 DEF Causes
<1>3. CASE ~m.c.immErr /\ "Closed" \in evs /\ "Read" \in evs
  <2> DEFINE a == [m.c EXCEPT !.abort = "on_file_event:876"]
             x == M(a, m.st)
  <2>1. OnFileEvent(m, evs) = x
    BY <1>3 DEF OnFileEvent
  <2>2. a \in Conn
    BY <1>0 DEF Conn, Aborts
  <2>3. /\ Quiet(a) /\ a.wbuf = m.c.wbuf /\ a.bev = m.c.bev /\ a.role = m.c.role
        /\ a.connecting = m.c.connecting /\ a.closes = m.c.closes
    BY <1>0 DEF Conn, Quiet, Settled
  <2> HIDE DEF a
  <2>4. x.c = a /\ x.st = m.st
    BY DEF M
  <2> HIDE DEF x
  <2> QED
    BY <1>0, <2>1, <2>2, <2>3, <2>4 DEF Good, Flushed, IsOpen
<1>4. CASE ~m.c.immErr /\ "Closed" \in evs /\ "Read" \notin evs
  <2> DEFINE why == IF peer.gone THEN "peer" ELSE "connect"
  <2>1. OnFileEvent(m, evs) = CloseSocket(m, "RemoteClose", why)
    BY <1>4 DEF OnFileEvent
  <2>2. why \in Causes
    BY DEF Causes
  <2> HIDE DEF why
  <2> QED
    BY <1>1, <2>1, <2>2
<1>5. CASE ~m.c.immErr /\ "Closed" \notin evs /\ "Write" \in evs
  <2>1. OnFileEvent(m, evs) = OnWriteReady(m)
    BY <1>5 DEF OnFileEvent
  <2>2. Good(OnWriteReady(m)) /\ Flushed(OnWriteReady(m))
        /\ (m.c.wbuf = 0 => OnWriteReady(m).c.wbuf = 0)
    BY OnWritesReady
  <2> QED
    BY <1>5, <2>1, <2>2
<1>6. CASE ~m.c.immErr /\ "Closed" \notin evs /\ "Write" \notin evs /\ "Read" \in evs /\ IsOpen(m.c)
  <2>1. OnFileEvent(m, evs) = OnReadReady(m)
    BY <1>6 DEF OnFileEvent
  <2>2. Good(OnReadReady(m)) /\ Flushed(OnReadReady(m))
        /\ (m.c.wbuf = 0 => OnReadReady(m).c.wbuf = 0)
    BY <1>6, OnReadsReady
  <2> QED
    BY <1>6, <2>1, <2>2
<1>7. CASE /\ ~m.c.immErr /\ "Closed" \notin evs /\ "Write" \notin evs
           /\ ~("Read" \in evs /\ IsOpen(m.c))
  <2>1. OnFileEvent(m, evs) = m
    BY <1>7 DEF OnFileEvent
  <2> QED
    BY <2>1
<1> QED
  BY <1>2, <1>3, <1>4, <1>5, <1>6, <1>7

(* file_event_merge_injected_events_and_run_cb.                            *)
LEMMA MergesInjected ==
  ASSUME NEW c \in Conn, Quiet(c), Flushed(M(c, <<>>)), NEW evs \in SUBSET FileReady,
         Settled(c) /\ "Read" \in evs => c.bev = "open",
         "Write" \in evs => IsOpen(c)
  PROVE  LET r == MergeInjectedAndRun(c, evs)
         IN  /\ Good(r) /\ Flushed(r) /\ (c.wbuf = 0 => r.c.wbuf = 0)
             /\ ~IsOpen(c) => r.st = <<>> /\ r.c.closes = c.closes
<1> DEFINE a == [c EXCEPT !.injected = {}, !.armed = FALSE]
           d == IF c.injected # {} THEN Cancel([c EXCEPT !.injected = {}]) ELSE c
           x == M(d, <<>>)
           es == evs \cup c.injected
<1>1. d = a \/ d = c
  BY DEF Cancel
<1>2. a \in Conn
  BY DEF Conn
<1>3. /\ Quiet(a) /\ a.wbuf = c.wbuf /\ a.bev = c.bev /\ a.role = c.role /\ a.revived = c.revived
      /\ a.connecting = c.connecting /\ a.closes = c.closes
  BY DEF Conn, Quiet, Settled
<1>4. MergeInjectedAndRun(c, evs) = OnFileEvent(x, es)
  BY DEF MergeInjectedAndRun
<1> HIDE DEF a
<1>5. /\ d \in Conn /\ Quiet(d) /\ d.wbuf = c.wbuf /\ d.bev = c.bev /\ d.role = c.role
      /\ d.connecting = c.connecting /\ d.closes = c.closes /\ d.revived = c.revived
  BY <1>1, <1>2, <1>3
<1> HIDE DEF d
<1>6. x.c = d /\ x.st = <<>> /\ M(c, <<>>).c = c /\ M(c, <<>>).st = <<>> /\ <<>> \in Seq(Frames)
  BY DEF M
<1> HIDE DEF x
<1>7. Good(x) /\ Flushed(x)
  BY <1>5, <1>6 DEF Good, Flushed, IsOpen
<1>8. /\ es \in SUBSET FileReady
      /\ Settled(x.c) /\ "Read" \in es => x.c.bev = "open"
      /\ "Write" \in es => IsOpen(x.c)
  <2>1. c.injected \subseteq {"Read"} /\ (Settled(c) => c.injected = {})
    BY DEF Quiet, Settled
  <2> QED
    BY <1>5, <1>6, <2>1 DEF FileReady, IsOpen, Settled
<1> HIDE DEF es
<1>9. LET r == OnFileEvent(x, es)
      IN  /\ Good(r) /\ Flushed(r) /\ (x.c.wbuf = 0 => r.c.wbuf = 0)
          /\ ~IsOpen(x.c) => r.st = x.st /\ r.c.closes = x.c.closes
  BY <1>7, <1>8, OnFileEvents
<1> QED
  BY <1>4, <1>5, <1>6, <1>9 DEF IsOpen

----------------------------------------------------------------------------
(* The steps.                                                              *)

Events == Closes \cup {"Connected"}

(* What the callbacks have seen keeps its type.                            *)
LEMMA SeenType ==
  ASSUME seen \in [1 .. Callbacks -> Seq(Events)], NEW m, m.st \in Seq(Frames),
         stack \in Seq(Frames)
  PROVE  SeenNext(m) \in [1 .. Callbacks -> Seq(Events)]
<1>1. CASE Len(m.st) >= Len(stack) /\ m.st # stack /\ m.st[1].k = "cb"
  <2>1. m.st # <<>>
    <3>1. SUFFICES ASSUME m.st = <<>> PROVE FALSE
      OBVIOUS
    <3>2. Len(stack) = 0
      BY <1>1, <3>1
    <3>3. stack = <<>>
      BY <3>2
    <3> QED
      BY <1>1, <3>1, <3>3
  <2>2. m.st[1] \in Frames
    BY <2>1
  <2>3. m.st[1].i \in 1 .. Callbacks /\ m.st[1].ev \in Events
    BY <1>1, <2>2 DEF Frames, Events
  <2>4. SeenNext(m) = [seen EXCEPT ![m.st[1].i] = Append(@, m.st[1].ev)]
    BY <1>1 DEF SeenNext
  <2> QED
    BY <2>3, <2>4
<1>2. CASE ~(Len(m.st) >= Len(stack) /\ m.st # stack /\ m.st[1].k = "cb")
  BY <1>2 DEF SeenNext
<1> QED
  BY <1>1, <1>2

(* The invariant holds after a step that ends with a good machine.         *)
LEMMA Becomes ==
  ASSUME IInv, NEW m, Good(m), Flushed(m), Become(m),
         peer' \in [units: 0 .. PeerUnits, gone: BOOLEAN], errno' \in {"other", "reset"},
         ops' \in 0 .. UserOps, ops' = UserOps => m.c.wbuf = 0
  PROVE  IInv'
<1>1. /\ M(conn, stack).c = conn /\ M(conn, stack).st = stack
      /\ (M(conn, stack).c)' = conn' /\ (M(conn, stack).st)' = stack'
  BY DEF M
<1>2. conn' = m.c /\ stack' = m.st /\ seen' = SeenNext(m)
  BY DEF Become
<1>3. stack \in Seq(Frames) /\ m.st \in Seq(Frames) /\ seen \in [1 .. Callbacks -> Seq(Events)]
  BY <1>1 DEF IInv, Good, Others, Events
<1>4. seen' \in [1 .. Callbacks -> Seq(Events)]
  BY <1>2, <1>3, SeenType
<1>5. Good(M(conn, stack))'
  BY <1>1, <1>2 DEF Good, Quiet, Settled
<1>6. Flushed(M(conn, stack))'
  BY <1>1, <1>2 DEF Flushed, IsOpen
<1>7. Others'
  BY <1>2, <1>4 DEF Others, Events
<1> QED
  BY <1>5, <1>6, <1>7 DEF IInv

(* What IInv says of the connection and the calls in progress.             *)
LEMMA Unfold ==
  ASSUME IInv
  PROVE  /\ conn \in Conn /\ stack \in Seq(Frames) /\ Quiet(conn) /\ Others
         /\ Good(M(conn, stack)) /\ Flushed(M(conn, stack))
         /\ stack = <<>> => Flushed(M(conn, <<>>))
<1>1. M(conn, stack).c = conn /\ M(conn, stack).st = stack
  BY DEF M
<1> QED
  BY <1>1 DEF IInv, Good

(* Nothing is raised and nothing delivered once the bufferevent is gone.   *)
Silent == conn.bev = "freed" => conn'.closes = conn.closes /\ Len(stack') <= Len(stack)

(* Field by field, what a step that changes no more than these leaves.     *)
LEMMA SameBuffers ==
  ASSUME IInv, stack = <<>>, NEW c \in Conn, Quiet(c), c.wbuf = conn.wbuf, c.bev = conn.bev,
         c.connecting = conn.connecting, c.role = conn.role
  PROVE  /\ Good(M(c, <<>>)) /\ Flushed(M(c, <<>>))
         /\ M(c, <<>>).c = c /\ M(c, <<>>).st = <<>>
<1>1. M(c, <<>>).c = c /\ M(c, <<>>).st = <<>> /\ M(conn, <<>>).c = conn
      /\ M(conn, <<>>).st = <<>> /\ <<>> \in Seq(Frames)
  BY DEF M
<1>2. Flushed(M(conn, <<>>))
  BY Unfold
<1> QED
  BY <1>1, <1>2 DEF Good, Flushed, IsOpen

(* The connect fails at once.                                              *)
LEMMA ConnectFailsStep == IInv /\ ConnectFails => IInv' /\ Silent
<1> SUFFICES ASSUME IInv, ConnectFails PROVE IInv' /\ Silent
  OBVIOUS
<1>0. conn \in Conn /\ Quiet(conn) /\ Others /\ stack = <<>> /\ ops = UserOps
  BY Unfold DEF ConnectFails, Idle
<1> DEFINE c == [conn EXCEPT !.immErr = TRUE, !.connecting = FALSE]
           m == M(c, <<>>)
<1>1. c \in Conn
  BY <1>0 DEF Conn
<1>2. Quiet(c) /\ c.wbuf = 0 /\ c.closes = conn.closes
  BY <1>0 DEF Conn, Quiet, Settled, Others
<1>3. Become(m) /\ UNCHANGED <<errno, ops>> /\ peer' = [peer EXCEPT !.gone = TRUE, !.units = 0]
  BY DEF ConnectFails
<1> HIDE DEF c
<1>4. m.c = c /\ m.st = <<>> /\ <<>> \in Seq(Frames)
  BY DEF M
<1> HIDE DEF m
<1>5. Good(m) /\ Flushed(m)
  BY <1>1, <1>2, <1>4 DEF Good, Flushed
<1>6. peer' \in [units: 0 .. PeerUnits, gone: BOOLEAN]
  <2>1. 0 \in 0 .. PeerUnits /\ peer \in [units: 0 .. PeerUnits, gone: BOOLEAN]
    BY <1>0, BoundsAssumption DEF Others
  <2> QED
    BY <1>3, <2>1
<1>7. errno' \in {"other", "reset"} /\ ops' \in 0 .. UserOps
  BY <1>0, <1>3 DEF Others
<1>8. IInv'
  BY <1>2, <1>3, <1>4, <1>5, <1>6, <1>7, Becomes
<1>9. Silent
  BY <1>0, <1>2, <1>3, <1>4 DEF Silent, Become
<1> QED
  BY <1>8, <1>9

(* A file event is run from the loop, with nothing else in progress.       *)
LEMMA RunsFileEvent ==
  ASSUME IInv, stack = <<>>, NEW c \in Conn, Quiet(c), c.bev = conn.bev, c.closes = conn.closes,
         c.wbuf = conn.wbuf, c.connecting = conn.connecting, c.role = conn.role,
         NEW evs \in SUBSET FileReady,
         Settled(c) /\ "Read" \in evs => c.bev = "open",
         "Write" \in evs => IsOpen(c),
         Become(MergeInjectedAndRun(c, evs)) \/ Become(M(c, <<>>)),
         peer' \in [units: 0 .. PeerUnits, gone: BOOLEAN], errno' \in {"other", "reset"},
         UNCHANGED ops
  PROVE  IInv' /\ Silent
<1>0. Others /\ ops \in 0 .. UserOps /\ (ops = UserOps => c.wbuf = 0)
  BY Unfold DEF Others
<1>1. /\ Good(M(c, <<>>)) /\ Flushed(M(c, <<>>))
      /\ M(c, <<>>).c = c /\ M(c, <<>>).st = <<>>
  BY SameBuffers
<1>2. LET r == MergeInjectedAndRun(c, evs)
      IN  /\ Good(r) /\ Flushed(r) /\ (c.wbuf = 0 => r.c.wbuf = 0)
          /\ ~IsOpen(c) => r.st = <<>> /\ r.c.closes = c.closes
  BY <1>1, MergesInjected
<1>3. CASE Become(MergeInjectedAndRun(c, evs))
  <2> DEFINE m == MergeInjectedAndRun(c, evs)
  <2>1. Good(m) /\ Flushed(m) /\ (ops' = UserOps => m.c.wbuf = 0) /\ ops' \in 0 .. UserOps
    BY <1>0, <1>2
  <2>2. ~IsOpen(c) => m.st = <<>> /\ m.c.closes = c.closes
    BY <1>2
  <2> HIDE DEF m
  <2>3. Become(m)
    BY <1>3 DEF m
  <2>4. IInv'
    BY <2>1, <2>3, Becomes
  <2>5. Silent
    BY <2>2, <2>3 DEF Silent, Become, IsOpen
  <2> QED
    BY <2>4, <2>5
<1>4. CASE Become(M(c, <<>>))
  <2> DEFINE m == M(c, <<>>)
  <2>1. Good(m) /\ Flushed(m) /\ (ops' = UserOps => m.c.wbuf = 0) /\ ops' \in 0 .. UserOps
    BY <1>0, <1>1
  <2>2. m.st = <<>> /\ m.c.closes = c.closes
    BY <1>1
  <2> HIDE DEF m
  <2>3. Become(m)
    BY <1>4 DEF m
  <2>4. IInv'
    BY <2>1, <2>3, Becomes
  <2>5. Silent
    BY <2>2, <2>3 DEF Silent, Become
  <2> QED
    BY <2>4, <2>5
<1> QED
  BY <1>3, <1>4

(* The connect succeeds.                                                   *)
LEMMA EventcbConnectedStep == IInv /\ EventcbConnected => IInv' /\ Silent
<1> SUFFICES ASSUME IInv, EventcbConnected PROVE IInv' /\ Silent
  OBVIOUS
<1>0. /\ conn \in Conn /\ Quiet(conn) /\ Others /\ stack = <<>> /\ conn.role = "client"
      /\ conn.bev # "freed" /\ "event" \in conn.cbs
  BY Unfold DEF EventcbConnected, Idle, Quiet, Settled
<1> DEFINE c == [conn EXCEPT !.up = TRUE, !.cbs = {"read", "event"}]
<1>1. Become(IF "Write" \in c.events THEN MergeInjectedAndRun(c, {"Write"}) ELSE M(c, <<>>))
  BY DEF EventcbConnected
<1>2. c \in Conn
  BY <1>0 DEF Conn
<1>3. /\ Quiet(c) /\ c.wbuf = conn.wbuf /\ c.bev = conn.bev /\ c.role = conn.role
      /\ c.connecting = conn.connecting /\ c.closes = conn.closes
  BY <1>0 DEF Conn, Quiet, Settled
<1> HIDE DEF c
<1>4. {"Write"} \in SUBSET FileReady /\ IsOpen(c) /\ "Read" \notin {"Write"}
  BY <1>0, <1>3 DEF FileReady, IsOpen
<1>5. /\ peer' \in [units: 0 .. PeerUnits, gone: BOOLEAN] /\ errno' \in {"other", "reset"}
      /\ UNCHANGED ops
  BY <1>0 DEF EventcbConnected, Others
<1>6. Become(MergeInjectedAndRun(c, {"Write"})) \/ Become(M(c, <<>>))
  BY <1>1
<1> QED
  BY <1>0, <1>2, <1>3, <1>4, <1>5, <1>6, RunsFileEvent

(* A unit arrives.                                                         *)
LEMMA ReadcbStep == IInv /\ Readcb => IInv' /\ Silent
<1> SUFFICES ASSUME IInv, Readcb PROVE IInv' /\ Silent
  OBVIOUS
<1>0. /\ conn \in Conn /\ Quiet(conn) /\ Others /\ stack = <<>> /\ conn.inp \in Nat
      /\ peer.units > 0
  BY Unfold DEF Readcb, Idle, Conn
<1> DEFINE n == conn.inp + 1
           c == [conn EXCEPT !.inp = n]
<1>1. Become(IF "read" \in c.cbs THEN MergeInjectedAndRun(c, {"Read"}) ELSE M(c, <<>>))
  BY DEF Readcb
<1>2. n \in Nat
  BY <1>0
<1> HIDE DEF n
<1>3. c \in Conn
  BY <1>0, <1>2 DEF Conn
<1>4. /\ Quiet(c) /\ c.wbuf = conn.wbuf /\ c.bev = conn.bev /\ c.role = conn.role
      /\ c.connecting = conn.connecting /\ c.closes = conn.closes
  BY <1>0 DEF Conn, Quiet, Settled
<1> HIDE DEF c
<1>5. {"Read"} \in SUBSET FileReady /\ "Write" \notin {"Read"} /\ {} \in SUBSET FileReady
  BY DEF FileReady
<1>6. /\ peer' \in [units: 0 .. PeerUnits, gone: BOOLEAN] /\ errno' \in {"other", "reset"}
      /\ UNCHANGED ops
  <2>1. peer.units \in 0 .. PeerUnits /\ peer.units - 1 \in 0 .. PeerUnits
    BY <1>0, BoundsAssumption DEF Others
  <2>2. peer' = [peer EXCEPT !.units = @ - 1] /\ UNCHANGED <<errno, ops>>
    BY DEF Readcb
  <2> QED
    BY <1>0, <2>1, <2>2 DEF Others
<1>7. CASE "read" \in c.cbs
  <2>1. Settled(c) => c.bev = "open"
    <3>1. c.bev \in {"open", "flushing", "freed"}
      BY <1>3 DEF Conn
    <3> QED
      BY <1>4, <1>7, <3>1 DEF Quiet, Settled
  <2>2. Become(MergeInjectedAndRun(c, {"Read"}))
    BY <1>1, <1>7
  <2> QED
    BY <1>0, <1>3, <1>4, <1>5, <1>6, <2>1, <2>2, RunsFileEvent
<1>8. CASE "read" \notin c.cbs
  <2>1. Become(M(c, <<>>))
    BY <1>1, <1>8
  <2> QED
    BY <1>0, <1>3, <1>4, <1>5, <1>6, <2>1, RunsFileEvent
<1> QED
  BY <1>7, <1>8

(* The peer's end reaches the connection.                                  *)
LEMMA EventcbClosedStep == IInv /\ EventcbClosed => IInv' /\ Silent
<1> SUFFICES ASSUME IInv, EventcbClosed PROVE IInv' /\ Silent
  OBVIOUS
<1>0. /\ conn \in Conn /\ Quiet(conn) /\ Others /\ stack = <<>>
      /\ Become(MergeInjectedAndRun(conn, {"Closed"}))
  BY Unfold DEF EventcbClosed, Idle
<1>1. {"Closed"} \in SUBSET FileReady /\ "Write" \notin {"Closed"} /\ "Read" \notin {"Closed"}
  BY DEF FileReady
<1>2. /\ peer' \in [units: 0 .. PeerUnits, gone: BOOLEAN] /\ errno' \in {"other", "reset"}
      /\ UNCHANGED ops
  BY <1>0 DEF EventcbClosed, Others
<1> QED
  BY <1>0, <1>1, <1>2, RunsFileEvent

(* The bufferevent writes, and is freed with the last unit of a flush.     *)
LEMMA BevWritesStep == IInv /\ BevWrites => IInv' /\ Silent
<1> SUFFICES ASSUME IInv, BevWrites PROVE IInv' /\ Silent
  OBVIOUS
<1>0. /\ conn \in Conn /\ Quiet(conn) /\ Others /\ stack = <<>> /\ conn.out \in Nat
      /\ conn.out > 0 /\ conn.bev # "freed" /\ Flushed(M(conn, <<>>))
  BY Unfold DEF BevWrites, Idle, Conn, IsOpen
<1> DEFINE n == conn.out - 1
           c == [conn EXCEPT !.out = n]
           d == [c EXCEPT !.bev = "freed", !.cbs = {}, !.inp = 0]
           e == IF c.out = 0 /\ "free" \in c.cbs THEN d ELSE c
           m == M(e, <<>>)
<1>1. Become(m) /\ UNCHANGED <<peer, errno, ops>>
  BY DEF BevWrites
<1>2. n \in Nat
  BY <1>0
<1> HIDE DEF n
<1>3. c \in Conn
  BY <1>0, <1>2 DEF Conn
<1>4. /\ Quiet(c) /\ c.wbuf = conn.wbuf /\ c.bev = conn.bev /\ c.role = conn.role
      /\ c.connecting = conn.connecting
  BY <1>0 DEF Conn, Quiet, Settled
<1> HIDE DEF c
<1>5. d \in Conn
  BY <1>3 DEF Conn
<1>6. Quiet(d) /\ d.wbuf = conn.wbuf /\ ~IsOpen(d)
  BY <1>3, <1>4 DEF Conn, Quiet, Settled, IsOpen
<1> HIDE DEF d
<1>7. m.c = e /\ m.st = <<>> /\ <<>> \in Seq(Frames) /\ M(conn, <<>>).c = conn
      /\ M(conn, <<>>).st = <<>>
  BY DEF M
<1> HIDE DEF m
<1>8. Good(m) /\ Flushed(m) /\ m.c.wbuf = conn.wbuf
  <2>1. CASE e = c
    BY <1>0, <1>3, <1>4, <1>7, <2>1 DEF Good, Flushed, IsOpen
  <2>2. CASE e = d
    BY <1>5, <1>6, <1>7, <2>2 DEF Good, Flushed
  <2> QED
    BY <2>1, <2>2
<1>9. /\ peer' \in [units: 0 .. PeerUnits, gone: BOOLEAN] /\ errno' \in {"other", "reset"}
      /\ ops' \in 0 .. UserOps /\ (ops' = UserOps => m.c.wbuf = 0)
  BY <1>0, <1>1, <1>8 DEF Others
<1>10. IInv'
  BY <1>1, <1>8, <1>9, Becomes
<1>11. Silent
  BY <1>0 DEF Silent
<1> QED
  BY <1>10, <1>11

(* The eventfd of the activation callback is read: only a connection whose *)
(* reads were disabled has one that is written.                            *)
LEMMA WakeupCbStep == IInv /\ WakeupCb => IInv' /\ Silent
<1> SUFFICES ASSUME IInv, WakeupCb PROVE IInv' /\ Silent
  OBVIOUS
<1>0. conn \in Conn /\ Quiet(conn) /\ Others /\ stack = <<>> /\ conn.wake
  BY Unfold DEF WakeupCb, Idle
<1> DEFINE c == [conn EXCEPT !.wake = FALSE, !.armed = TRUE]
<1>1. Become(M(c, <<>>)) /\ UNCHANGED <<peer, errno, ops>>
  BY DEF WakeupCb
<1>2. c \in Conn
  BY <1>0 DEF Conn
<1>3. /\ Quiet(c) /\ c.wbuf = conn.wbuf /\ c.bev = conn.bev /\ c.role = conn.role
      /\ c.connecting = conn.connecting /\ c.closes = conn.closes
  BY <1>0 DEF Conn, Quiet, Settled
<1> HIDE DEF c
<1>4. /\ peer' \in [units: 0 .. PeerUnits, gone: BOOLEAN] /\ errno' \in {"other", "reset"}
      /\ UNCHANGED ops /\ {} \in SUBSET FileReady
  BY <1>0, <1>1 DEF Others
<1> QED
  BY <1>0, <1>1, <1>2, <1>3, <1>4, RunsFileEvent

(* The activation callback runs.                                           *)
LEMMA ActivationCbStep == IInv /\ ActivationCb => IInv' /\ Silent
<1> SUFFICES ASSUME IInv, ActivationCb PROVE IInv' /\ Silent
  OBVIOUS
<1>0. conn \in Conn /\ Quiet(conn) /\ Others /\ stack = <<>> /\ conn.armed
  BY Unfold DEF ActivationCb, Idle
<1> DEFINE c == [conn EXCEPT !.armed = FALSE, !.enabled = FALSE]
           d == [c EXCEPT !.abort = "activation_cb:341"]
<1>1. /\ Become(IF c.injected = {} THEN M(d, <<>>) ELSE MergeInjectedAndRun(c, {}))
      /\ UNCHANGED <<peer, errno, ops>>
  BY DEF ActivationCb
<1>2. c \in Conn
  BY <1>0 DEF Conn
<1>3. /\ Quiet(c) /\ c.wbuf = conn.wbuf /\ c.bev = conn.bev /\ c.role = conn.role
      /\ c.connecting = conn.connecting /\ c.closes = conn.closes
  BY <1>0 DEF Conn, Quiet, Settled
<1> HIDE DEF c
<1>4. d \in Conn
  BY <1>2 DEF Conn, Aborts
<1>5. /\ Quiet(d) /\ d.wbuf = conn.wbuf /\ d.bev = conn.bev /\ d.role = conn.role
      /\ d.connecting = conn.connecting /\ d.closes = conn.closes
  BY <1>2, <1>3 DEF Conn, Quiet, Settled
<1> HIDE DEF d
<1>6. /\ peer' \in [units: 0 .. PeerUnits, gone: BOOLEAN] /\ errno' \in {"other", "reset"}
      /\ UNCHANGED ops /\ {} \in SUBSET FileReady
  BY <1>0, <1>1 DEF Others
<1>7. CASE c.injected = {}
  <2>1. Become(M(d, <<>>))
    BY <1>1, <1>7
  <2> QED
    BY <1>0, <1>4, <1>5, <1>6, <2>1, RunsFileEvent
<1>8. CASE c.injected # {}
  <2>1. Become(MergeInjectedAndRun(c, {}))
    BY <1>1, <1>8
  <2> QED
    BY <1>0, <1>2, <1>3, <1>6, <2>1, RunsFileEvent
<1> QED
  BY <1>7, <1>8

(* Popping a call that is not the flush keeps the flush that waits.        *)
LEMMA Pop ==
  ASSUME NEW st \in Seq(Frames), st # <<>>
  PROVE  /\ Tail(st) \in Seq(Frames) /\ st[1] \in Frames /\ Len(Tail(st)) = Len(st) - 1
         /\ Len(st) \in Nat
         /\ st[1].k # "flush" /\ HasFlush(st) => HasFlush(Tail(st))
<1>1. /\ Tail(st) \in Seq(Frames) /\ Len(Tail(st)) = Len(st) - 1 /\ Len(st) \in Nat /\ Len(st) >= 1
      /\ \A i \in 1 .. Len(st) - 1 : Tail(st)[i] = st[i + 1]
  OBVIOUS
<1>2. st[1] \in Frames
  BY <1>1
<1>3. ASSUME st[1].k # "flush", HasFlush(st) PROVE HasFlush(Tail(st))
  <2>1. PICK i \in 1 .. Len(st) : st[i].k = "flush"
    BY <1>3 DEF HasFlush
  <2>2. i # 1
    BY <1>3, <2>1
  <2>3. i - 1 \in 1 .. Len(Tail(st)) /\ Tail(st)[i - 1] = st[i]
    BY <1>1, <2>2
  <2> QED
    BY <2>1, <2>3 DEF HasFlush
<1> QED
  BY <1>1, <1>2, <1>3

(* A user's callback returns.                                              *)
LEMMA ReturnStep == IInv /\ Return => IInv' /\ Silent
<1> SUFFICES ASSUME IInv, Return PROVE IInv' /\ Silent
  OBVIOUS
<1>0. /\ conn \in Conn /\ Quiet(conn) /\ Others /\ stack \in Seq(Frames) /\ stack # <<>>
      /\ Flushed(M(conn, stack)) /\ conn.wbuf \in Nat
  BY Unfold DEF Return, Conn
<1> DEFINE f == stack[1]
           m == M(conn, Tail(stack))
<1>1. /\ Tail(stack) \in Seq(Frames) /\ f \in Frames /\ Len(Tail(stack)) = Len(stack) - 1
      /\ Len(stack) \in Nat
      /\ (f.k # "flush" /\ HasFlush(stack) => HasFlush(Tail(stack)))
  BY <1>0, Pop
<1>2. m.c = conn /\ m.st = Tail(stack) /\ M(conn, stack).c = conn /\ M(conn, stack).st = stack
  BY DEF M
<1>3. CASE f.k = "cb"
  <2>1. Become(RaiseFrom(m, f.ev, f.i + 1)) /\ UNCHANGED <<peer, errno, ops>>
    BY <1>3 DEF Return
  <2>2. f.ev \in Closes \cup {"Connected"} /\ f.i + 1 \in Nat \ {0}
    BY <1>1, <1>3, CallbacksAssumption DEF Frames
  <2> HIDE DEF m, f
  <2>3. Good(m) /\ Flushed(m)
    BY <1>0, <1>1, <1>2, <1>3 DEF Good, Flushed
  <2> DEFINE r == RaiseFrom(m, f.ev, f.i + 1)
  <2>4. Good(r) /\ r.c = m.c /\ (HasFlush(m.st) => HasFlush(r.st)) /\ Len(r.st) <= Len(m.st) + 1
    BY <2>2, <2>3, Raises
  <2> HIDE DEF r
  <2>5. Flushed(r)
    BY <2>3, <2>4 DEF Flushed
  <2>6. /\ peer' \in [units: 0 .. PeerUnits, gone: BOOLEAN] /\ errno' \in {"other", "reset"}
        /\ ops' \in 0 .. UserOps /\ (ops' = UserOps => r.c.wbuf = 0)
    BY <1>0, <1>2, <2>1, <2>4 DEF Others
  <2>7. Become(r)
    BY <2>1 DEF r
  <2>8. IInv'
    BY <2>4, <2>5, <2>6, <2>7, Becomes
  <2>9. Silent
    BY <1>1, <1>2, <2>4, <2>7 DEF Silent, Become
  <2> QED
    BY <2>8, <2>9
<1>4. CASE f.k = "data"
  <2>1. Become(AfterRead(m, f.close)) /\ UNCHANGED <<peer, errno, ops>>
    BY <1>4 DEF Return
  <2>2. f.close \in BOOLEAN
    BY <1>1, <1>4 DEF Frames
  <2> HIDE DEF m, f
  <2>3. Good(m) /\ Flushed(m)
    BY <1>0, <1>1, <1>2, <1>4 DEF Good, Flushed
  <2> DEFINE r == AfterRead(m, f.close)
  <2>4. Good(r) /\ Flushed(r) /\ (m.c.wbuf = 0 => r.c.wbuf = 0) /\ (~IsOpen(m.c) => r = m)
    BY <2>2, <2>3, AfterReads
  <2> HIDE DEF r
  <2>6. /\ peer' \in [units: 0 .. PeerUnits, gone: BOOLEAN] /\ errno' \in {"other", "reset"}
        /\ ops' \in 0 .. UserOps /\ (ops' = UserOps => r.c.wbuf = 0)
    BY <1>0, <1>2, <2>1, <2>4 DEF Others
  <2>7. Become(r)
    BY <2>1 DEF r
  <2>8. IInv'
    BY <2>4, <2>6, <2>7, Becomes
  <2>9. Silent
    BY <1>1, <1>2, <2>4, <2>7 DEF Silent, Become, IsOpen
  <2> QED
    BY <2>8, <2>9
<1>5. CASE f.k \in {"flush", "write"}
  <2> DEFINE r == WriteReady(m)
  <2>1. (Become(r) /\ IsOpen(conn)) \/ (Become(m) /\ (~IsOpen(conn) \/ conn.wbuf = 0 \/ f.k = "write"))
    <3>1. CASE f.k = "flush"
      BY <1>0, <3>1 DEF Return
    <3>2. CASE f.k = "write"
      BY <3>2 DEF Return
    <3> QED
      BY <1>5, <3>1, <3>2
  <2>2. UNCHANGED <<peer, errno, ops>>
    BY DEF Return
  <2> HIDE DEF m, f
  <2>3. Good(m)
    BY <1>0, <1>1, <1>2 DEF Good
  <2>4. Good(r) /\ r.c.wbuf = 0
    BY <2>3, WritesReady
  <2>5. Flushed(r)
    BY <2>4 DEF Flushed
  <2> HIDE DEF r
  <2>6. ~IsOpen(conn) \/ conn.wbuf = 0 \/ f.k = "write" => Flushed(m)
    BY <1>0, <1>1, <1>2 DEF Flushed
  <2>7. /\ peer' \in [units: 0 .. PeerUnits, gone: BOOLEAN] /\ errno' \in {"other", "reset"}
        /\ ops' \in 0 .. UserOps /\ (ops' = UserOps => r.c.wbuf = 0 /\ m.c.wbuf = 0)
    BY <1>0, <1>2, <2>2, <2>4 DEF Others
  <2>8. IInv'
    BY <2>1, <2>3, <2>4, <2>5, <2>6, <2>7, Becomes
  <2>9. Silent
    BY <1>1, <1>2, <2>1 DEF Silent, Become, IsOpen
  <2> QED
    BY <2>8, <2>9
<1> QED
  BY <1>1, <1>3, <1>4, <1>5 DEF Frames

(* An operation of a user that ends with a good machine.                   *)
LEMMA UserStep ==
  ASSUME IInv, NEW m, Good(m), Flushed(m), User(m),
         conn.bev = "freed" => m.st = stack /\ m.c.closes = conn.closes
  PROVE  IInv' /\ Silent
<1>1. Others /\ ops \in Nat /\ ops > 0 /\ ops <= UserOps /\ UserOps \in Nat
  BY Unfold, BoundsAssumption DEF Others, User
<1>2. ops' \in 0 .. UserOps /\ ops' # UserOps
  BY <1>1 DEF User
<1>3. peer' \in [units: 0 .. PeerUnits, gone: BOOLEAN] /\ errno' \in {"other", "reset"}
  BY <1>1 DEF User, Others
<1>4. Become(m)
  BY DEF User
<1>5. IInv'
  BY <1>2, <1>3, <1>4, Becomes
<1>6. Silent
  <2>1. Len(stack) \in Nat
    BY Unfold
  <2> QED
    BY <1>4, <2>1 DEF Silent, Become
<1> QED
  BY <1>5, <1>6

(* What the users do: write, close, disable and enable reads, dispose of   *)
(* an encoder, enable half close.                                          *)
UserOp == Write \/ CloseConnection \/ SetReadDisable \/ DispatchDisables \/ DisposeEncoder
          \/ EnableHalfClose

(* An operation of a user.                                                 *)
LEMMA UsersStep == IInv /\ UserOp => IInv' /\ Silent
<1> SUFFICES ASSUME IInv, UserOp PROVE IInv' /\ Silent
  OBVIOUS
<1> DEFINE m == M(conn, stack)
<1>0. /\ conn \in Conn /\ Quiet(conn) /\ stack \in Seq(Frames)
      /\ Good(m) /\ Flushed(m) /\ m.c = conn /\ m.st = stack
  BY Unfold, MachineFields
<1>1. CASE Write
  <2>1. PICK n \in 0 .. 1, end \in BOOLEAN : User(WriteInternal(m, n, end))
    BY <1>1 DEF Write
  <2> HIDE DEF m
  <2> DEFINE r == WriteInternal(m, n, end)
  <2>2. Good(r) /\ Flushed(r) /\ (~IsOpen(m.c) => r = m)
    BY <1>0, WritesInternal
  <2> HIDE DEF r
  <2> QED
    BY <1>0, <2>1, <2>2, UserStep DEF IsOpen, r
<1>2. CASE CloseConnection
  <2>1. PICK type \in CloseTypes(conn.role) : User(Close(m, type))
    BY <1>2 DEF CloseConnection
  <2> HIDE DEF m
  <2> DEFINE r == Close(m, type)
  <2>2. Good(r) /\ Flushed(r) /\ (~IsOpen(m.c) => r = m)
    BY <1>0, ClosesConnection
  <2> HIDE DEF r
  <2> QED
    BY <1>0, <2>1, <2>2, UserStep DEF IsOpen, r
<1>3. CASE SetReadDisable \/ DispatchDisables
  <2>1. PICK disable \in BOOLEAN :
           /\ disable \/ (conn.dis > 0 /\ conn.role = "client")
           /\ User(M(ReadDisable(conn, disable), stack))
    BY <1>3 DEF SetReadDisable, DispatchDisables
  <2> DEFINE e == ReadDisable(conn, disable)
             r == M(e, stack)
  <2>2. /\ e \in Conn /\ Quiet(e) /\ e.role = conn.role /\ e.bev = conn.bev
        /\ e.wbuf = conn.wbuf /\ e.connecting = conn.connecting
        /\ ~IsOpen(conn) => e.closes = conn.closes
    BY <1>0, <2>1, ReadsDisable
  <2>3. User(r)
    BY <2>1
  <2> HIDE DEF e, m
  <2>4. r.c = e /\ r.st = stack
    BY DEF M
  <2> HIDE DEF r
  <2>5. Good(r) /\ Flushed(r)
    BY <1>0, <2>2, <2>4 DEF Good, Flushed, IsOpen
  <2> QED
    BY <1>0, <2>2, <2>3, <2>4, <2>5, UserStep DEF IsOpen
<1>4. CASE EnableHalfClose
  <2> DEFINE e == [conn EXCEPT !.half = TRUE]
             r == M(e, stack)
  <2>1. User(r)
    BY <1>4 DEF EnableHalfClose
  <2>2. e \in Conn
    BY <1>0 DEF Conn
  <2>3. /\ Quiet(e) /\ e.role = conn.role /\ e.bev = conn.bev
        /\ e.wbuf = conn.wbuf /\ e.connecting = conn.connecting /\ e.closes = conn.closes
    BY <1>0 DEF Conn, Quiet, Settled
  <2> HIDE DEF e, m
  <2>4. r.c = e /\ r.st = stack
    BY DEF M
  <2> HIDE DEF r
  <2>5. Good(r) /\ Flushed(r)
    BY <1>0, <2>2, <2>3, <2>4 DEF Good, Flushed, IsOpen
  <2> QED
    BY <1>0, <2>1, <2>3, <2>4, <2>5, UserStep
<1>5. CASE DisposeEncoder
  <2> DEFINE why == IF IsOpen(conn) THEN "read_disable:523" ELSE "dispose:303 spins"
             e == [conn EXCEPT !.abort = why]
             r == M(e, stack)
  <2>1. User(r)
    BY <1>5 DEF DisposeEncoder
  <2>2. why \in Aborts /\ why # "can_flush_close"
    BY DEF Aborts
  <2> HIDE DEF why
  <2>3. e \in Conn
    BY <1>0, <2>2 DEF Conn
  <2>4. /\ Quiet(e) /\ e.role = conn.role /\ e.bev = conn.bev
        /\ e.wbuf = conn.wbuf /\ e.connecting = conn.connecting /\ e.closes = conn.closes
    BY <1>0, <2>2 DEF Conn, Quiet, Settled
  <2> HIDE DEF e, m
  <2>5. r.c = e /\ r.st = stack
    BY DEF M
  <2> HIDE DEF r
  <2>6. Good(r) /\ Flushed(r)
    BY <1>0, <2>3, <2>4, <2>5 DEF Good, Flushed, IsOpen
  <2> QED
    BY <1>0, <2>1, <2>4, <2>5, <2>6, UserStep
<1> QED
  BY <1>1, <1>2, <1>3, <1>4, <1>5 DEF UserOp

(* A read filter drains the read buffer.                                   *)
LEMMA ConsumeStep == IInv /\ Consume => IInv' /\ Silent
<1> SUFFICES ASSUME IInv, Consume PROVE IInv' /\ Silent
  OBVIOUS
<1>0. /\ conn \in Conn /\ Quiet(conn) /\ stack \in Seq(Frames) /\ Others /\ Flushed(M(conn, stack))
      /\ conn.rbuf \in Nat /\ UNCHANGED <<stack, seen, peer, errno, ops>>
  BY Unfold DEF Consume, Conn
<1>1. PICK n \in 1 .. conn.rbuf : conn' = [conn EXCEPT !.rbuf = @ - n]
  BY DEF Consume
<1> DEFINE k == conn.rbuf - n
           c == [conn EXCEPT !.rbuf = k]
<1>2. k \in Nat /\ conn' = c
  BY <1>0, <1>1
<1> HIDE DEF k
<1>3. c \in Conn
  BY <1>0, <1>2 DEF Conn
<1>4. /\ Quiet(c) /\ c.wbuf = conn.wbuf /\ c.bev = conn.bev /\ c.role = conn.role
      /\ c.connecting = conn.connecting /\ c.closes = conn.closes
  BY <1>0 DEF Conn, Quiet, Settled
<1> HIDE DEF c
<1>5. /\ M(conn, stack).c = conn /\ M(conn, stack).st = stack
      /\ (M(conn, stack).c)' = conn' /\ (M(conn, stack).st)' = stack'
  BY DEF M
<1>6. Good(M(conn, stack))'
  BY <1>0, <1>2, <1>3, <1>4, <1>5 DEF Good, Quiet, Settled
<1>7. Flushed(M(conn, stack))'
  BY <1>0, <1>2, <1>4, <1>5 DEF Flushed, IsOpen
<1>8. Others'
  BY <1>0, <1>2, <1>4 DEF Others
<1>9. Silent
  <2>1. Len(stack) \in Nat
    BY <1>0
  <2> QED
    BY <1>0, <1>2, <1>4, <2>1 DEF Silent
<1> QED
  BY <1>6, <1>7, <1>8, <1>9 DEF IInv

(* The peer goes, another socket sets errno, or nothing happens.           *)
LEMMA ElsewhereStep == IInv /\ (PeerGoes \/ OtherSocket \/ UNCHANGED vars) => IInv' /\ Silent
<1> SUFFICES ASSUME IInv, PeerGoes \/ OtherSocket \/ UNCHANGED vars PROVE IInv' /\ Silent
  OBVIOUS
<1>0. Others /\ stack \in Seq(Frames) /\ Len(stack) \in Nat
  BY Unfold
<1>1. UNCHANGED <<conn, stack, seen, ops>>
  BY DEF PeerGoes, OtherSocket, vars
<1>2. errno' \in {"other", "reset"}
  BY <1>0 DEF PeerGoes, OtherSocket, vars, Others
<1>3. peer' \in [units: 0 .. PeerUnits, gone: BOOLEAN]
  <2>1. CASE PeerGoes
    <3>1. 0 \in 0 .. PeerUnits /\ peer.units \in 0 .. PeerUnits
      BY <1>0, BoundsAssumption DEF Others
    <3> QED
      BY <2>1, <3>1 DEF PeerGoes
  <2>2. CASE OtherSocket \/ UNCHANGED vars
    BY <1>0, <2>2 DEF OtherSocket, vars, Others
  <2> QED
    BY <2>1, <2>2
<1>4. Good(M(conn, stack))' /\ Flushed(M(conn, stack))'
  BY <1>1 DEF IInv, Good, Flushed, M, Quiet, Settled, IsOpen
<1>5. Others'
  BY <1>0, <1>1, <1>2, <1>3 DEF Others
<1>6. Silent
  BY <1>0, <1>1 DEF Silent
<1> QED
  BY <1>4, <1>5, <1>6 DEF IInv

----------------------------------------------------------------------------
(* The theorems.                                                           *)

(* Every step keeps the invariant and is silent once the bufferevent is    *)
(* gone.                                                                   *)
LEMMA IInvStep == IInv /\ [Next]_vars => IInv' /\ Silent
BY ConnectFailsStep, EventcbConnectedStep, ReadcbStep, EventcbClosedStep, BevWritesStep,
   WakeupCbStep, ActivationCbStep, ReturnStep, UsersStep, ConsumeStep, ElsewhereStep
   DEF Next, Loop, UserOp

(* A connection begins well.                                               *)
LEMMA IInvInit == Init => IInv
<1> SUFFICES ASSUME Init PROVE IInv
  OBVIOUS
<1>1. PICK role \in Roles : conn = ConnInit(role)
  BY DEF Init
<1>2. conn \in Conn
  BY <1>1 DEF ConnInit, Conn, FileReady, Aborts
<1>3. Quiet(conn) /\ conn.wbuf = 0
  BY <1>1 DEF ConnInit, Quiet, Settled
<1>4. M(conn, stack).c = conn /\ M(conn, stack).st = stack /\ stack \in Seq(Frames)
  BY DEF M, Init
<1>5. Good(M(conn, stack)) /\ Flushed(M(conn, stack))
  BY <1>2, <1>3, <1>4 DEF Good, Flushed
<1>6. Others
  <2>1. 0 .. PeerUnits # {} /\ PeerUnits \in 0 .. PeerUnits /\ UserOps \in 0 .. UserOps
    BY BoundsAssumption
  <2>2. seen \in [1 .. Callbacks -> Seq(Closes \cup {"Connected"})]
    BY DEF Init
  <2> QED
    BY <1>3, <2>1, <2>2 DEF Init, Others
<1> QED
  BY <1>5, <1>6 DEF IInv

(* The invariant holds always.                                             *)
THEOREM Inductive == Spec => []IInv
<1>1. IInv /\ [Next]_vars => IInv'
  BY IInvStep
<1> QED
  BY <1>1, IInvInit, PTL DEF Spec

(* WritesReachTheSocket: everything that was written after the connect has *)
(* reached the bufferevent when the loop goes on, and close_i never calls  *)
(* the can_flush_close that the raw buffer socket leaves NULL.             *)
THEOREM WritesAlwaysReachTheSocket == Spec => []WritesReachTheSocket
<1>1. IInv => WritesReachTheSocket
  <2> SUFFICES ASSUME IInv PROVE WritesReachTheSocket
    OBVIOUS
  <2>1. conn \in Conn /\ Quiet(conn) /\ stack \in Seq(Frames) /\ Others
        /\ (stack = <<>> => Flushed(M(conn, <<>>)))
    BY Unfold
  <2>2. TypeOK
    <3>1. \A i \in 1 .. Len(stack) : stack[i] \in Frames
      BY <2>1
    <3> QED
      BY <2>1, <3>1 DEF TypeOK, Others, Frames
  <2>3. conn.abort # "can_flush_close"
    BY <2>1 DEF Quiet, Settled
  <2>4. Idle /\ IsOpen(conn) /\ ~conn.connecting => conn.wbuf = 0
    <3>1. M(conn, <<>>).c = conn /\ M(conn, <<>>).st = <<>>
      BY DEF M
    <3>2. ~HasFlush(<<>>)
      BY DEF HasFlush
    <3> QED
      BY <2>1, <3>1, <3>2 DEF Idle, Flushed
  <2> QED
    BY <2>2, <2>3, <2>4 DEF WritesReachTheSocket
<1> QED
  BY <1>1, Inductive, PTL

(* NoDataAfterClose: no read filter gets data after the close event,       *)
(* whatever is still to be flushed, unless an upstream's user calls        *)
(* read_disable on a flushing handle or had enabled reads with data left;  *)
(* never on an accepted connection, whose codec disables reads.            *)
THEOREM NeverDataAfterClose == Spec => []NoDataAfterClose
<1>1. IInv => NoDataAfterClose
  BY Unfold DEF Conn, Roles, Quiet, Settled, NoDataAfterClose
<1> QED
  BY <1>1, Inductive, PTL

(* SilentOnceFreed: once the bufferevent is gone the connection raises no  *)
(* event and delivers no data, whatever is called or scheduled.            *)
THEOREM AlwaysSilentOnceFreed == Spec => SilentOnceFreed
<1>1. IInv /\ [Next]_vars => (conn.bev = "freed" => /\ conn'.closes = conn.closes
                                                     /\ Len(stack') <= Len(stack))
  BY IInvStep DEF Silent
<1> QED
  BY <1>1, Inductive, PTL DEF Spec, SilentOnceFreed
============================================================================
