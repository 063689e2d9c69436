--------------------------- MODULE SandboxProofs ---------------------------
(***************************************************************************)
(* Proofs about the sandbox: SandboxServer with CodeHistory, for any number*)
(* of clients, requests, connections and crashes, and GPUJobs, for any     *)
(* number of jobs and any retention.                                       *)
(*                                                                         *)
(* Streams: a connection no call was given up on carries at most what its  *)
(* client waits for (Clean), and any other nothing newer than that (Fine), *)
(* so a response can be late but never another call's by accident.         *)
(*                                                                         *)
(* History: ids are never given out again, so no line hides another when   *)
(* the file is loaded (Lines).                                             *)
(*                                                                         *)
(* Jobs: a worker ends well only after its script has (WorkerTrue);        *)
(* kill_job takes the job out of the monitor's reach before it lets go of  *)
(* the lock (KillTrue); the monitor reports a job once, when its worker    *)
(* has ended for good (ReportTrue, StampTrue), and reads logs that nothing *)
(* is added to when the worker ended by itself (OutputTrue).               *)
(***************************************************************************)
EXTENDS SandboxServer, GPUJobs, SequenceTheorems, FiniteSetTheorems, WellFoundedInduction, TLAPS

Request == [req : Nat, kind : Kind]
Part == [part : {"head", "body"}, req : Nat]
Connection == [up : Seq(Request), down : Seq(Part), cOpen : BOOLEAN, sOpen : BOOLEAN, late : BOOLEAN]

HeadOf(w) == [part |-> "head", req |-> w]
BodyOf(w) == [part |-> "body", req |-> w]

\* Nothing on a connection is newer than w.
NotNewer(q, w) ==
    /\ \A i \in 1..Len(q.up) : q.up[i].req <= w
    /\ \A i \in 1..Len(q.down) : q.down[i].req <= w

\* What is on a connection no call was given up on: nothing when its client does
\* not wait, and else the one request, or what is left of the one response.
Clean(q, w, mid) ==
    IF w = 0 THEN q.up = <<>> /\ q.down = <<>>
    ELSE \/ Len(q.up) = 1 /\ q.up[1].req = w /\ q.down = <<>> /\ ~mid
         \/ /\ q.up = <<>>
            /\ \/ q.down = <<>>
               \/ mid /\ q.down = <<BodyOf(w)>>
               \/ ~mid /\ (q.down = <<HeadOf(w)>> \/ q.down = <<HeadOf(w), BodyOf(w)>>)

\* A connection and the client it belongs to.
Fine(q, w, mid, g) ==
    /\ q.cOpen
    /\ w # 0 => NotNewer(q, w)
    /\ ~q.late => Clean(q, w, mid)
    /\ g.answer <= g.req /\ (g.answer # g.req => q.late)

Sound(q, n) == NotNewer(q, n) /\ (~q.sOpen => q.up = <<>>)

StreamTyped ==
    /\ conns \in Seq(Connection) /\ sent \in Nat
    /\ link \in [Client -> Nat] /\ waiting \in [Client -> Nat]
    /\ midFrame \in [Client -> BOOLEAN] /\ got \in [Client -> [req : Nat, answer : Nat]]

Streams ==
    /\ \A k \in 1..Len(conns) : Sound(conns[k], sent)
    /\ \A c \in Client : link[c] <= Len(conns) /\ waiting[c] <= sent
    /\ \A c, d \in Client : link[c] # 0 /\ link[c] = link[d] => c = d
    /\ \A c \in Client : link[c] = 0 => waiting[c] = 0 /\ got[c] = Nothing
    /\ \A c \in Client : link[c] # 0 => Fine(conns[link[c]], waiting[c], midFrame[c], got[c])
-----------------------------------------------------------------------------
LEMMA OnConnection ==
    ASSUME NEW q \in Connection
    PROVE  /\ q.up \in Seq(Request) /\ q.down \in Seq(Part)
           /\ \A i \in 1..Len(q.up) : q.up[i] \in Request /\ q.up[i].req \in Nat
           /\ \A i \in 1..Len(q.down) : q.down[i] \in Part /\ q.down[i].req \in Nat
<1>1. q.up \in Seq(Request) /\ q.down \in Seq(Part)
  BY DEF Connection
<1>2. ASSUME NEW i \in 1..Len(q.up) PROVE q.up[i] \in Request /\ q.up[i].req \in Nat
  <2>1. q.up[i] \in Request
    BY <1>1
  <2> QED
    BY <2>1 DEF Request
<1>3. ASSUME NEW i \in 1..Len(q.down) PROVE q.down[i] \in Part /\ q.down[i].req \in Nat
  <2>1. q.down[i] \in Part
    BY <1>1
  <2> QED
    BY <2>1 DEF Part
<1> QED
  BY <1>1, <1>2, <1>3

LEMMA StaysNotNewer ==
    ASSUME NEW q \in Connection, NEW n \in Nat, NEW m \in Nat, n <= m, NotNewer(q, n)
    PROVE  NotNewer(q, m)
  BY OnConnection DEF NotNewer

\* A step of one client on its own connection.
LEMMA ByClient ==
    ASSUME StreamTyped, Streams, NEW c \in Client, link[c] # 0, link' = link,
           NEW q \in Connection, conns' = [conns EXCEPT ![link[c]] = q],
           sent' \in Nat, sent <= sent', Sound(q, sent'),
           NEW w \in Nat, w <= sent', waiting' = [waiting EXCEPT ![c] = w],
           NEW mid \in BOOLEAN, midFrame' = [midFrame EXCEPT ![c] = mid],
           NEW g \in [req : Nat, answer : Nat], got' = [got EXCEPT ![c] = g],
           Fine(q, w, mid, g)
    PROVE  StreamTyped' /\ Streams'
<1>1. link[c] \in 1..Len(conns) /\ Len(conns) \in Nat
  BY DEF StreamTyped, Streams
<1>2. /\ conns' \in Seq(Connection) /\ Len(conns') = Len(conns) /\ conns'[link[c]] = q
      /\ \A k \in 1..Len(conns) : k # link[c] => conns'[k] = conns[k]
  BY <1>1 DEF StreamTyped
<1>3. StreamTyped'
  BY <1>2 DEF StreamTyped
<1>4. ASSUME NEW k \in 1..Len(conns') PROVE Sound(conns'[k], sent')
  <2>1. CASE k = link[c]
    BY <1>2, <2>1
  <2>2. CASE k # link[c]
    <3>1. conns'[k] = conns[k] /\ conns[k] \in Connection /\ Sound(conns[k], sent)
      BY <1>2, <2>2 DEF StreamTyped, Streams
    <3>2. NotNewer(conns[k], sent')
      BY <3>1, StaysNotNewer DEF Sound, StreamTyped
    <3> QED
      BY <3>1, <3>2 DEF Sound
  <2> QED
    BY <2>1, <2>2
<1>5. \A d \in Client : link'[d] <= Len(conns') /\ waiting'[d] <= sent'
  BY <1>2 DEF Streams, StreamTyped
<1>6. \A d, e \in Client : link'[d] # 0 /\ link'[d] = link'[e] => d = e
  BY DEF Streams
<1>7. ASSUME NEW d \in Client, link'[d] = 0 PROVE waiting'[d] = 0 /\ got'[d] = Nothing
  BY <1>7 DEF Streams, StreamTyped
<1>8. ASSUME NEW d \in Client, link'[d] # 0
      PROVE  Fine(conns'[link'[d]], waiting'[d], midFrame'[d], got'[d])
  <2>1. CASE d = c
    BY <1>2, <2>1 DEF StreamTyped
  <2>2. CASE d # c
    <3>1. link[d] # link[c] /\ link[d] \in 1..Len(conns)
      BY <1>8, <2>2 DEF Streams, StreamTyped
    <3>2. conns'[link[d]] = conns[link[d]] /\ waiting'[d] = waiting[d] /\ midFrame'[d] = midFrame[d]
          /\ got'[d] = got[d]
      BY <1>2, <2>2, <3>1 DEF StreamTyped
    <3> QED
      BY <1>8, <3>2 DEF Streams
  <2> QED
    BY <2>1, <2>2
<1> QED
  BY <1>3, <1>4, <1>5, <1>6, <1>7, <1>8 DEF Streams

\* A step of the server on the connections.
LEMMA ByServer ==
    ASSUME StreamTyped, Streams, UNCHANGED clientVars,
           conns' \in Seq(Connection), Len(conns') = Len(conns),
           \A k \in 1..Len(conns) :
              /\ Sound(conns'[k], sent)
              /\ \A w \in Nat, mid \in BOOLEAN, g \in [req : Nat, answer : Nat] :
                    Fine(conns[k], w, mid, g) => Fine(conns'[k], w, mid, g)
    PROVE  StreamTyped' /\ Streams'
<1>1. UNCHANGED <<link, sent, waiting, midFrame, got>>
  BY DEF clientVars
<1>2. StreamTyped'
  BY <1>1 DEF StreamTyped
<1>3. ASSUME NEW d \in Client, link[d] # 0
      PROVE  Fine(conns'[link[d]], waiting[d], midFrame[d], got[d])
  <2>1. link[d] \in 1..Len(conns) /\ Fine(conns[link[d]], waiting[d], midFrame[d], got[d])
    BY <1>3 DEF Streams, StreamTyped
  <2>2. waiting[d] \in Nat /\ midFrame[d] \in BOOLEAN /\ got[d] \in [req : Nat, answer : Nat]
    BY DEF StreamTyped
  <2> QED
    BY <2>1, <2>2
<1> QED
  BY <1>1, <1>2, <1>3 DEF Streams
-----------------------------------------------------------------------------
\* Reading takes the first part off.
LEMMA ReadPart ==
    ASSUME NEW q \in Connection, q.down # <<>>
    PROVE  /\ Tail(q.down) \in Seq(Part) /\ [q EXCEPT !.down = Tail(@)] \in Connection
           /\ Head(q.down) = q.down[1] /\ 1 \in 1..Len(q.down)
           /\ \A n \in Nat : NotNewer(q, n) => NotNewer([q EXCEPT !.down = Tail(@)], n)
<1> DEFINE t == Tail(q.down)
           r == [q EXCEPT !.down = Tail(@)]
<1>1. q.down \in Seq(Part) /\ q.down # <<>>
  BY OnConnection
<1>2. /\ t \in Seq(Part) /\ Len(t) = Len(q.down) - 1 /\ Len(q.down) \in Nat /\ Len(q.down) > 0
      /\ \A i \in 1..Len(t) : t[i] = q.down[i + 1]
  BY <1>1
<1>3. Head(q.down) = q.down[1]
  BY <1>1
<1> HIDE DEF t
<1>4. r \in Connection /\ r.down = t /\ r.up = q.up
  BY <1>2 DEF Connection, t
<1>5. ASSUME NEW n \in Nat, NotNewer(q, n) PROVE NotNewer(r, n)
  <2>1. \A i \in 1..Len(t) : i + 1 \in 1..Len(q.down)
    BY <1>2
  <2> QED
    BY <1>2, <1>4, <1>5, <2>1 DEF NotNewer
<1> HIDE DEF r
<1>6. \A n \in Nat : NotNewer(q, n) => NotNewer(r, n)
  BY <1>5
<1>7. t \in Seq(Part) /\ 1 \in 1..Len(q.down)
  BY <1>2
<1>8. t = Tail(q.down) /\ r = [q EXCEPT !.down = Tail(@)]
  BY DEF t, r
<1> QED
  BY <1>3, <1>4, <1>6, <1>7, <1>8

LEMMA FrameFacts ==
    ASSUME NEW w \in Nat
    PROVE  /\ Frame(w) = <<HeadOf(w), BodyOf(w)>> /\ Frame(w) \in Seq(Part) /\ Len(Frame(w)) = 2
           /\ Frame(w)[1].req = w /\ Frame(w)[2].req = w
           /\ Tail(Frame(w)) = <<BodyOf(w)>> /\ Tail(<<HeadOf(w)>>) = <<>> /\ Tail(<<BodyOf(w)>>) = <<>>
           /\ HeadOf(w).part = "head" /\ BodyOf(w).part = "body" /\ HeadOf(w).req = w /\ BodyOf(w).req = w
  BY DEF Frame, HeadOf, BodyOf, Part

LEMMA OwnConnection ==
    ASSUME StreamTyped, Streams, NEW c \in Client, link[c] # 0
    PROVE  /\ link[c] \in 1..Len(conns) /\ Conn(c) = conns[link[c]] /\ Conn(c) \in Connection
           /\ Fine(Conn(c), waiting[c], midFrame[c], got[c]) /\ Sound(Conn(c), sent)
           /\ waiting[c] \in Nat /\ waiting[c] <= sent
  BY DEF StreamTyped, Streams, Conn

\* Without a wait there is nothing to compare with, and an answer got stays.
LEMMA WaitEnds ==
    ASSUME NEW q \in Connection, NEW w \in Nat, NEW mid, NEW g, Fine(q, w, mid, g),
           NEW mid2, q.late \/ (q.up = <<>> /\ q.down = <<>>)
    PROVE  Fine(q, 0, mid2, g)
  BY DEF Fine, Clean

LEMMA NothingIsFine == Nothing \in [req : Nat, answer : Nat] /\ Nothing.answer = 0 /\ Nothing.req = 0
  BY DEF Nothing

LEMMA WaitingLinked ==
    ASSUME Streams, NEW c \in Client, waiting[c] # 0 PROVE link[c] # 0
  BY DEF Streams

LEMMA TimeoutKeeps ==
    ASSUME StreamTyped, Streams, NEW c \in Client, Timeout(c) PROVE StreamTyped' /\ Streams'
<1> DEFINE q == [Conn(c) EXCEPT !.late = TRUE]
<1>1. link[c] # 0
  BY WaitingLinked DEF Timeout
<1>2. /\ link[c] \in 1..Len(conns) /\ Conn(c) = conns[link[c]] /\ Conn(c) \in Connection
      /\ Fine(Conn(c), waiting[c], midFrame[c], got[c]) /\ Sound(Conn(c), sent)
  BY <1>1, OwnConnection
<1>3. /\ q \in Connection /\ q.up = Conn(c).up /\ q.down = Conn(c).down /\ q.sOpen = Conn(c).sOpen
      /\ q.late /\ q.cOpen = Conn(c).cOpen
  BY <1>2 DEF Connection
<1>4. Sound(q, sent)
  BY <1>2, <1>3 DEF Sound, NotNewer
<1>5. Fine(q, 0, midFrame[c], got[c])
  BY <1>2, <1>3 DEF Fine
<1>6. conns' = [conns EXCEPT ![link[c]] = q]
  BY <1>2 DEF Timeout, Conn
<1> HIDE DEF q
<1>7. /\ waiting' = [waiting EXCEPT ![c] = 0] /\ midFrame' = [midFrame EXCEPT ![c] = midFrame[c]]
      /\ got' = [got EXCEPT ![c] = got[c]] /\ UNCHANGED <<link, sent>>
  BY DEF Timeout, StreamTyped
<1>8. midFrame[c] \in BOOLEAN /\ got[c] \in [req : Nat, answer : Nat] /\ sent \in Nat
  BY DEF StreamTyped
<1>9. /\ link' = link /\ sent' \in Nat /\ sent <= sent' /\ Sound(q, sent')
      /\ 0 \in Nat /\ 0 <= sent'
  BY <1>4, <1>7, <1>8
<1> QED
  BY <1>1, <1>3, <1>5, <1>6, <1>7, <1>8, <1>9, ByClient

LEMMA LostKeeps ==
    ASSUME StreamTyped, Streams, NEW c \in Client, Lost(c) PROVE StreamTyped' /\ Streams'
<1> DEFINE q == Conn(c)
<1>1. link[c] # 0
  BY WaitingLinked DEF Lost
<1>2. /\ link[c] \in 1..Len(conns) /\ q = conns[link[c]] /\ q \in Connection
      /\ Fine(q, waiting[c], midFrame[c], got[c]) /\ Sound(q, sent) /\ waiting[c] \in Nat
  BY <1>1, OwnConnection
<1>3. q.down = <<>> /\ q.up = <<>>
  BY <1>2 DEF Lost, Sound
<1> HIDE DEF q
<1>4. Fine(q, 0, midFrame[c], got[c])
  BY <1>2, <1>3, WaitEnds
<1>5. conns' = [conns EXCEPT ![link[c]] = q]
  BY <1>2 DEF Lost, StreamTyped
<1>6. /\ waiting' = [waiting EXCEPT ![c] = 0] /\ midFrame' = [midFrame EXCEPT ![c] = midFrame[c]]
      /\ got' = [got EXCEPT ![c] = got[c]] /\ UNCHANGED <<link, sent>>
  BY DEF Lost, StreamTyped
<1>7. midFrame[c] \in BOOLEAN /\ got[c] \in [req : Nat, answer : Nat] /\ sent \in Nat
  BY DEF StreamTyped
<1>8. /\ link' = link /\ sent' \in Nat /\ sent <= sent' /\ Sound(q, sent')
      /\ 0 \in Nat /\ 0 <= sent'
  BY <1>2, <1>6, <1>7
<1> QED
  BY <1>1, <1>2, <1>4, <1>5, <1>6, <1>7, <1>8, ByClient

LEMMA ReadHeadKeeps ==
    ASSUME StreamTyped, Streams, NEW c \in Client, ReadHead(c) PROVE StreamTyped' /\ Streams'
<1> DEFINE p == Conn(c)
           q == [p EXCEPT !.down = Tail(@)]
           w == waiting[c]
<1>1. link[c] # 0 /\ w # 0 /\ p.down # <<>> /\ ~midFrame[c]
  BY WaitingLinked DEF ReadHead, Arrived
<1>2. /\ link[c] \in 1..Len(conns) /\ p = conns[link[c]] /\ p \in Connection
      /\ Fine(p, w, midFrame[c], got[c]) /\ Sound(p, sent) /\ w \in Nat /\ w <= sent
  BY <1>1, OwnConnection
<1> HIDE DEF p, w
<1>3. /\ q \in Connection /\ q.down = Tail(p.down) /\ q.up = p.up /\ q.sOpen = p.sOpen
      /\ q.late = p.late /\ q.cOpen = p.cOpen
      /\ \A n \in Nat : NotNewer(p, n) => NotNewer(q, n)
  BY <1>1, <1>2, ReadPart DEF Connection
<1> HIDE DEF q
<1>4. ASSUME ~p.late PROVE Clean(q, w, TRUE)
  <2>1. Clean(p, w, FALSE)
    BY <1>1, <1>2, <1>4 DEF Fine, StreamTyped
  <2>2. p.up = <<>> /\ (p.down = <<HeadOf(w)>> \/ p.down = <<HeadOf(w), BodyOf(w)>>)
    BY <1>1, <2>1 DEF Clean
  <2>3. q.down = <<>> \/ q.down = <<BodyOf(w)>>
    <3>1. Tail(<<HeadOf(w), BodyOf(w)>>) = <<BodyOf(w)>> /\ Tail(<<HeadOf(w)>>) = <<>>
      BY <1>2, FrameFacts
    <3> QED
      BY <1>3, <2>2, <3>1
  <2> QED
    BY <1>1, <1>3, <2>2, <2>3 DEF Clean
<1>5. Fine(q, w, TRUE, got[c])
  BY <1>2, <1>3, <1>4 DEF Fine
<1>6. sent \in Nat
  BY DEF StreamTyped
<1>7. Sound(q, sent)
  BY <1>2, <1>3, <1>6 DEF Sound
<1>8. conns' = [conns EXCEPT ![link[c]] = q]
  BY <1>2 DEF ReadHead, q, p
<1>9. /\ waiting' = [waiting EXCEPT ![c] = w] /\ midFrame' = [midFrame EXCEPT ![c] = TRUE]
      /\ got' = [got EXCEPT ![c] = got[c]] /\ UNCHANGED <<link, sent>>
  BY DEF ReadHead, StreamTyped, w
<1>10. got[c] \in [req : Nat, answer : Nat]
  BY DEF StreamTyped
<1>11. link' = link /\ sent' \in Nat /\ sent <= sent' /\ Sound(q, sent') /\ w <= sent'
  BY <1>2, <1>6, <1>7, <1>9
<1> QED
  BY <1>1, <1>2, <1>3, <1>5, <1>8, <1>9, <1>10, <1>11, ByClient

LEMMA ReadBodyKeeps ==
    ASSUME StreamTyped, Streams, NEW c \in Client, ReadBody(c) PROVE StreamTyped' /\ Streams'
<1> DEFINE p == Conn(c)
           q == [p EXCEPT !.down = Tail(@)]
           w == waiting[c]
           g == [req |-> w, answer |-> Head(p.down).req]
<1>1. link[c] # 0 /\ w # 0 /\ p.down # <<>> /\ midFrame[c] /\ Head(p.down).part = "body"
  BY WaitingLinked DEF ReadBody, Arrived
<1>2. /\ link[c] \in 1..Len(conns) /\ p = conns[link[c]] /\ p \in Connection
      /\ Fine(p, w, midFrame[c], got[c]) /\ Sound(p, sent) /\ w \in Nat /\ w <= sent
  BY <1>1, OwnConnection
<1>3. conns' = [conns EXCEPT ![link[c]] = q]
  BY <1>2 DEF ReadBody
<1>4. /\ waiting' = [waiting EXCEPT ![c] = 0] /\ midFrame' = [midFrame EXCEPT ![c] = FALSE]
      /\ got' = [got EXCEPT ![c] = g] /\ UNCHANGED <<link, sent>>
  BY DEF ReadBody
<1> HIDE DEF p, w
<1>5. /\ q \in Connection /\ q.down = Tail(p.down) /\ q.up = p.up /\ q.sOpen = p.sOpen
      /\ q.late = p.late /\ q.cOpen = p.cOpen
      /\ \A n \in Nat : NotNewer(p, n) => NotNewer(q, n)
  BY <1>1, <1>2, ReadPart DEF Connection
<1>6. g.req = w /\ g.answer = p.down[1].req /\ g.answer \in Nat /\ g.answer <= w
  <2>1. Head(p.down) = p.down[1] /\ 1 \in 1..Len(p.down)
    BY <1>1, <1>2, ReadPart
  <2>2. p.down[1].req \in Nat
    BY <1>2, <2>1, OnConnection
  <2>3. p.down[1].req <= w
    BY <1>1, <1>2, <2>1 DEF Fine, NotNewer
  <2> QED
    BY <2>1, <2>2, <2>3
<1>7. g \in [req : Nat, answer : Nat]
  BY <1>2, <1>6
<1> HIDE DEF q, g
<1>8. ASSUME ~p.late PROVE q.up = <<>> /\ q.down = <<>> /\ g.answer = w
  <2>1. Clean(p, w, midFrame[c])
    BY <1>2, <1>8 DEF Fine
  <2>2. p.up = <<>> /\ p.down = <<BodyOf(w)>>
    BY <1>1, <2>1 DEF Clean
  <2>3. Tail(<<BodyOf(w)>>) = <<>> /\ BodyOf(w).req = w
    BY <1>2, FrameFacts
  <2>4. p.down[1] = BodyOf(w)
    BY <2>2
  <2> QED
    BY <1>5, <1>6, <2>2, <2>3, <2>4
<1>9. Fine(q, 0, FALSE, g)
  <2>1. q.cOpen
    BY <1>2, <1>5 DEF Fine
  <2>2. g.answer # g.req => q.late
    BY <1>5, <1>6, <1>8
  <2>3. ~q.late => Clean(q, 0, FALSE)
    BY <1>5, <1>8 DEF Clean
  <2> QED
    BY <1>6, <2>1, <2>2, <2>3 DEF Fine
<1>10. sent \in Nat
  BY DEF StreamTyped
<1>11. /\ link' = link /\ sent' \in Nat /\ sent <= sent' /\ Sound(q, sent')
       /\ 0 \in Nat /\ 0 <= sent'
  BY <1>2, <1>4, <1>5, <1>10 DEF Sound
<1> QED
  BY <1>1, <1>3, <1>4, <1>5, <1>7, <1>9, <1>11, ByClient

\* A reading that goes wrong happens on a connection a call was given up on.
LEMMA MisreadKeeps ==
    ASSUME StreamTyped, Streams, NEW c \in Client, Misread(c) PROVE StreamTyped' /\ Streams'
<1> DEFINE p == Conn(c)
           w == waiting[c]
<1>1. link[c] # 0 /\ w # 0 /\ p.down # <<>> /\ ~midFrame[c] /\ Head(p.down).part = "body"
  BY WaitingLinked DEF Misread, Arrived
<1>2. /\ link[c] \in 1..Len(conns) /\ p = conns[link[c]] /\ p \in Connection
      /\ Fine(p, w, midFrame[c], got[c]) /\ Sound(p, sent) /\ w \in Nat /\ w <= sent
  BY <1>1, OwnConnection
<1>3. PICK rest :
         /\ \/ rest \in {p.down, Tail(p.down)}
            \/ Len(p.down) > 1 /\ rest = [Tail(p.down) EXCEPT ![1].part = "body"]
         /\ conns' = [conns EXCEPT ![link[c]].down = rest]
  BY DEF Misread
<1> DEFINE q == [p EXCEPT !.down = rest]
<1>4. conns' = [conns EXCEPT ![link[c]] = q]
  BY <1>2, <1>3
<1>5. /\ waiting' = [waiting EXCEPT ![c] = 0] /\ midFrame' = [midFrame EXCEPT ![c] = midFrame[c]]
      /\ got' = [got EXCEPT ![c] = got[c]] /\ UNCHANGED <<link, sent>>
  BY DEF Misread, StreamTyped
<1> HIDE DEF p, w
<1>6. p.late
  <2> SUFFICES ASSUME ~p.late PROVE FALSE
    OBVIOUS
  <2>1. Clean(p, w, midFrame[c])
    BY <1>2 DEF Fine
  <2>2. p.down = <<HeadOf(w)>> \/ p.down = <<HeadOf(w), BodyOf(w)>>
    BY <1>1, <2>1 DEF Clean
  <2>3. Head(p.down) = HeadOf(w)
    BY <2>2
  <2> QED
    BY <1>1, <2>3 DEF HeadOf
<1>7. /\ rest \in Seq(Part)
      /\ \A n \in Nat : NotNewer(p, n) => \A i \in 1..Len(rest) : rest[i].req <= n
  <2>1. /\ Tail(p.down) \in Seq(Part)
        /\ \A i \in 1..Len(Tail(p.down)) : i + 1 \in 1..Len(p.down) /\ Tail(p.down)[i] = p.down[i + 1]
    BY <1>1, <1>2, OnConnection
  <2>2. CASE rest = p.down
    BY <1>2, <2>2, OnConnection DEF NotNewer
  <2>3. CASE rest = Tail(p.down)
    BY <2>1, <2>3 DEF NotNewer
  <2>4. CASE Len(p.down) > 1 /\ rest = [Tail(p.down) EXCEPT ![1].part = "body"]
    <3> DEFINE t == Tail(p.down)
    <3>1. t \in Seq(Part) /\ Len(t) = Len(p.down) - 1 /\ Len(p.down) \in Nat
      BY <1>1, <1>2, OnConnection
    <3>2. 1 \in 1..Len(t) /\ t[1] \in Part
      BY <2>4, <3>1
    <3> DEFINE e == [t[1] EXCEPT !.part = "body"]
    <3>3. rest = [t EXCEPT ![1] = e]
      BY <2>4
    <3>4. e \in Part /\ e.req = t[1].req
      BY <3>2 DEF Part
    <3> HIDE DEF t, e
    <3>5. /\ rest \in Seq(Part) /\ Len(rest) = Len(t)
          /\ rest[1] = e /\ \A i \in 1..Len(t) : i # 1 => rest[i] = t[i]
      BY <3>1, <3>2, <3>3, <3>4
    <3>6. \A i \in 1..Len(t) : rest[i].req = t[i].req
      BY <3>4, <3>5
    <3>7. \A i \in 1..Len(t) : i + 1 \in 1..Len(p.down) /\ t[i] = p.down[i + 1]
      BY <2>1 DEF t
    <3>8. ASSUME NEW n \in Nat, NotNewer(p, n), NEW i \in 1..Len(rest) PROVE rest[i].req <= n
      <4>1. i \in 1..Len(t) /\ rest[i].req = p.down[i + 1].req /\ i + 1 \in 1..Len(p.down)
        BY <3>5, <3>6, <3>7
      <4> QED
        BY <3>8, <4>1 DEF NotNewer
    <3> QED
      BY <3>5, <3>8
  <2> QED
    BY <1>3, <2>2, <2>3, <2>4 DEF p
<1>8. /\ q \in Connection /\ q.down = rest /\ q.up = p.up /\ q.sOpen = p.sOpen
      /\ q.late = p.late /\ q.cOpen = p.cOpen
  BY <1>2, <1>7 DEF Connection
<1> HIDE DEF q
<1>9. Sound(q, sent)
  <2>1. sent \in Nat
    BY DEF StreamTyped
  <2> QED
    BY <1>2, <1>7, <1>8, <2>1 DEF Sound, NotNewer
<1>10. Fine(q, 0, midFrame[c], got[c])
  BY <1>2, <1>6, <1>8 DEF Fine
<1>11. midFrame[c] \in BOOLEAN /\ got[c] \in [req : Nat, answer : Nat] /\ sent \in Nat
  BY DEF StreamTyped
<1>12. /\ link' = link /\ sent' \in Nat /\ sent <= sent' /\ Sound(q, sent')
       /\ 0 \in Nat /\ 0 <= sent'
  BY <1>5, <1>9, <1>11
<1>13. q \in Connection /\ link[c] # 0
  BY <1>1, <1>8
<1> QED
  BY <1>4, <1>5, <1>10, <1>11, <1>12, <1>13, ByClient

LEMMA SendKeeps ==
    ASSUME StreamTyped, Streams, NEW c \in Client, NEW kind \in Kind, Send(c, kind)
    PROVE  StreamTyped' /\ Streams'
<1> DEFINE p == Conn(c)
           w == sent + 1
           m == [req |-> w, kind |-> kind]
           q == IF p.sOpen THEN [p EXCEPT !.up = Append(@, m)] ELSE p
<1>1. link[c] # 0 /\ waiting[c] = 0
  BY DEF Send
<1>2. /\ link[c] \in 1..Len(conns) /\ p = conns[link[c]] /\ p \in Connection
      /\ Fine(p, 0, midFrame[c], got[c]) /\ Sound(p, sent) /\ sent \in Nat
  BY <1>1, OwnConnection DEF StreamTyped
<1>3. conns' = [conns EXCEPT ![link[c]] = q]
  <2>1. CASE p.sOpen
    BY <1>2, <2>1 DEF Send
  <2>2. CASE ~p.sOpen
    BY <1>2, <2>2 DEF Send, StreamTyped
  <2> QED
    BY <2>1, <2>2
<1>4. /\ sent' = w /\ waiting' = [waiting EXCEPT ![c] = w] /\ midFrame' = [midFrame EXCEPT ![c] = FALSE]
      /\ got' = [got EXCEPT ![c] = Nothing] /\ link' = link
  BY DEF Send
<1>5. w \in Nat /\ sent < w /\ w # 0
  BY <1>2
<1>6. m \in Request /\ m.req = w
  BY <1>5 DEF Request
<1> HIDE DEF p, w, m
<1>7. p.up \in Seq(Request) /\ p.down \in Seq(Part) /\ Len(p.up) \in Nat
  BY <1>2, OnConnection
<1>8. /\ Append(p.up, m) \in Seq(Request) /\ Len(Append(p.up, m)) = Len(p.up) + 1
      /\ Append(p.up, m)[Len(p.up) + 1] = m /\ \A i \in 1..Len(p.up) : Append(p.up, m)[i] = p.up[i]
  BY <1>6, <1>7
<1>9. /\ q \in Connection /\ q.down = p.down /\ q.sOpen = p.sOpen
      /\ q.late = p.late /\ q.cOpen = p.cOpen
      /\ q.up = IF p.sOpen THEN Append(p.up, m) ELSE p.up
  BY <1>2, <1>8 DEF Connection
<1> HIDE DEF q
<1>10. NotNewer(p, w)
  BY <1>2, <1>5, StaysNotNewer DEF Sound
<1>11. NotNewer(q, w)
  <2>1. CASE p.sOpen
    <3>1. q.up = Append(p.up, m) /\ q.down = p.down
      BY <1>9, <2>1
    <3>2. ASSUME NEW i \in 1..Len(q.up) PROVE q.up[i].req <= w
      <4>1. i \in 1..Len(p.up) \/ i = Len(p.up) + 1
        BY <1>7, <1>8, <3>1
      <4> QED
        BY <1>5, <1>6, <1>8, <1>10, <3>1, <4>1 DEF NotNewer
    <3> QED
      BY <1>10, <3>1, <3>2 DEF NotNewer
  <2>2. CASE ~p.sOpen
    BY <1>9, <1>10, <2>2 DEF NotNewer
  <2> QED
    BY <2>1, <2>2
<1>12. Sound(q, w)
  BY <1>2, <1>9, <1>11 DEF Sound
<1>13. ASSUME ~p.late PROVE Clean(q, w, FALSE)
  <2>1. p.up = <<>> /\ p.down = <<>>
    BY <1>2, <1>13 DEF Fine, Clean
  <2>2. CASE p.sOpen
    <3>1. Len(p.up) = 0
      BY <2>1
    <3>2. q.up = Append(p.up, m) /\ Len(q.up) = 1 /\ q.up[1] = m
      BY <1>8, <1>9, <2>2, <3>1
    <3> QED
      BY <1>5, <1>6, <1>9, <2>1, <3>2 DEF Clean
  <2>3. CASE ~p.sOpen
    BY <1>5, <1>9, <2>1, <2>3 DEF Clean
  <2> QED
    BY <2>2, <2>3
<1>14. Fine(q, w, FALSE, Nothing)
  <2>1. q.cOpen /\ (~q.late => Clean(q, w, FALSE))
    BY <1>2, <1>9, <1>13 DEF Fine
  <2>2. Nothing.answer <= Nothing.req /\ Nothing.answer = Nothing.req
    BY NothingIsFine
  <2> QED
    BY <1>11, <2>1, <2>2 DEF Fine
<1>15. /\ link' = link /\ sent' \in Nat /\ sent <= sent' /\ Sound(q, sent')
       /\ w \in Nat /\ w <= sent' /\ FALSE \in BOOLEAN
  BY <1>2, <1>4, <1>5, <1>12
<1> QED
  BY <1>1, <1>3, <1>4, <1>9, <1>14, <1>15, NothingIsFine, ByClient

\* A new connection belongs to nobody yet.
LEMMA ConnectKeeps ==
    ASSUME StreamTyped, Streams, NEW c \in Client, Connect(c) PROVE StreamTyped' /\ Streams'
<1> DEFINE q == [up |-> <<>>, down |-> <<>>, cOpen |-> TRUE, sOpen |-> up /\ listening, late |-> FALSE]
           n == Len(conns) + 1
<1>1. q \in Connection /\ q.up = <<>> /\ q.down = <<>> /\ q.cOpen /\ ~q.late
  BY DEF Connection
<1>2. conns' = Append(conns, q) /\ link' = [link EXCEPT ![c] = Len(conns')] /\ link[c] = 0
  BY DEF Connect
<1>3. UNCHANGED <<sent, waiting, midFrame, got>>
  BY DEF Connect
<1> HIDE DEF q
<1>4. /\ conns' \in Seq(Connection) /\ Len(conns) \in Nat /\ Len(conns') = n /\ conns'[n] = q
      /\ \A k \in 1..Len(conns) : conns'[k] = conns[k]
  BY <1>1, <1>2 DEF StreamTyped
<1>5. link' = [link EXCEPT ![c] = n] /\ n \in Nat /\ n # 0 /\ n > Len(conns)
  BY <1>2, <1>4
<1> HIDE DEF n
<1>6. StreamTyped'
  BY <1>3, <1>4, <1>5 DEF StreamTyped
<1>7. ASSUME NEW k \in 1..Len(conns') PROVE Sound(conns'[k], sent')
  <2>1. CASE k \in 1..Len(conns)
    BY <1>3, <1>4, <2>1 DEF Streams
  <2>2. CASE k \notin 1..Len(conns)
    <3>1. k = n
      BY <1>4, <1>5, <2>2 DEF n
    <3> QED
      BY <1>1, <1>4, <3>1 DEF Sound, NotNewer
  <2> QED
    BY <2>1, <2>2
<1>8. ASSUME NEW d \in Client
      PROVE  /\ d # c => link'[d] = link[d] /\ link[d] <= Len(conns)
             /\ d = c => link'[d] = n
             /\ link[d] \in Nat
  BY <1>5 DEF Streams, StreamTyped
<1>9. \A d \in Client : link'[d] <= Len(conns') /\ waiting'[d] <= sent'
  BY <1>3, <1>4, <1>5, <1>8 DEF Streams
<1>10. \A d, e \in Client : link'[d] # 0 /\ link'[d] = link'[e] => d = e
  BY <1>4, <1>5, <1>8 DEF Streams
<1>11. ASSUME NEW d \in Client, link'[d] = 0 PROVE waiting'[d] = 0 /\ got'[d] = Nothing
  BY <1>3, <1>5, <1>8, <1>11 DEF Streams
<1>12. ASSUME NEW d \in Client, link'[d] # 0
       PROVE  Fine(conns'[link'[d]], waiting'[d], midFrame'[d], got'[d])
  <2>1. CASE d = c
    <3>1. waiting'[d] = 0 /\ got'[d] = Nothing /\ conns'[link'[d]] = q
      BY <1>2, <1>3, <1>4, <1>8, <2>1 DEF Streams
    <3>2. Nothing.answer <= Nothing.req /\ Nothing.answer = Nothing.req
      BY NothingIsFine
    <3> QED
      BY <1>1, <3>1, <3>2 DEF Fine, Clean
  <2>2. CASE d # c
    <3>1. link'[d] = link[d] /\ link[d] \in 1..Len(conns)
      BY <1>4, <1>8, <1>12, <2>2
    <3> QED
      BY <1>3, <1>4, <1>12, <3>1 DEF Streams
  <2> QED
    BY <2>1, <2>2
<1> QED
  BY <1>6, <1>7, <1>9, <1>10, <1>11, <1>12 DEF Streams

\* A connection that is closed belongs to nobody any more.
LEMMA CloseKeeps ==
    ASSUME StreamTyped, Streams, NEW c \in Client, Close(c) PROVE StreamTyped' /\ Streams'
<1> DEFINE p == Conn(c)
<1>1. link[c] # 0 /\ waiting[c] = 0
  BY DEF Close
<1>2. link[c] \in 1..Len(conns) /\ p = conns[link[c]] /\ p \in Connection /\ Sound(p, sent)
  BY <1>1, OwnConnection
<1>3. PICK read \in {p.up, <<>>} :
         conns' = [conns EXCEPT ![link[c]] = [up |-> read, down |-> <<>>, cOpen |-> FALSE,
                                              sOpen |-> @.sOpen, late |-> FALSE]]
  BY DEF Close
<1> DEFINE q == [up |-> read, down |-> <<>>, cOpen |-> FALSE, sOpen |-> p.sOpen, late |-> FALSE]
<1>4. conns' = [conns EXCEPT ![link[c]] = q]
  BY <1>2, <1>3
<1>5. /\ link' = [link EXCEPT ![c] = 0] /\ got' = [got EXCEPT ![c] = Nothing]
      /\ UNCHANGED <<sent, waiting, midFrame>>
  BY DEF Close
<1> HIDE DEF p
<1>6. read \in Seq(Request) /\ (read = p.up \/ read = <<>>)
  <2>1. p.up \in Seq(Request) /\ <<>> \in Seq(Request)
    BY <1>2, OnConnection
  <2> QED
    BY <1>3, <2>1
<1>7. p.sOpen \in BOOLEAN
  BY <1>2 DEF Connection
<1>8. q \in Connection /\ q.up = read /\ q.down = <<>> /\ q.sOpen = p.sOpen
  BY <1>6, <1>7 DEF Connection
<1> HIDE DEF q
<1>9. Sound(q, sent)
  BY <1>2, <1>6, <1>8 DEF Sound, NotNewer
<1>10. /\ conns' \in Seq(Connection) /\ Len(conns') = Len(conns) /\ Len(conns) \in Nat /\ conns'[link[c]] = q
       /\ \A k \in 1..Len(conns) : k # link[c] => conns'[k] = conns[k]
  BY <1>2, <1>4, <1>8 DEF StreamTyped
<1>11. StreamTyped'
  BY <1>5, <1>10, NothingIsFine DEF StreamTyped
<1>12. ASSUME NEW k \in 1..Len(conns') PROVE Sound(conns'[k], sent')
  <2>1. CASE k = link[c]
    BY <1>5, <1>9, <1>10, <2>1
  <2>2. CASE k # link[c]
    BY <1>5, <1>10, <2>2 DEF Streams
  <2> QED
    BY <2>1, <2>2
<1>13. ASSUME NEW d \in Client
       PROVE  /\ d = c => link'[d] = 0 /\ got'[d] = Nothing /\ waiting'[d] = 0
              /\ d # c => link'[d] = link[d] /\ got'[d] = got[d]
              /\ waiting'[d] = waiting[d] /\ midFrame'[d] = midFrame[d] /\ link[d] \in Nat
  BY <1>1, <1>5 DEF StreamTyped
<1>14. \A d \in Client : link'[d] <= Len(conns') /\ waiting'[d] <= sent'
  BY <1>5, <1>10, <1>13 DEF Streams
<1>15. \A d, e \in Client : link'[d] # 0 /\ link'[d] = link'[e] => d = e
  BY <1>13 DEF Streams
<1>16. ASSUME NEW d \in Client, link'[d] = 0 PROVE waiting'[d] = 0 /\ got'[d] = Nothing
  BY <1>13, <1>16 DEF Streams
<1>17. ASSUME NEW d \in Client, link'[d] # 0
       PROVE  Fine(conns'[link'[d]], waiting'[d], midFrame'[d], got'[d])
  <2>1. d # c
    BY <1>13, <1>17
  <2>2. link'[d] = link[d] /\ link[d] \in 1..Len(conns) /\ link[d] # link[c]
    BY <1>1, <1>10, <1>13, <1>17, <2>1 DEF Streams
  <2>3. conns'[link'[d]] = conns[link[d]]
    BY <1>10, <2>2
  <2> QED
    BY <1>13, <1>17, <2>1, <2>2, <2>3 DEF Streams
<1> QED
  BY <1>11, <1>12, <1>14, <1>15, <1>16, <1>17 DEF Streams

\* What a turn of the server makes of a connection.
LEMMA Answered ==
    ASSUME NEW p \in Connection, p.up # <<>>, NEW open \in BOOLEAN, NEW n \in Nat, Sound(p, n),
           NEW q, q = [up |-> IF open THEN Tail(p.up) ELSE <<>>,
                       down |-> IF p.cOpen THEN p.down \o Frame(Head(p.up).req) ELSE p.down,
                       cOpen |-> p.cOpen, sOpen |-> open, late |-> p.late]
    PROVE  /\ q \in Connection /\ Sound(q, n)
           /\ \A w \in Nat, mid \in BOOLEAN, g \in [req : Nat, answer : Nat] :
                 Fine(p, w, mid, g) => Fine(q, w, mid, g)
<1>1. p.up \in Seq(Request) /\ p.down \in Seq(Part) /\ p.cOpen \in BOOLEAN /\ p.late \in BOOLEAN
  BY DEF Connection
<1> DEFINE r == Head(p.up).req
           t == Tail(p.up)
           f == Frame(r)
           d == p.down \o f
<1>2. 1 \in 1..Len(p.up) /\ Head(p.up) = p.up[1] /\ Len(p.up) \in Nat
  BY <1>1
<1>3. r \in Nat /\ r = p.up[1].req
  BY <1>2, OnConnection
<1>4. /\ t \in Seq(Request) /\ Len(t) = Len(p.up) - 1 /\ (Len(t) = 0 => t = <<>>)
      /\ \A i \in 1..Len(t) : t[i] = p.up[i + 1] /\ i + 1 \in 1..Len(p.up)
  <2>1. t \in Seq(Request) /\ Len(t) = Len(p.up) - 1
    BY <1>1
  <2>2. \A i \in 1..Len(p.up) - 1 : t[i] = p.up[i + 1]
    BY <1>1
  <2>3. \A i \in 1..Len(p.up) - 1 : i + 1 \in 1..Len(p.up)
    BY <1>2
  <2> HIDE DEF t
  <2>4. Len(t) = 0 => t = <<>>
    BY <2>1
  <2> QED
    BY <2>1, <2>2, <2>3, <2>4
<1> HIDE DEF r, t
<1>5. f \in Seq(Part) /\ Len(f) = 2 /\ f[1].req = r /\ f[2].req = r /\ f = <<HeadOf(r), BodyOf(r)>>
  BY <1>3, FrameFacts
<1> HIDE DEF f
<1>6. /\ d \in Seq(Part) /\ Len(d) = Len(p.down) + 2 /\ Len(p.down) \in Nat
      /\ \A i \in 1..Len(p.down) : d[i] = p.down[i]
      /\ d[Len(p.down) + 1] = f[1] /\ d[Len(p.down) + 2] = f[2]
      /\ (p.down = <<>> => d = f)
  <2>1. p.down \in Seq(Part) /\ f \in Seq(Part) /\ Len(f) = 2
    BY <1>1, <1>5
  <2>4. p.down = <<>> => d = f
    BY <2>1
  <2>5. Len(p.down) \in Nat
    BY <2>1
  <2>2. /\ d \in Seq(Part) /\ Len(d) = Len(p.down) + Len(f)
        /\ \A i \in 1..Len(p.down) + Len(f) : d[i] = IF i <= Len(p.down) THEN p.down[i] ELSE f[i - Len(p.down)]
    BY <2>1, ConcatProperties
  <2> HIDE DEF d
  <2>3. /\ \A i \in 1..Len(p.down) : d[i] = p.down[i]
        /\ \A i \in Len(p.down) + 1..Len(p.down) + Len(f) : d[i] = f[i - Len(p.down)]
    <3> DEFINE l == Len(p.down)
               m == Len(f)
    <3>1. l \in Nat /\ m \in Nat /\ \A i \in 1..l + m : d[i] = IF i <= l THEN p.down[i] ELSE f[i - l]
      BY <2>1, <2>2, <2>5
    <3> HIDE DEF l, m
    <3>2. /\ \A i \in 1..l : d[i] = p.down[i]
          /\ \A i \in l + 1..l + m : d[i] = f[i - l]
      BY <3>1
    <3> QED
      BY <3>2 DEF l, m
  <2>6. d[Len(p.down) + 1] = f[1] /\ d[Len(p.down) + 2] = f[2]
    <3> DEFINE l == Len(p.down)
    <3>1. l \in Nat /\ \A i \in l + 1..l + 2 : d[i] = f[i - l]
      BY <2>1, <2>3, <2>5
    <3> HIDE DEF l
    <3>2. l + 1 - l = 1 /\ l + 2 - l = 2 /\ l + 1 \in l + 1..l + 2 /\ l + 2 \in l + 1..l + 2
      BY <3>1
    <3>3. d[l + 1] = f[1] /\ d[l + 2] = f[2]
      BY <3>1, <3>2
    <3> QED
      BY <3>3 DEF l
  <2> QED
    BY <2>1, <2>2, <2>3, <2>4, <2>5, <2>6
<1> HIDE DEF d
<1>7. /\ q.up = (IF open THEN t ELSE <<>>) /\ q.down = (IF p.cOpen THEN d ELSE p.down)
      /\ q.cOpen = p.cOpen /\ q.sOpen = open /\ q.late = p.late
      /\ q = [up |-> IF open THEN t ELSE <<>>, down |-> IF p.cOpen THEN d ELSE p.down,
              cOpen |-> p.cOpen, sOpen |-> open, late |-> p.late]
  BY DEF d, t, f, r
<1>8. q \in Connection
  <2>1. (IF open THEN t ELSE <<>>) \in Seq(Request)
    BY <1>4
  <2>2. (IF p.cOpen THEN d ELSE p.down) \in Seq(Part)
    BY <1>1, <1>6
  <2> QED
    BY <1>1, <1>7, <2>1, <2>2 DEF Connection
<1>9. ASSUME NEW w \in Nat, NotNewer(p, w) PROVE NotNewer(q, w)
  <2>1. r <= w
    BY <1>2, <1>3, <1>9 DEF NotNewer
  <2>2. ASSUME NEW i \in 1..Len(q.up) PROVE q.up[i].req <= w
    <3>1. open
      BY <1>7, <2>2
    <3>2. q.up = t /\ t[i] = p.up[i + 1] /\ i + 1 \in 1..Len(p.up)
      BY <1>4, <1>7, <2>2, <3>1
    <3> QED
      BY <1>9, <3>2 DEF NotNewer
  <2>3. ASSUME NEW i \in 1..Len(q.down) PROVE q.down[i].req <= w
    <3>1. CASE ~p.cOpen
      BY <1>1, <1>7, <1>9, <2>3, <3>1 DEF NotNewer
    <3>2. CASE p.cOpen
      <4>1. q.down = d
        BY <1>7, <3>2
      <4> DEFINE l == Len(p.down)
      <4>2. l \in Nat /\ i \in 1..l + 2
        BY <1>6, <2>3, <4>1
      <4> HIDE DEF l
      <4>3. i \in 1..l \/ i = l + 1 \/ i = l + 2
        BY <4>2
      <4>4. CASE i \in 1..l
        BY <1>6, <1>9, <4>1, <4>4 DEF NotNewer, l
      <4>5. CASE i = l + 1
        BY <1>5, <1>6, <2>1, <4>1, <4>5 DEF l
      <4>6. CASE i = l + 2
        BY <1>5, <1>6, <2>1, <4>1, <4>6 DEF l
      <4> QED
        BY <4>3, <4>4, <4>5, <4>6
    <3> QED
      BY <1>1, <3>1, <3>2
  <2> QED
    BY <2>2, <2>3 DEF NotNewer
<1>10. Sound(q, n)
  <2>1. NotNewer(q, n)
    BY <1>9 DEF Sound
  <2> QED
    BY <1>7, <2>1 DEF Sound
<1>11. ASSUME NEW w \in Nat, NEW mid \in BOOLEAN, p.cOpen, ~p.late, Clean(p, w, mid)
       PROVE  Clean(q, w, mid)
  <2>1. w # 0 /\ Len(p.up) = 1 /\ r = w /\ p.down = <<>> /\ ~mid
    BY <1>3, <1>11 DEF Clean
  <2>2. t = <<>>
    BY <1>4, <2>1
  <2>3. q.up = <<>> /\ q.down = <<HeadOf(w), BodyOf(w)>>
    BY <1>5, <1>6, <1>7, <1>11, <2>1, <2>2
  <2> QED
    BY <2>1, <2>3 DEF Clean
<1>12. ASSUME NEW w \in Nat, NEW mid \in BOOLEAN, NEW g \in [req : Nat, answer : Nat], Fine(p, w, mid, g)
       PROVE  Fine(q, w, mid, g)
  <2>1. q.cOpen /\ (w # 0 => NotNewer(q, w))
    BY <1>7, <1>9, <1>12 DEF Fine
  <2>2. ~q.late => Clean(q, w, mid)
    BY <1>7, <1>11, <1>12 DEF Fine
  <2> QED
    BY <1>7, <1>12, <2>1, <2>2 DEF Fine
<1> QED
  BY <1>8, <1>10, <1>12

LEMMA ServeKeeps ==
    ASSUME StreamTyped, Streams, NEW k \in DOMAIN conns, Serve(k) PROVE StreamTyped' /\ Streams'
<1> DEFINE p == conns[k]
           q(open) == [up |-> IF open THEN Tail(p.up) ELSE <<>>,
                       down |-> IF p.cOpen THEN p.down \o Frame(Head(p.up).req) ELSE p.down,
                       cOpen |-> p.cOpen, sOpen |-> open, late |-> p.late]
<1>1. /\ k \in 1..Len(conns) /\ p \in Connection /\ p.up # <<>> /\ Sound(p, sent)
      /\ sent \in Nat /\ Len(conns) \in Nat /\ UNCHANGED clientVars
  BY DEF StreamTyped, Streams, Serve
<1>2. PICK open \in BOOLEAN : conns' = [conns EXCEPT ![k] = q(open)]
  <2> DEFINE last == Head(p.up).kind = "shutdown"
  <2>2. \E sends \in {TRUE, p.cOpen} : conns' = [conns EXCEPT ![k] = q(sends /\ ~last)]
    BY DEF Serve
  <2> HIDE DEF last, q
  <2>3. \A sends : (sends /\ ~last) \in BOOLEAN
    OBVIOUS
  <2> QED
    BY <2>2, <2>3
<1>3. /\ q(open) \in Connection /\ Sound(q(open), sent)
      /\ \A w \in Nat, mid \in BOOLEAN, g \in [req : Nat, answer : Nat] :
            Fine(p, w, mid, g) => Fine(q(open), w, mid, g)
  BY <1>1, Answered
<1> HIDE DEF q
<1>4. /\ conns' \in Seq(Connection) /\ Len(conns') = Len(conns) /\ conns'[k] = q(open)
      /\ \A j \in 1..Len(conns) : j # k => conns'[j] = conns[j]
  BY <1>1, <1>2, <1>3 DEF StreamTyped
<1>5. ASSUME NEW j \in 1..Len(conns)
      PROVE  /\ Sound(conns'[j], sent)
             /\ \A w \in Nat, mid \in BOOLEAN, g \in [req : Nat, answer : Nat] :
                   Fine(conns[j], w, mid, g) => Fine(conns'[j], w, mid, g)
  <2>1. CASE j = k
    BY <1>3, <1>4, <2>1
  <2>2. CASE j # k
    BY <1>4, <2>2 DEF Streams
  <2> QED
    BY <2>1, <2>2
<1> QED
  BY <1>1, <1>4, <1>5, ByServer

\* What the end of the server makes of a connection.
LEMMA CutShort ==
    ASSUME NEW p \in Connection, NEW n \in Nat, Sound(p, n), NEW l \in 0..Len(p.down),
           NEW q, q = [up |-> <<>>, down |-> SubSeq(p.down, 1, l),
                       cOpen |-> p.cOpen, sOpen |-> FALSE, late |-> p.late]
    PROVE  /\ q \in Connection /\ Sound(q, n)
           /\ \A w \in Nat, mid \in BOOLEAN, g \in [req : Nat, answer : Nat] :
                 Fine(p, w, mid, g) => Fine(q, w, mid, g)
<1> DEFINE d == SubSeq(p.down, 1, l)
<1>1. /\ p.up \in Seq(Request) /\ p.down \in Seq(Part) /\ p.cOpen \in BOOLEAN /\ p.late \in BOOLEAN
      /\ Len(p.down) \in Nat
  BY DEF Connection
<1>2. d \in Seq(Part) /\ Len(d) = l /\ l \in Nat /\ \A i \in 1..l : d[i] = p.down[i] /\ i \in 1..Len(p.down)
  <2>1. \A i \in 1..l : p.down[i] \in Part
    BY <1>1
  <2> QED
    BY <1>1, <2>1
<1>3. q.up = <<>> /\ q.down = d /\ q.cOpen = p.cOpen /\ q.sOpen = FALSE /\ q.late = p.late
  OBVIOUS
<1>4. q \in Connection
  <2>1. <<>> \in Seq(Request)
    OBVIOUS
  <2> QED
    BY <1>1, <1>2, <2>1 DEF Connection
<1> HIDE DEF d
<1>5. ASSUME NEW w \in Nat, NotNewer(p, w) PROVE NotNewer(q, w)
  BY <1>2, <1>3, <1>5 DEF NotNewer
<1>6. Sound(q, n)
  BY <1>3, <1>5 DEF Sound
<1>7. ASSUME NEW w \in Nat, NEW mid \in BOOLEAN, Clean(p, w, mid) PROVE Clean(q, w, mid)
  <2>1. CASE p.down = <<>>
    <3>1. Len(d) = 0
      BY <1>2, <2>1
    <3>2. d = <<>>
      BY <1>2, <3>1
    <3> QED
      BY <1>3, <3>2 DEF Clean
  <2>2. CASE mid /\ p.down = <<BodyOf(w)>> /\ w # 0
    <3>1. l \in {0, 1}
      BY <2>2
    <3>2. d = <<>> \/ d = <<BodyOf(w)>>
      BY <1>2, <2>2, <3>1
    <3> QED
      BY <1>3, <2>2, <3>2 DEF Clean
  <2>3. CASE ~mid /\ p.down = <<HeadOf(w)>> /\ w # 0
    <3>1. l \in {0, 1}
      BY <2>3
    <3>2. d = <<>> \/ d = <<HeadOf(w)>>
      BY <1>2, <2>3, <3>1
    <3> QED
      BY <1>3, <2>3, <3>2 DEF Clean
  <2>4. CASE ~mid /\ p.down = <<HeadOf(w), BodyOf(w)>> /\ w # 0
    <3>1. l \in {0, 1, 2}
      BY <2>4
    <3>2. d = <<>> \/ d = <<HeadOf(w)>> \/ d = <<HeadOf(w), BodyOf(w)>>
      BY <1>2, <2>4, <3>1
    <3> QED
      BY <1>3, <2>4, <3>2 DEF Clean
  <2> QED
    BY <1>7, <2>1, <2>2, <2>3, <2>4 DEF Clean
<1>8. ASSUME NEW w \in Nat, NEW mid \in BOOLEAN, NEW g \in [req : Nat, answer : Nat], Fine(p, w, mid, g)
      PROVE  Fine(q, w, mid, g)
  <2>1. q.cOpen /\ (w # 0 => NotNewer(q, w))
    BY <1>3, <1>5, <1>8 DEF Fine
  <2>2. ~q.late => Clean(q, w, mid)
    BY <1>3, <1>7, <1>8 DEF Fine
  <2> QED
    BY <1>3, <1>8, <2>1, <2>2 DEF Fine
<1> QED
  BY <1>4, <1>6, <1>8

LEMMA ServeRaisesKeeps ==
    ASSUME StreamTyped, Streams, NEW k \in DOMAIN conns, ServeRaises(k) PROVE StreamTyped' /\ Streams'
<1> DEFINE p == conns[k]
           q == [up |-> <<>>, down |-> SubSeq(p.down, 1, Len(p.down)),
                 cOpen |-> p.cOpen, sOpen |-> FALSE, late |-> p.late]
<1>1. /\ k \in 1..Len(conns) /\ p \in Connection /\ Sound(p, sent)
      /\ sent \in Nat /\ Len(conns) \in Nat /\ UNCHANGED clientVars
  BY DEF StreamTyped, Streams, ServeRaises
<1>2. p.down \in Seq(Part) /\ Len(p.down) \in 0..Len(p.down)
  BY <1>1 DEF Connection
<1>3. SubSeq(p.down, 1, Len(p.down)) = p.down
  <2> DEFINE d == p.down
  <2>1. d \in Seq(Part) /\ Len(d) \in Nat
    BY <1>2
  <2> HIDE DEF d
  <2>2. SubSeq(d, 1, Len(d)) = d
    BY <2>1
  <2> QED
    BY <2>2 DEF d
<1>4. conns' = [conns EXCEPT ![k] = q]
  BY <1>3 DEF ServeRaises
<1>5. /\ q \in Connection /\ Sound(q, sent)
      /\ \A w \in Nat, mid \in BOOLEAN, g \in [req : Nat, answer : Nat] :
            Fine(p, w, mid, g) => Fine(q, w, mid, g)
  BY <1>1, <1>2, CutShort
<1> HIDE DEF q
<1>6. /\ conns' \in Seq(Connection) /\ Len(conns') = Len(conns) /\ conns'[k] = q
      /\ \A j \in 1..Len(conns) : j # k => conns'[j] = conns[j]
  BY <1>1, <1>4, <1>5 DEF StreamTyped
<1>7. ASSUME NEW j \in 1..Len(conns)
      PROVE  /\ Sound(conns'[j], sent)
             /\ \A w \in Nat, mid \in BOOLEAN, g \in [req : Nat, answer : Nat] :
                   Fine(conns[j], w, mid, g) => Fine(conns'[j], w, mid, g)
  <2>1. CASE j = k
    BY <1>5, <1>6, <2>1
  <2>2. CASE j # k
    BY <1>6, <2>2 DEF Streams
  <2> QED
    BY <2>1, <2>2
<1> QED
  BY <1>1, <1>6, <1>7, ByServer

LEMMA DieKeeps ==
    ASSUME StreamTyped, Streams, Die PROVE StreamTyped' /\ Streams'
<1> DEFINE q(p, l) == [up |-> <<>>, down |-> SubSeq(p.down, 1, Len(p.down) - l),
                       cOpen |-> p.cOpen, sOpen |-> FALSE, late |-> p.late]
<1>1. PICK lost \in [DOMAIN conns -> 0..2 * MaxRequests] :
         /\ \A k \in DOMAIN conns : lost[k] <= Len(conns[k].down)
         /\ conns' = [k \in DOMAIN conns |-> q(conns[k], lost[k])]
  BY DEF Die
<1>2. DOMAIN conns = 1..Len(conns) /\ Len(conns) \in Nat /\ sent \in Nat /\ MaxRequests \in Nat
  BY SandboxAssumption DEF StreamTyped
<1>3. ASSUME NEW k \in 1..Len(conns)
      PROVE  LET r == q(conns[k], lost[k]) IN
             /\ r \in Connection /\ Sound(r, sent)
             /\ \A w \in Nat, mid \in BOOLEAN, g \in [req : Nat, answer : Nat] :
                   Fine(conns[k], w, mid, g) => Fine(r, w, mid, g)
  <2>1. conns[k] \in Connection /\ Sound(conns[k], sent)
    BY DEF StreamTyped, Streams
  <2>2. Len(conns[k].down) \in Nat
    BY <2>1, OnConnection
  <2>3. lost[k] \in Nat /\ lost[k] <= Len(conns[k].down)
    BY <1>1, <1>2
  <2>4. Len(conns[k].down) - lost[k] \in 0..Len(conns[k].down)
    BY <2>2, <2>3
  <2> QED
    BY <1>2, <2>1, <2>4, CutShort
<1> HIDE DEF q
<1>4. /\ conns' \in Seq(Connection) /\ Len(conns') = Len(conns)
      /\ \A k \in 1..Len(conns) : conns'[k] = q(conns[k], lost[k])
  BY <1>1, <1>2, <1>3
<1>5. UNCHANGED clientVars
  BY DEF Die
<1> QED
  BY <1>3, <1>4, <1>5, ByServer

LEMMA StreamStep ==
    ASSUME StreamTyped, Streams, [Next]_vars PROVE StreamTyped' /\ Streams'
<1>1. ASSUME UNCHANGED <<conns, clientVars>> PROVE StreamTyped' /\ Streams'
  BY <1>1 DEF StreamTyped, Streams, clientVars
<1>2. CASE UNCHANGED vars
  BY <1>1, <1>2 DEF vars
<1>3. CASE Restart
  BY <1>1, <1>3 DEF Restart
<1>4. CASE Crash
  BY <1>4, DieKeeps DEF Crash
<1>5. CASE \E k \in DOMAIN conns : Serve(k) \/ ServeRaises(k) \/ CrashServing(k)
  BY <1>5, ServeKeeps, ServeRaisesKeeps, DieKeeps DEF CrashServing
<1>6. CASE \E c \in Client : Connect(c) \/ Close(c) \/ Timeout(c) \/ ClientRead(c)
  BY <1>6, ConnectKeeps, CloseKeeps, TimeoutKeeps, ReadHeadKeeps, ReadBodyKeeps, MisreadKeeps, LostKeeps
     DEF ClientRead
<1>7. CASE \E c \in Client : \E kind \in Kind : Send(c, kind)
  BY <1>7, SendKeeps
<1> QED
  BY <1>2, <1>3, <1>4, <1>5, <1>6, <1>7 DEF Next

LEMMA StreamInit == ASSUME Init PROVE StreamTyped /\ Streams
<1>1. conns = <<>> /\ Len(conns) = 0 /\ conns \in Seq(Connection) /\ sent = 0 /\ sent \in Nat
  BY DEF Init
<1>2. \A c \in Client : link[c] = 0 /\ waiting[c] = 0 /\ got[c] = Nothing
  BY DEF Init
<1>3. StreamTyped
  BY <1>1, NothingIsFine DEF Init, StreamTyped
<1>4. Streams
  BY <1>1, <1>2 DEF Streams
<1> QED
  BY <1>3, <1>4

LEMMA StreamsHold == Spec => [](StreamTyped /\ Streams)
<1>1. Init => StreamTyped /\ Streams
  BY StreamInit
<1>2. (StreamTyped /\ Streams) /\ [Next]_vars => (StreamTyped /\ Streams)'
  BY StreamStep
<1> QED
  BY <1>1, <1>2, PTL DEF Spec

\* On a connection no call was given up on, a response is the one to its call,
\* and no call ever gets the response to a later one (client.py:execute,
\* transport.py:send_and_receive).
THEOREM AnswersAreOnesOwn == Spec => []OwnAnswerUntilTimeout
<1>1. StreamTyped /\ Streams => OwnAnswerUntilTimeout
  <2> SUFFICES ASSUME StreamTyped, Streams, NEW c \in Client
               PROVE  /\ got[c].answer # got[c].req => Conn(c).late
                      /\ got[c].answer <= got[c].req
    BY DEF OwnAnswerUntilTimeout
  <2>1. CASE link[c] = 0
    <3>1. got[c] = Nothing
      BY <2>1 DEF Streams
    <3>2. Nothing.answer <= Nothing.req /\ Nothing.answer = Nothing.req
      BY NothingIsFine
    <3> QED
      BY <3>1, <3>2
  <2>2. CASE link[c] # 0
    BY <2>2, OwnConnection DEF Fine
  <2> QED
    BY <2>1, <2>2
<1> QED
  BY <1>1, StreamsHold, PTL
-----------------------------------------------------------------------------
(* What record() has taken stays in the history. *)

Entry == [id : Nat, req : Nat, whole : BOOLEAN, nl : BOOLEAN]

\* Line k of the file h is read back by _load_from_disk().
Loads(h, k) ==
    /\ k \in 1..Len(h) /\ h[k].whole
    /\ k = 1 \/ h[k - 1].nl
    /\ h[k].nl \/ k = Len(h)

Readable(h) ==
    /\ h \in Seq(Entry)
    /\ \A k \in 1..Len(h) : h[k].id <= Len(h)
    /\ \A j, k \in 1..Len(h) : Loads(h, j) /\ Loads(h, k) /\ h[j].id = h[k].id => j = k

Below(h, n) == \A k \in 1..Len(h) : Loads(h, k) => h[k].id < n
Written(h, r) == \E k \in 1..Len(h) : h[k].req = r /\ h[k].whole /\ h[k].nl
Spoilt(h, r) == \E k \in 1..Len(h) : k > 1 /\ ~h[k - 1].nl /\ h[k].req = r

\* No two lines that load have one id, and while the server is up no id is
\* given out again; what was recorded is a whole line of the file.
Lines ==
    /\ Readable(file) /\ nextId \in Nat /\ nextId <= Len(file) + 1
    /\ \A r \in logged : Written(file, r)
    /\ up => /\ Below(file, nextId)
             /\ \A id \in DOMAIN cells : id \in Nat /\ id < nextId
             /\ \A r \in logged : (\E id \in DOMAIN cells : cells[id] = r) \/ Spoilt(file, r)

LEMMA AppendFacts ==
    ASSUME NEW h \in Seq(Entry), NEW e \in Entry
    PROVE  /\ Append(h, e) \in Seq(Entry) /\ Len(Append(h, e)) = Len(h) + 1 /\ Len(h) \in Nat
           /\ Append(h, e)[Len(h) + 1] = e
           /\ \A k \in 1..Len(h) : Append(h, e)[k] = h[k]
  OBVIOUS

LEMMA Appended ==
    ASSUME NEW h, Readable(h), NEW n \in Nat, n <= Len(h) + 1, Below(h, n),
           NEW e \in Entry, e.id = n, NEW a, a = Append(h, e)
    PROVE  /\ Readable(a) /\ Below(a, n + 1) /\ Len(a) = Len(h) + 1 /\ Len(h) \in Nat
           /\ \A r : Written(h, r) => Written(a, r)
           /\ \A r : Spoilt(h, r) => Spoilt(a, r)
           /\ e.whole /\ e.nl => Written(a, e.req)
<1> DEFINE l == Len(h)
           m == l + 1
<1>1. /\ h \in Seq(Entry) /\ a \in Seq(Entry) /\ Len(a) = m /\ l \in Nat /\ a[m] = e
      /\ \A k \in 1..l : a[k] = h[k] /\ h[k] \in Entry /\ h[k].id \in Nat /\ h[k].id <= l
  <2>1. h \in Seq(Entry) /\ \A k \in 1..l : h[k].id <= l
    BY DEF Readable
  <2>2. \A k \in 1..l : h[k] \in Entry
    BY <2>1
  <2> QED
    BY <2>1, <2>2, AppendFacts DEF Entry
<1> HIDE DEF l
<1>2. l = Len(h) /\ m \in Nat /\ m \in 1..m /\ l <= m /\ l # m /\ \A k \in 1..m : k \in 1..l \/ k = m
  BY <1>1 DEF l
<1> HIDE DEF m
<1>3. \A k \in 1..l : k \in 1..m /\ k # m /\ k \in Nat
  BY <1>1, <1>2
<1>4. ASSUME NEW k \in 1..l, Loads(a, k) PROVE Loads(h, k)
  <2>1. a[k] = h[k] /\ k # m /\ k \in Nat
    BY <1>1, <1>3
  <2>2. k = 1 \/ k - 1 \in 1..l
    BY <1>1
  <2>3. k = 1 \/ a[k - 1] = h[k - 1]
    BY <1>1, <2>2
  <2> QED
    BY <1>1, <1>2, <1>4, <2>1, <2>3 DEF Loads
<1>5. \A k \in 1..m : a[k].id <= m
  BY <1>1, <1>2
<1>6. ASSUME NEW k \in 1..l, Loads(a, k) PROVE a[k].id < n
  BY <1>1, <1>2, <1>4, <1>6 DEF Below
<1>7. ASSUME NEW j \in 1..m, NEW k \in 1..m, Loads(a, j), Loads(a, k), a[j].id = a[k].id PROVE j = k
  <2>1. CASE j \in 1..l /\ k \in 1..l
    <3>1. Loads(h, j) /\ Loads(h, k) /\ h[j].id = h[k].id
      BY <1>1, <1>4, <1>7, <2>1
    <3> QED
      BY <1>2, <2>1, <3>1 DEF Readable
  <2>2. CASE j = m /\ k \in 1..l
    BY <1>1, <1>6, <1>7, <2>2
  <2>3. CASE k = m /\ j \in 1..l
    BY <1>1, <1>6, <1>7, <2>3
  <2> QED
    BY <1>2, <2>1, <2>2, <2>3
<1>8. Readable(a)
  BY <1>1, <1>5, <1>7 DEF Readable
<1>9. ASSUME NEW k \in 1..Len(a), Loads(a, k) PROVE a[k].id < n + 1
  <2>1. CASE k \in 1..l
    BY <1>1, <1>6, <1>9, <2>1
  <2>2. CASE k = m
    BY <1>1, <2>2
  <2> QED
    BY <1>1, <1>2, <2>1, <2>2
<1>10. Below(a, n + 1)
  BY <1>9 DEF Below
<1>11. ASSUME NEW r, Written(h, r) PROVE Written(a, r)
  BY <1>1, <1>2, <1>3, <1>11 DEF Written
<1>12. ASSUME NEW r, Spoilt(h, r) PROVE Spoilt(a, r)
  <2>1. PICK k \in 1..l : k > 1 /\ ~h[k - 1].nl /\ h[k].req = r
    BY <1>2, <1>12 DEF Spoilt
  <2>2. k - 1 \in 1..l
    BY <1>1, <2>1
  <2>3. k \in 1..m /\ a[k] = h[k] /\ a[k - 1] = h[k - 1]
    BY <1>1, <1>3, <2>2
  <2> QED
    BY <1>1, <2>1, <2>3 DEF Spoilt
<1>13. e.whole /\ e.nl => Written(a, e.req)
  BY <1>1, <1>2 DEF Written
<1>14. Len(a) = Len(h) + 1 /\ Len(h) \in Nat
  BY <1>1, <1>2 DEF m
<1> QED
  BY <1>8, <1>10, <1>11, <1>12, <1>13, <1>14

LEMMA MaxOf ==
    ASSUME NEW S \in SUBSET Nat, S # {}, NEW n \in Nat, \A s \in S : s <= n
    PROVE  Max(S) \in S /\ \A s \in S : s <= Max(S)
<1> DEFINE Less == OpToRel(<, Nat)
           U == {b \in Nat : \A s \in S : s <= b}
<1>1. IsWellFoundedOn(Less, Nat)
  BY NatLessThanWellFounded
<1>2. U \subseteq Nat /\ U # {}
  OBVIOUS
<1>3. \A x, y \in Nat : y < x => <<y, x>> \in Less
  BY DEF OpToRel
<1> HIDE DEF Less
<1>4. PICK b \in U : \A c \in U : ~ (<<c, b>> \in Less)
  BY <1>1, <1>2, WFMin
<1>5. \A c \in U : ~(c < b)
  BY <1>2, <1>3, <1>4
<1>6. b \in Nat /\ \A s \in S : s \in Nat /\ b >= s
  OBVIOUS
<1>7. b \in S
  <2> SUFFICES ASSUME b \notin S PROVE FALSE
    OBVIOUS
  <2>1. \A s \in S : s < b /\ s <= b - 1
    BY <1>6
  <2>2. b - 1 \in Nat
    <3>1. PICK s \in S : s \in Nat /\ s < b
      BY <1>6, <2>1
    <3> QED
      BY <1>6, <3>1
  <2>3. b - 1 \in U
    BY <2>1, <2>2
  <2> QED
    BY <1>5, <1>6, <2>3
<1> QED
  BY <1>6, <1>7 DEF Max

LEMMA EntryFacts ==
    ASSUME NEW id \in Nat, NEW r \in Nat, NEW whole \in BOOLEAN, NEW nl \in BOOLEAN
    PROVE  LET e == Piece(id, r, whole, nl) IN
           e \in Entry /\ e.id = id /\ e.req = r /\ e.whole = whole /\ e.nl = nl
  BY DEF Piece, Entry

LEMMA RecordKeeps ==
    ASSUME Lines, up, NEW r \in Nat, Record(r), UNCHANGED up, logged' = logged \cup {r} PROVE Lines'
<1> DEFINE e == Piece(nextId, r, TRUE, TRUE)
<1>1. /\ file' = Append(file, e) /\ nextId' = nextId + 1
      /\ cells' = [id \in DOMAIN cells \cup {nextId} |-> IF id = nextId THEN r ELSE cells[id]]
  BY DEF Record
<1>2. /\ Readable(file) /\ nextId \in Nat /\ nextId <= Len(file) + 1 /\ Below(file, nextId)
      /\ \A id \in DOMAIN cells : id \in Nat /\ id < nextId
  BY DEF Lines
<1>3. e \in Entry /\ e.id = nextId /\ e.req = r /\ e.whole /\ e.nl
  BY <1>2, EntryFacts
<1> HIDE DEF e
<1>4. /\ Readable(file') /\ Below(file', nextId') /\ Len(file') = Len(file) + 1 /\ Len(file) \in Nat
      /\ \A q : Written(file, q) => Written(file', q)
      /\ \A q : Spoilt(file, q) => Spoilt(file', q)
      /\ Written(file', r)
  BY <1>1, <1>2, <1>3, Appended
<1>5. nextId' \in Nat /\ nextId' <= Len(file') + 1
  BY <1>1, <1>2, <1>4
<1>6. ASSUME NEW q \in logged' PROVE Written(file', q)
  BY <1>4, <1>6 DEF Lines
<1>7. ASSUME NEW id \in DOMAIN cells' PROVE id \in Nat /\ id < nextId'
  BY <1>1, <1>2, <1>7
<1>8. ASSUME NEW q \in logged' PROVE (\E id \in DOMAIN cells' : cells'[id] = q) \/ Spoilt(file', q)
  <2>1. cells'[nextId] = r /\ nextId \in DOMAIN cells'
    BY <1>1
  <2>2. CASE q = r
    BY <2>1, <2>2
  <2>3. CASE q \in logged
    <3>1. CASE Spoilt(file, q)
      BY <1>4, <3>1
    <3>2. CASE \E id \in DOMAIN cells : cells[id] = q
      <4>1. PICK id \in DOMAIN cells : cells[id] = q
        BY <3>2
      <4>2. id # nextId
        BY <1>2, <4>1
      <4>3. id \in DOMAIN cells' /\ cells'[id] = q
        BY <1>1, <4>1, <4>2
      <4> QED
        BY <4>3
    <3> QED
      BY <2>3, <3>1, <3>2 DEF Lines
  <2> QED
    BY <1>8, <2>2, <2>3
<1> QED
  BY <1>4, <1>5, <1>6, <1>7, <1>8 DEF Lines

LEMMA TornKeeps ==
    ASSUME Lines, up, NEW r \in Nat, Torn(r), ~up', UNCHANGED logged PROVE Lines'
<1>1. CASE UNCHANGED file
  BY <1>1 DEF Torn, Lines
<1>2. CASE \E whole \in BOOLEAN : file' = Append(file, Piece(nextId, r, whole, FALSE))
  <2>1. PICK whole \in BOOLEAN : file' = Append(file, Piece(nextId, r, whole, FALSE))
    BY <1>2
  <2> DEFINE e == Piece(nextId, r, whole, FALSE)
  <2>2. Readable(file) /\ nextId \in Nat /\ nextId <= Len(file) + 1 /\ Below(file, nextId)
    BY DEF Lines
  <2>3. e \in Entry /\ e.id = nextId
    BY <2>2, EntryFacts
  <2> HIDE DEF e
  <2>4. file' = Append(file, e) /\ nextId' = nextId
    BY <2>1 DEF Torn, e
  <2>5. /\ Readable(file') /\ Len(file') = Len(file) + 1 /\ Len(file) \in Nat
        /\ \A q : Written(file, q) => Written(file', q)
    BY <2>2, <2>3, <2>4, Appended
  <2>6. nextId' <= Len(file') + 1
    BY <2>2, <2>4, <2>5
  <2> QED
    BY <2>2, <2>4, <2>5, <2>6 DEF Lines
<1> QED
  BY <1>1, <1>2 DEF Torn

LEMMA LoadKeeps ==
    ASSUME Lines, Load, UNCHANGED logged PROVE Lines'
<1> DEFINE good == {k \in DOMAIN file : Loadable(k)}
           ids == {file[k].id : k \in good}
           of(id) == {k \in good : file[k].id = id}
<1>1. /\ file \in Seq(Entry) /\ Len(file) \in Nat /\ DOMAIN file = 1..Len(file)
      /\ \A k \in 1..Len(file) : file[k] \in Entry /\ file[k].id \in Nat /\ file[k].id <= Len(file)
  <2>1. /\ file \in Seq(Entry) /\ Len(file) \in Nat /\ DOMAIN file = 1..Len(file)
        /\ \A k \in 1..Len(file) : file[k].id <= Len(file)
    BY DEF Lines, Readable
  <2>2. \A k \in 1..Len(file) : file[k] \in Entry
    BY <2>1
  <2> QED
    BY <2>1, <2>2 DEF Entry
<1>2. \A k : k \in good <=> Loads(file, k)
  BY <1>1 DEF Loads, Loadable
<1>3. /\ cells' = [id \in ids |-> file[Max(of(id))].req]
      /\ nextId' = Max({0} \cup ids) + 1 /\ file' = file
  BY DEF Load
<1>4. good \subseteq 1..Len(file)
  BY <1>1
<1> HIDE DEF good
<1>5. ids \subseteq Nat /\ \A id \in ids : id <= Len(file)
  BY <1>1, <1>4
<1>6. \A k \in good : file[k].id \in ids
  OBVIOUS
<1>7. ASSUME NEW k \in good PROVE of(file[k].id) = {k}
  <2>1. \A j \in of(file[k].id) : j = k
    BY <1>2, <1>4 DEF Lines, Readable
  <2>2. k \in of(file[k].id)
    OBVIOUS
  <2> QED
    BY <2>1, <2>2
<1> HIDE DEF of
<1>8. /\ Max({0} \cup ids) \in Nat /\ Max({0} \cup ids) <= Len(file)
      /\ \A id \in ids : id <= Max({0} \cup ids)
  <2> DEFINE S == {0} \cup ids
  <2>1. S \in SUBSET Nat /\ S # {} /\ \A s \in S : s <= Len(file)
    BY <1>1, <1>5
  <2>2. \A id \in ids : id \in S
    OBVIOUS
  <2> HIDE DEF S
  <2>3. Max(S) \in S /\ \A s \in S : s <= Max(S)
    BY <1>1, <2>1, MaxOf
  <2>4. Max(S) \in Nat /\ Max(S) <= Len(file) /\ \A id \in ids : id <= Max(S)
    BY <2>1, <2>2, <2>3
  <2> QED
    BY <2>4 DEF S
<1> HIDE DEF ids
<1>9. nextId' \in Nat /\ nextId' <= Len(file') + 1
  <2> DEFINE M == Max({0} \cup ids)
  <2>1. M \in Nat /\ M <= Len(file) /\ nextId' = M + 1
    BY <1>3, <1>8
  <2> HIDE DEF M
  <2> QED
    BY <1>1, <1>3, <2>1
<1>10. \A id \in ids : id \in Nat /\ id < nextId'
  <2> DEFINE M == Max({0} \cup ids)
  <2>1. M \in Nat /\ nextId' = M + 1 /\ \A id \in ids : id \in Nat /\ id <= M
    BY <1>3, <1>5, <1>8
  <2> HIDE DEF M
  <2> QED
    BY <2>1
<1>11. Below(file', nextId')
  BY <1>2, <1>3, <1>6, <1>10 DEF Below
<1>12. \A id \in DOMAIN cells' : id \in Nat /\ id < nextId'
  BY <1>3, <1>10
<1>13. ASSUME NEW r \in logged' PROVE (\E id \in DOMAIN cells' : cells'[id] = r) \/ Spoilt(file', r)
  <2>1. PICK k \in 1..Len(file) : file[k].req = r /\ file[k].whole /\ file[k].nl
    BY <1>13 DEF Lines, Written
  <2>2. CASE k = 1 \/ file[k - 1].nl
    <3>1. k \in good
      BY <1>2, <2>1, <2>2 DEF Loads
    <3>2. Max(of(file[k].id)) = k
      <4>1. {k} \in SUBSET Nat /\ {k} # {} /\ \A s \in {k} : s <= Len(file)
        BY <1>1
      <4>2. Max({k}) \in {k}
        BY <1>1, <4>1, MaxOf
      <4> QED
        BY <1>7, <3>1, <4>2
    <3>3. file[k].id \in DOMAIN cells' /\ cells'[file[k].id] = r
      BY <1>3, <1>6, <2>1, <3>1, <3>2
    <3> QED
      BY <3>3
  <2>3. CASE k # 1 /\ ~file[k - 1].nl
    <3>1. k > 1
      BY <1>1, <2>3
    <3> QED
      BY <1>3, <2>1, <2>3, <3>1 DEF Spoilt
  <2> QED
    BY <2>2, <2>3
<1> QED
  BY <1>3, <1>9, <1>11, <1>12, <1>13 DEF Lines

\* The request at the front of a connection is a number.
LEMMA FrontRequest ==
    ASSUME StreamTyped, NEW k \in DOMAIN conns, conns[k].up # <<>>
    PROVE  Head(conns[k].up).req \in Nat
<1>1. conns[k] \in Connection
  BY DEF StreamTyped
<1>2. conns[k].up \in Seq(Request)
  BY <1>1, OnConnection
<1>3. Head(conns[k].up) \in Request
  BY <1>2
<1> QED
  BY <1>3 DEF Request

LEMMA LineStep ==
    ASSUME StreamTyped, Lines, [Next]_vars PROVE Lines'
<1>1. ASSUME UNCHANGED <<logged, historyVars>>, up' => up PROVE Lines'
  BY <1>1 DEF Lines, historyVars
<1>2. ASSUME UNCHANGED serverVars PROVE Lines'
  BY <1>1, <1>2 DEF serverVars
<1>3. CASE UNCHANGED vars
  BY <1>2, <1>3 DEF vars
<1>4. CASE \E c \in Client : \/ Connect(c) \/ Close(c) \/ (\E kind \in Kind : Send(c, kind))
                             \/ Timeout(c) \/ ClientRead(c)
  BY <1>2, <1>4 DEF Connect, Close, Send, Timeout, ClientRead, ReadHead, ReadBody, Misread, Lost
<1>5. CASE \E k \in DOMAIN conns : Serve(k)
  <2>1. PICK k \in DOMAIN conns : Serve(k)
    BY <1>5
  <2> DEFINE m == Head(conns[k].up)
  <2>2. up /\ UNCHANGED up /\ RecordIt(m) /\ m.req \in Nat
    BY <2>1, FrontRequest DEF Serve
  <2> HIDE DEF m
  <2>3. CASE UNCHANGED <<logged, historyVars>>
    BY <1>1, <2>2, <2>3
  <2>4. CASE Record(m.req) /\ logged' = logged \cup {m.req}
    BY <2>2, <2>4, RecordKeeps
  <2> QED
    BY <2>2, <2>3, <2>4 DEF RecordIt
<1>6. CASE \E k \in DOMAIN conns : CrashServing(k)
  <2>1. PICK k \in DOMAIN conns : CrashServing(k)
    BY <1>6
  <2> DEFINE m == Head(conns[k].up)
  <2>2. /\ up /\ ~up' /\ m.req \in Nat /\ UNCHANGED logged
        /\ UNCHANGED historyVars \/ Torn(m.req)
    BY <2>1, FrontRequest DEF CrashServing, Die
  <2> HIDE DEF m
  <2>3. CASE UNCHANGED historyVars
    BY <1>1, <2>2, <2>3
  <2> QED
    BY <2>2, <2>3, TornKeeps
<1>7. CASE Crash
  BY <1>1, <1>7 DEF Crash, Die
<1>8. CASE Restart
  BY <1>8, LoadKeeps DEF Restart
<1>9. CASE \E k \in DOMAIN conns : ServeRaises(k)
  BY <1>2, <1>9 DEF ServeRaises
<1> QED
  BY <1>3, <1>4, <1>5, <1>6, <1>7, <1>8, <1>9 DEF Next

LEMMA LineInit == ASSUME Init PROVE Lines
<1>1. file = <<>> /\ Len(file) = 0 /\ nextId = 1 /\ logged = {} /\ cells = <<>>
  BY DEF Init, HistoryInit
<1>2. file \in Seq(Entry) /\ nextId \in Nat /\ nextId <= Len(file) + 1 /\ DOMAIN cells = {}
  BY <1>1
<1> QED
  BY <1>1, <1>2 DEF Lines, Readable, Below

\* What record() has taken is in the history of every later server process, or
\* was appended to a line that a crash had torn (code_history.py:record,
\* _append_to_disk and _load_from_disk): no cell's id is ever given out again, so that
\* neither a later cell nor a reload hides an earlier one.
THEOREM RecordedStaysRecorded == Spec => []HistorySurvives
<1>1. Init => StreamTyped /\ Streams /\ Lines
  BY StreamInit, LineInit
<1>2. (StreamTyped /\ Streams /\ Lines) /\ [Next]_vars => (StreamTyped /\ Streams /\ Lines)'
  BY StreamStep, LineStep
<1>3. Lines => HistorySurvives
  <2> SUFFICES ASSUME Lines, up, NEW r \in logged, Spoilt(file, r) PROVE r \in SpoiltByTorn
    BY DEF Lines, HistorySurvives
  <2>1. PICK k \in 1..Len(file) : k > 1 /\ ~file[k - 1].nl /\ file[k].req = r
    BY DEF Spoilt
  <2>2. k \in DOMAIN file
    BY DEF Lines, Readable
  <2> QED
    BY <2>1, <2>2 DEF SpoiltByTorn
<1> QED
  BY <1>1, <1>2, <1>3, PTL DEF Spec
-----------------------------------------------------------------------------
(* GPU jobs. *)

JobTyped ==
    /\ status \in [Job -> Finished \cup {"none", "running", "forgotten"}]
    /\ worker \in [Job -> Exit \cup {"none", "running", "killed", "died"}]
    /\ script \in [Job -> Exit \cup {"none", "running"}]
    /\ stdout \in [Job -> {"none", "part", "all"}] /\ stderr \in [Job -> {"none", "part", "all"}]
    /\ monitor \in [Job -> Reporting \cup {"none", "watching", "done", "raised"}]
    /\ killer \in [Job -> {"none", "status", "stamp"}]
    /\ ended \in Seq(Job)

WorkerTrue(j) ==
    /\ worker[j] = "ok" => script[j] = "ok"
    /\ worker[j] \in Exit => script[j] # "running"
    /\ status[j] \notin {"none", "forgotten"} => worker[j] # "none"
KillTrue(j) ==
    /\ worker[j] = "killed" => status[j] \in {"killed", "forgotten"} \/ killer[j] = "status"
    /\ status[j] = "killed" \/ killer[j] = "status" => worker[j] # "running" \/ j \in missed
    /\ killer[j] = "status" => status[j] = "running"
    /\ killer[j] = "stamp" => status[j] = "killed"
ReportTrue(j) ==
    /\ status[j] = "completed" => worker[j] = "ok"
    /\ status[j] = "failed" => worker[j] \in {"error", "died"}
    /\ monitor[j] \in Reporting => status[j] \in {"completed", "failed"}
    /\ monitor[j] \in {"none", "watching"} => status[j] \notin {"completed", "failed"}
    /\ monitor[j] # "none" => status[j] # "none"
StampTrue(j) ==
    monitor[j] = "stamp" \/ killer[j] = "stamp" \/ status[j] \in {"none", "running"} => j \notin Stamped
OutputTrue(j) ==
    worker[j] \in Exit =>
       /\ monitor[j] = "stderr" => stdout[j] = Printed(j)
       /\ monitor[j] = "done" /\ status[j] \in {"completed", "failed"} =>
             stdout[j] = Printed(j) /\ stderr[j] = Printed(j)

JobTrue(j) == WorkerTrue(j) /\ KillTrue(j) /\ ReportTrue(j) /\ StampTrue(j) /\ OutputTrue(j)
JobInv == JobTyped /\ \A j \in Job : JobTrue(j)
-----------------------------------------------------------------------------
JobStep(j) ==
    \/ Start(j) \/ Spawning(j) \/ Running(j) \/ WorkerDies(j) \/ Monitor(j) \/ Kill(j) \/ Killing(j)

LEMMA StampedAppended ==
    ASSUME ended \in Seq(Job), NEW j \in Job, ended' = Append(ended, j)
    PROVE  Stamped' = Stamped \cup {j} /\ ended' \in Seq(Job)
<1>1. /\ ended' \in Seq(Job) /\ Len(ended) \in Nat /\ Len(ended') = Len(ended) + 1
      /\ DOMAIN ended = 1..Len(ended) /\ DOMAIN ended' = 1..(Len(ended) + 1)
      /\ \A i \in 1..Len(ended) : ended'[i] = ended[i]
      /\ ended'[Len(ended) + 1] = j
  BY AppendProperties
<1> QED
  BY <1>1 DEF Stamped, ToSet

\* A step for one job leaves the others' records alone.
LEMMA JobFrame ==
    ASSUME JobTyped, NEW j \in Job, JobStep(j)
    PROVE  /\ JobTyped'
           /\ \A k \in Job \ {j} :
                 /\ status'[k] = status[k] /\ worker'[k] = worker[k] /\ script'[k] = script[k]
                 /\ stdout'[k] = stdout[k] /\ stderr'[k] = stderr[k]
                 /\ monitor'[k] = monitor[k] /\ killer'[k] = killer[k]
                 /\ k \in Stamped' <=> k \in Stamped
           /\ missed \subseteq missed'
<1> USE DEF JobTyped, Exit, Finished, Reporting, record, threads, system
<1>0. ended' = ended => Stamped' = Stamped
  BY DEF Stamped
<1>1. CASE Start(j)
  BY <1>0, <1>1 DEF Start
<1>2. CASE Register(j)
  BY <1>0, <1>2 DEF Register
<1>3. CASE Watch(j)
  BY <1>0, <1>3 DEF Watch
<1>4. CASE RunScript(j)
  BY <1>0, <1>4 DEF RunScript
<1>5. CASE ScriptEnds(j)
  BY <1>0, <1>5 DEF ScriptEnds
<1>6. CASE WorkerEnds(j)
  BY <1>0, <1>6 DEF WorkerEnds
<1>7. CASE WorkerDies(j)
  BY <1>0, <1>7 DEF WorkerDies
<1>8. CASE Decide(j)
  BY <1>0, <1>8 DEF Decide, Conclude, Leave
<1>9. CASE Stamp(j)
  BY <1>9, StampedAppended DEF Stamp
<1>10. CASE ReadStdout(j)
  BY <1>0, <1>10 DEF ReadStdout, Printed
<1>11. CASE ReadStderr(j)
  BY <1>0, <1>11 DEF ReadStderr, Printed
<1>12. CASE ReadRaises(j)
  BY <1>0, <1>12 DEF ReadRaises
<1>13. CASE Kill(j)
  BY <1>0, <1>13 DEF Kill
<1>14. CASE NameKilled(j)
  BY <1>0, <1>14 DEF NameKilled
<1>15. CASE StampKilled(j)
  BY <1>15, StampedAppended DEF StampKilled
<1> QED
  BY <1>1, <1>2, <1>3, <1>4, <1>5, <1>6, <1>7, <1>8, <1>9, <1>10, <1>11, <1>12, <1>13, <1>14, <1>15
     DEF JobStep, Spawning, Running, Monitor, Killing

\* What the record of a job says stays true through each step for it.
LEMMA JobStaysTrue ==
    ASSUME JobInv, NEW j \in Job, JobStep(j)
    PROVE  JobTrue(j)'
<1>0. JobTyped /\ JobTrue(j) /\ (ended' = ended => Stamped' = Stamped)
  BY DEF JobInv, Stamped
<1> USE DEF JobTyped, JobTrue, WorkerTrue, KillTrue, ReportTrue, StampTrue, OutputTrue, Printed,
            Exit, Finished, Reporting, record, threads, system
<1>1. CASE Start(j)
  BY <1>0, <1>1 DEF Start
<1>2. CASE Register(j)
  BY <1>0, <1>2 DEF Register
<1>3. CASE Watch(j)
  BY <1>0, <1>3 DEF Watch
<1>4. CASE RunScript(j)
  BY <1>0, <1>4 DEF RunScript
<1>5. CASE ScriptEnds(j)
  BY <1>0, <1>5 DEF ScriptEnds
<1>6. CASE WorkerEnds(j)
  BY <1>0, <1>6 DEF WorkerEnds
<1>7. CASE WorkerDies(j)
  BY <1>0, <1>7 DEF WorkerDies
<1>8. CASE Decide(j)
  <2>1. monitor[j] = "watching" /\ worker[j] # "running" /\ killer[j] = "none"
    BY <1>8 DEF Decide, Free
  <2>2. CASE status[j] \in {"killed", "forgotten"}
    BY <1>0, <1>8, <2>1, <2>2 DEF Decide, Leave
  <2>3. CASE status[j] \notin {"killed", "forgotten"}
    <3>1. /\ status[j] = "running" /\ worker[j] \in {"ok", "error", "died"}
          /\ j \notin Stamped
      BY <1>0, <2>1, <2>3
    <3>2. /\ status'[j] = IF worker[j] = "ok" THEN "completed" ELSE "failed"
          /\ monitor'[j] = "stamp" /\ killer'[j] = "none"
          /\ worker' = worker /\ script' = script /\ Stamped' = Stamped
      BY <1>0, <1>8, <2>1, <2>3 DEF Decide, Conclude
    <3> HIDE DEF JobTyped
    <3> QED
      BY <1>0, <3>1, <3>2
  <2> QED
    BY <2>2, <2>3
<1>9. CASE Stamp(j)
  BY <1>0, <1>9, StampedAppended DEF Stamp
<1>10. CASE ReadStdout(j)
  BY <1>0, <1>10 DEF ReadStdout
<1>11. CASE ReadStderr(j)
  BY <1>0, <1>11 DEF ReadStderr
<1>12. CASE ReadRaises(j)
  BY <1>0, <1>12 DEF ReadRaises
<1>13. CASE Kill(j)
  BY <1>0, <1>13 DEF Kill, Free
<1>14. CASE NameKilled(j)
  BY <1>0, <1>14 DEF NameKilled
<1>15. CASE StampKilled(j)
  BY <1>0, <1>15, StampedAppended DEF StampKilled
<1> QED
  BY <1>1, <1>2, <1>3, <1>4, <1>5, <1>6, <1>7, <1>8, <1>9, <1>10, <1>11, <1>12, <1>13, <1>14, <1>15
     DEF JobStep, Spawning, Running, Monitor, Killing

\* A cleanup forgets jobs, none of which anybody is at work on, and does
\* nothing else that a caller could notice.
LEMMA CleanupForgets ==
    ASSUME Cleanup \/ CleanupByAge
    PROVE  /\ \E jobs : status' = [j \in Job |-> IF j \in jobs THEN "forgotten" ELSE status[j]]
           /\ UNCHANGED <<stdout, stderr, ended, monitor, killer, system, missed>>
           /\ Free
  BY DEF Cleanup, CleanupByAge, Forget

\* Every job's record agrees with its processes, whatever step comes.
THEOREM JobsInvariant == JobSpec => []JobInv
<1>1. JobInit => JobInv
  BY DEF JobInit, JobInv, JobTyped, JobTrue, WorkerTrue, KillTrue, ReportTrue, StampTrue, OutputTrue,
         Stamped, ToSet, Finished, Exit, Reporting
<1>2. ASSUME JobInv, [JobNext]_jobVars PROVE JobInv'
  <2>1. ASSUME NEW j \in Job, JobStep(j) PROVE JobInv'
    <3>1. /\ JobTyped'
          /\ \A k \in Job \ {j} :
                /\ status'[k] = status[k] /\ worker'[k] = worker[k] /\ script'[k] = script[k]
                /\ stdout'[k] = stdout[k] /\ stderr'[k] = stderr[k]
                /\ monitor'[k] = monitor[k] /\ killer'[k] = killer[k]
                /\ k \in Stamped' <=> k \in Stamped
          /\ missed \subseteq missed'
      BY <1>2, <2>1, JobFrame DEF JobInv
    <3>2. ASSUME NEW k \in Job \ {j} PROVE JobTrue(k)'
      <4>1. JobTrue(k)
        BY <1>2 DEF JobInv
      <4> QED
        BY <3>1, <4>1 DEF JobTrue, WorkerTrue, KillTrue, ReportTrue, StampTrue, OutputTrue, Printed
    <3>3. JobTrue(j)'
      BY <1>2, <2>1, JobStaysTrue
    <3> QED
      BY <3>1, <3>2, <3>3 DEF JobInv
  <2>2. CASE Cleanup \/ CleanupByAge
    <3>1. PICK jobs : status' = [j \in Job |-> IF j \in jobs THEN "forgotten" ELSE status[j]]
      BY <2>2, CleanupForgets
    <3>2. UNCHANGED <<stdout, stderr, ended, monitor, killer, worker, script, missed>> /\ Free
      BY <2>2, CleanupForgets DEF system
    <3>3. \A j \in Job : status'[j] \in {status[j], "forgotten"}
      BY <3>1
    <3>4. JobTyped'
      BY <1>2, <3>1, <3>2 DEF JobInv, JobTyped
    <3>5. ASSUME NEW j \in Job PROVE JobTrue(j)'
      <4>1. JobTrue(j) /\ monitor[j] \notin Reporting /\ killer[j] = "none"
        BY <1>2, <3>2 DEF JobInv, Free
      <4>2. status'[j] = status[j] \/ status'[j] = "forgotten"
        BY <3>3
      <4> QED
        BY <3>2, <4>1, <4>2 DEF JobTrue, WorkerTrue, KillTrue, ReportTrue, StampTrue, OutputTrue,
                                 Printed, Reporting, Stamped
    <3> QED
      BY <3>4, <3>5 DEF JobInv
  <2>3. CASE UNCHANGED jobVars
    BY <1>2, <2>3 DEF jobVars, record, threads, system, JobInv, JobTyped, JobTrue, WorkerTrue, KillTrue,
                      ReportTrue, StampTrue, OutputTrue, Printed, Stamped
  <2> QED
    BY <1>2, <2>1, <2>2, <2>3 DEF JobNext, JobStep
<1> QED
  BY <1>1, <1>2, PTL DEF JobSpec

\* Whatever is killed, dies or is cleaned up, and whenever somebody looks, a
\* status says what the processes did (GPUManager's active_jobs).
THEOREM StatusesAreTrue == JobSpec => []StatusIsTrue
<1>1. JobInv => StatusIsTrue
  <2> SUFFICES ASSUME JobInv, NEW j \in Job
               PROVE  /\ status[j] = "completed" => worker[j] = "ok" /\ script[j] = "ok"
                      /\ status[j] = "failed" => worker[j] \in {"error", "died"}
                      /\ status[j] = "killed" => worker[j] # "running" \/ j \in missed
                      /\ monitor[j] = "done" /\ status[j] \in {"completed", "failed"}
                            /\ worker[j] \in Exit =>
                            /\ stdout[j] = IF script[j] = "none" THEN "none" ELSE "all"
                            /\ stderr[j] = stdout[j]
    BY DEF StatusIsTrue
  <2>1. JobTrue(j)
    BY DEF JobInv
  <2> QED
    BY <2>1 DEF JobTrue, WorkerTrue, KillTrue, ReportTrue, OutputTrue, Printed
<1> QED
  BY <1>1, JobsInvariant, PTL

\* Of kill_job and the monitor the first to finish a job has the last word.
THEOREM JobsFinishOnce == JobSpec => FinishedOnce
<1> DEFINE StatusFinal(j) == status[j] \in Finished => status'[j] \in {status[j], "forgotten"}
           EndFinal(j) == j \in Stamped => ~\E i \in DOMAIN ended' \ DOMAIN ended : ended'[i] = j
           Once == \A j \in Job :
                      /\ status[j] \in Finished => status'[j] \in {status[j], "forgotten"}
                      /\ j \in Stamped => ~\E i \in DOMAIN ended' \ DOMAIN ended : ended'[i] = j
<1>1. ASSUME JobInv, [JobNext]_jobVars PROVE [Once]_jobVars
  <2> SUFFICES ASSUME NEW j \in Job PROVE StatusFinal(j) /\ EndFinal(j)
    OBVIOUS
  <2>0. JobTyped /\ \A k \in Job : JobTrue(k)
    BY <1>1 DEF JobInv
  <2>1. ended' = ended => EndFinal(j)
    OBVIOUS
  <2>2. ASSUME NEW k \in Job, k \notin Stamped, ended' = Append(ended, k) PROVE EndFinal(j)
    <3>1. \A i \in DOMAIN Append(ended, k) \ DOMAIN ended : Append(ended, k)[i] = k
      BY <2>0 DEF JobTyped
    <3> QED
      BY <2>2, <3>1
  <2>3. ASSUME NEW k \in Job, JobStep(k) PROVE EndFinal(j)
    <3>1. CASE Stamp(k)
      BY <2>0, <2>2, <3>1 DEF Stamp, JobTrue, StampTrue
    <3>2. CASE StampKilled(k)
      BY <2>0, <2>2, <3>2 DEF StampKilled, JobTrue, StampTrue
    <3>3. CASE ended' = ended
      BY <2>1, <3>3
    <3>4. Stamp(k) \/ StampKilled(k) \/ ended' = ended
      BY <2>3 DEF JobStep, Spawning, Running, Monitor, Killing, Start, Register, Watch, RunScript,
                  ScriptEnds, WorkerEnds, WorkerDies, Decide, ReadStdout, ReadStderr, ReadRaises,
                  Kill, NameKilled, record
    <3> QED
      BY <3>1, <3>2, <3>3, <3>4
  <2>4. ASSUME NEW k \in Job, JobStep(k) PROVE StatusFinal(j)
    <3>1. CASE k # j
      BY <2>0, <2>4, <3>1, JobFrame
    <3>2. CASE k = j
      <4>1. CASE Register(j)
        BY <4>1 DEF Register, Finished
      <4>2. CASE Decide(j)
        BY <2>0, <4>2 DEF Decide, Conclude, Leave, Finished, JobTrue, ReportTrue
      <4>3. CASE NameKilled(j)
        BY <2>0, <4>3 DEF NameKilled, Finished, JobTrue, KillTrue
      <4>4. CASE status' = status
        BY <4>4
      <4>5. Register(j) \/ Decide(j) \/ NameKilled(j) \/ status' = status
        BY <2>4, <3>2 DEF JobStep, Spawning, Running, Monitor, Killing, Start, Watch, RunScript,
                          ScriptEnds, WorkerEnds, WorkerDies, Stamp, ReadStdout, ReadStderr,
                          ReadRaises, Kill, StampKilled, record
      <4> QED
        BY <4>1, <4>2, <4>3, <4>4, <4>5
    <3> QED
      BY <3>1, <3>2
  <2>5. CASE Cleanup \/ CleanupByAge
    <3>1. PICK jobs : status' = [k \in Job |-> IF k \in jobs THEN "forgotten" ELSE status[k]]
      BY <2>5, CleanupForgets
    <3>2. ended' = ended
      BY <2>5, CleanupForgets
    <3> QED
      BY <2>1, <3>1, <3>2
  <2>6. CASE UNCHANGED jobVars
    BY <2>6 DEF jobVars, record
  <2> QED
    BY <1>1, <2>3, <2>4, <2>5, <2>6 DEF JobNext, JobStep
<1> QED
  BY <1>1, JobsInvariant, PTL DEF JobSpec, FinishedOnce
=============================================================================
