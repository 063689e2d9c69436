--------------------------- MODULE SandboxServer ---------------------------
(***************************************************************************)
(* agent_framework/sandbox/{server,transport,client}.py: clients send one  *)
(* request at a time over a byte stream to a server that runs them one     *)
(* after another in a shared namespace and records them in CodeHistory.    *)
(* The client may give up waiting; the server may die at any moment (code  *)
(* it runs may call exit(), which no handler catches) and be started       *)
(* again.                                                                  *)
(*                                                                         *)
(* exec() blocks the event loop, so a command runs in one step.  A frame   *)
(* is its length prefix ("head") and the rest ("body"): a client that      *)
(* gives up between the two reads leaves the body in the stream, and a     *)
(* body read as a length is always refused (JSON text and newlines make    *)
(* lengths above max_message_size, or are not followed by a newline).      *)
(***************************************************************************)
EXTENDS CodeHistory

CONSTANTS Client,
          MaxRequests, \* bound: requests sent
          MaxConns,    \* bound: calls of connect()
          MaxCrashes   \* bound: deaths of the server

ASSUME SandboxAssumption ==
    MaxRequests \in Nat /\ MaxConns \in Nat /\ MaxCrashes \in Nat

VARIABLES
    up,        \* the server process is alive
    listening, \* and its listener is open
    crashes,
    conns,     \* the connections, in the order they were made
    link,      \* SandboxClient._transport: a connection, or 0
    sent,      \* how many requests there were; each is known by its number
    waiting,   \* the request each client waits for, or 0
    midFrame,  \* the client has read a head and waits for the body
    got,       \* what the last call on each client's connection returned
    logged     \* requests whose record() returned

clientVars == <<link, sent, waiting, midFrame, got>>
serverVars == <<up, listening, crashes, logged, historyVars>>
vars == <<conns, clientVars, serverVars>>

\* "run" is execute or eval; list_vars, get_var and check_causality are run
\* too, without a record.
Kind == {"run", "shutdown"}
Nothing == [req |-> 0, answer |-> 0]
Frame(r) == <<[part |-> "head", req |-> r], [part |-> "body", req |-> r]>>
Conn(c) == conns[link[c]]
-----------------------------------------------------------------------------
Init ==
    /\ up = TRUE /\ listening = TRUE /\ crashes = 0
    /\ conns = <<>> /\ link = [c \in Client |-> 0]
    /\ sent = 0 /\ waiting = [c \in Client |-> 0]
    /\ midFrame = [c \in Client |-> FALSE] /\ got = [c \in Client |-> Nothing]
    /\ logged = {}
    /\ HistoryInit

\* connect(): a refused connection leaves a transport too, which the client
\* takes for a connection until it is used.
Connect(c) ==
    /\ link[c] = 0 /\ Len(conns) < MaxConns
    /\ conns' = Append(conns, [up |-> <<>>, down |-> <<>>, cOpen |-> TRUE,
                               sOpen |-> up /\ listening, late |-> FALSE])
    /\ link' = [link EXCEPT ![c] = Len(conns')]
    /\ UNCHANGED <<sent, waiting, midFrame, got, serverVars>>

\* close(): what was sent is still read by the server, unless the connection is
\* reset because an answer had not been read.
Close(c) ==
    /\ link[c] # 0 /\ waiting[c] = 0
    /\ \E read \in {Conn(c).up, <<>>} :
          conns' = [conns EXCEPT ![link[c]] = [up |-> read, down |-> <<>>, cOpen |-> FALSE,
                                               sOpen |-> @.sOpen, late |-> FALSE]]
    /\ link' = [link EXCEPT ![c] = 0]
    /\ got' = [got EXCEPT ![c] = Nothing]
    /\ UNCHANGED <<sent, waiting, midFrame, serverVars>>

Send(c, kind) ==
    /\ link[c] # 0 /\ waiting[c] = 0 /\ sent < MaxRequests
    /\ sent' = sent + 1
    /\ waiting' = [waiting EXCEPT ![c] = sent']
    /\ conns' = IF Conn(c).sOpen
                THEN [conns EXCEPT ![link[c]].up = Append(@, [req |-> sent', kind |-> kind])]
                ELSE conns
    /\ midFrame' = [midFrame EXCEPT ![c] = FALSE]
    /\ got' = [got EXCEPT ![c] = Nothing]
    /\ UNCHANGED <<link, serverVars>>

\* asyncio.wait_for gives up; the connection is left as it is.
Timeout(c) ==
    /\ waiting[c] # 0
    /\ waiting' = [waiting EXCEPT ![c] = 0]
    /\ conns' = [conns EXCEPT ![link[c]].late = TRUE]
    /\ UNCHANGED <<link, sent, midFrame, got, serverVars>>

Arrived(c, part) ==
    /\ waiting[c] # 0 /\ Conn(c).down # <<>>
    /\ Head(Conn(c).down).part = part

ReadHead(c) ==
    /\ Arrived(c, "head") /\ ~midFrame[c]
    /\ conns' = [conns EXCEPT ![link[c]].down = Tail(@)]
    /\ midFrame' = [midFrame EXCEPT ![c] = TRUE]
    /\ UNCHANGED <<link, sent, waiting, got, serverVars>>

\* The call returns this response, whatever request it answers.
ReadBody(c) ==
    /\ Arrived(c, "body") /\ midFrame[c]
    /\ conns' = [conns EXCEPT ![link[c]].down = Tail(@)]
    /\ midFrame' = [midFrame EXCEPT ![c] = FALSE]
    /\ got' = [got EXCEPT ![c] = [req |-> waiting[c], answer |-> Head(Conn(c).down).req]]
    /\ waiting' = [waiting EXCEPT ![c] = 0]
    /\ UNCHANGED <<link, sent, serverVars>>

\* A body where a head should be: ConnectionClosed.  Four bytes are gone, of
\* this frame or of the next one too; the connection is left as it is.
Misread(c) ==
    /\ Arrived(c, "body") /\ ~midFrame[c]
    /\ LET down == Conn(c).down IN
       \E rest \in {down, Tail(down)}
                   \cup (IF Len(down) > 1 THEN {[Tail(down) EXCEPT ![1].part = "body"]} ELSE {}) :
          conns' = [conns EXCEPT ![link[c]].down = rest]
    /\ waiting' = [waiting EXCEPT ![c] = 0]
    /\ UNCHANGED <<link, sent, midFrame, got, serverVars>>

\* End of the stream: ConnectionClosed.
Lost(c) ==
    /\ waiting[c] # 0 /\ Conn(c).down = <<>> /\ ~Conn(c).sOpen
    /\ waiting' = [waiting EXCEPT ![c] = 0]
    /\ UNCHANGED <<conns, link, sent, midFrame, got, serverVars>>

\* What a command leaves in the history.  Every execute is recorded, an eval
\* only when it does not raise.
RecordIt(m) ==
    \/ /\ m.kind = "run"
       /\ Record(m.req)
       /\ logged' = logged \cup {m.req}
    \/ UNCHANGED <<logged, historyVars>>

\* Mutant: after a shutdown command the handler ends without closing
ServeWithoutClose(k) ==
    /\ up /\ conns[k].sOpen /\ conns[k].up # <<>>
    /\ LET m == Head(conns[k].up) IN
          /\ RecordIt(m)
          /\ listening' = (listening /\ m.kind # "shutdown")
          /\ conns' = [conns EXCEPT
                ![k].up = IF m.kind = "shutdown" THEN <<>> ELSE Tail(@),
                ![k].down = IF conns[k].cOpen /\ m.kind # "shutdown" THEN @ \o Frame(m.req) ELSE @]
    /\ UNCHANGED <<up, crashes, clientVars>>

\* Mutant: two responses are sent, as if the handlers sent theirs and the loop
\* sent it again.
ServeTwice(k) ==
    /\ up /\ conns[k].sOpen /\ conns[k].up # <<>>
    /\ LET m == Head(conns[k].up)
           last == m.kind = "shutdown"
       IN /\ RecordIt(m)
          /\ listening' = (listening /\ ~last)
          /\ conns' = [conns EXCEPT ![k].up = Tail(@), ![k].sOpen = ~last,
                ![k].down = IF ~conns[k].cOpen THEN @
                            ELSE @ \o Frame(m.req) \o Frame(m.req)]
    /\ UNCHANGED <<up, crashes, clientVars>>

\* One turn of _handle_client.  When the client has gone the send fails, or not
\* yet.  (That the loop then reads the end of the stream, nobody sees.)  After a
\* shutdown command that was answered the listener and this connection are
\* closed; the server itself, and its other connections, go on.
Serve(k) ==
    /\ up /\ conns[k].sOpen /\ conns[k].up # <<>>
    /\ LET m == Head(conns[k].up)
           last == m.kind = "shutdown"
       IN /\ RecordIt(m)
          /\ \E sends \in {TRUE, conns[k].cOpen} :
                LET open == sends /\ ~last IN
                /\ listening' = (listening /\ ~(sends /\ last))
                /\ conns' = [conns EXCEPT ![k] =
                             [up |-> IF open THEN Tail(@.up) ELSE <<>>,
                              down |-> IF @.cOpen THEN @.down \o Frame(m.req) ELSE @.down,
                              cOpen |-> @.cOpen, sOpen |-> open, late |-> @.late]]
    /\ UNCHANGED <<up, crashes, clientVars>>

\* The code run raises what is no Exception and does not end the process either:
\* no record and no answer, the connection is closed and the others go on.
ServeRaises(k) ==
    /\ up /\ conns[k].sOpen /\ conns[k].up # <<>>
    /\ Head(conns[k].up).kind = "run"
    /\ conns' = [conns EXCEPT ![k] =
                    [up |-> <<>>, down |-> @.down, cOpen |-> @.cOpen, sOpen |-> FALSE, late |-> @.late]]
    /\ UNCHANGED <<clientVars, serverVars>>

\* The process ends and with it its memory; of what is on its way to the
\* clients a part arrives.
Die ==
    /\ up /\ crashes < MaxCrashes
    /\ up' = FALSE /\ listening' = FALSE /\ crashes' = crashes + 1
    /\ \E lost \in [DOMAIN conns -> 0..2 * MaxRequests] :
          /\ \A k \in DOMAIN conns : lost[k] <= Len(conns[k].down)
          /\ conns' = [k \in DOMAIN conns |->
                [up |-> <<>>,
                 down |-> SubSeq(conns[k].down, 1, Len(conns[k].down) - lost[k]),
                 cOpen |-> conns[k].cOpen, sOpen |-> FALSE, late |-> conns[k].late]]
    /\ UNCHANGED clientVars

Crash == Die /\ UNCHANGED <<logged, historyVars>>

\* It ends while it runs a command: exit() in the code, or a crash in the
\* append to the history.
CrashServing(k) ==
    /\ conns[k].sOpen /\ conns[k].up # <<>>
    /\ Die
    /\ LET m == Head(conns[k].up) IN
          IF m.kind = "shutdown" THEN UNCHANGED historyVars ELSE Torn(m.req)
    /\ UNCHANGED logged

Restart ==
    /\ ~up
    /\ up' = TRUE /\ listening' = TRUE
    /\ Load
    /\ UNCHANGED <<crashes, logged, conns, clientVars>>

ClientRead(c) == ReadHead(c) \/ ReadBody(c) \/ Misread(c) \/ Lost(c)

Next ==
    \/ \E c \in Client :
          \/ Connect(c) \/ Close(c) \/ (\E kind \in Kind : Send(c, kind))
          \/ Timeout(c) \/ ClientRead(c)
    \/ \E k \in DOMAIN conns : Serve(k) \/ ServeRaises(k) \/ CrashServing(k)
    \/ Crash \/ Restart

Spec == Init /\ [][Next]_vars

\* A live server serves every connection (a command that runs ends), a client
\* that can read reads.  Nobody need restart the server, and no timeout is
\* counted on.
FairSpec ==
    /\ Spec
    /\ \A c \in Client : WF_vars(ClientRead(c))
    /\ \A k \in 1..MaxConns : WF_vars(k \in DOMAIN conns /\ Serve(k))
-----------------------------------------------------------------------------
TypeOK ==
    /\ link \in [Client -> 0..Len(conns)]
    /\ waiting \in [Client -> 0..sent]
    /\ \A c \in Client : waiting[c] # 0 => link[c] # 0 /\ Conn(c).cOpen
    /\ listening => up
    /\ \A k \in DOMAIN conns : conns[k].sOpen => up
    /\ logged \subseteq 1..sent
    /\ \A id \in DOMAIN cells : id < nextId /\ cells[id] \in 1..sent

\* As long as no call on a connection was given up, every call on it gets its
\* own response or an exception, across crashes, half-sent frames, reconnects
\* and other clients' calls.  After one was given up a call may get an older
\* response of this connection, never a newer one or another client's.
OwnAnswerUntilTimeout ==
    \A c \in Client :
        /\ got[c].answer # got[c].req => Conn(c).late
        /\ got[c].answer <= got[c].req

\* What record() has taken is in the history of every later server process
\* ("Designed to survive server restarts via file-backed storage"), except
\* where the entry was appended to a line that a crash had torn.
HistorySurvives ==
    up => \A r \in logged :
             \/ \E id \in DOMAIN cells : cells[id] = r
             \/ r \in SpoiltByTorn

\* A call comes back, with a response or an exception, even when the client
\* sets no timeout: a server that dies, shuts down or drops the connection
\* ends the wait.
CallReturns == \A c \in Client : (waiting[c] # 0) ~> (waiting[c] = 0)
=============================================================================
