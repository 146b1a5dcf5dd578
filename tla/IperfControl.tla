---------------------------- MODULE IperfControl ----------------------------
(***************************************************************************)
(* The control protocol of iperf3 over TCP: one server process that loops  *)
(* over tests (main.c, iperf_server_api.c) and the client launches that    *)
(* compete for it (iperf_client_api.c), with the parts of iperf_api.c,     *)
(* iperf_tcp.c and net.c they share.                                       *)
(*                                                                         *)
(* Each process is single-threaded, but its handlers block inside read()   *)
(* and write(): a handler is one action per stretch between two blocking   *)
(* calls, and the "pc" of a process names the call it is blocked in.       *)
(*                                                                         *)
(* A connection is <<c, i>>: client c's control connection for i = 0, its  *)
(* i-th data stream for i > 0. Payload bytes are not modelled; a JSON      *)
(* document is one message. Each launch draws a fresh cookie, so a cookie  *)
(* is identified with the client that wrote it.                            *)
(***************************************************************************)
EXTENDS Integers, Sequences, FiniteSets

CONSTANTS
    Clients,        \* launches of "iperf3 -c"
    None,           \* "no connection": ctrl_sck = -1
    NumStreams,     \* test->num_streams, the -P option
    Modes,          \* how clients transfer: select loop, SIGALRM loop, -R
    PipeCap,        \* blocks a test's data sockets buffer before write() blocks
    Burst,          \* test->multisend: blocks written per pass of iperf_send
    ErrorLimit,     \* consecutive failed tests after which the server exits
    SigpipeKills,   \* may SIGPIPE be at its default action (else ignored by the parent)
    Relisten        \* may clients set -N, -M or -w (the listener is then replaced)

ASSUME ConstantsAssumption ==
    /\ None \notin Clients \X Nat
    /\ NumStreams \in Nat \ {0}
    /\ Modes \subseteq {"select", "itimer", "reverse"}
    /\ PipeCap \in Nat \ {0}
    /\ Burst \in Nat \ {0}
    /\ ErrorLimit \in Nat \ {0}
    /\ SigpipeKills \in BOOLEAN
    /\ Relisten \in BOOLEAN

VARIABLES
    cl,         \* each client process
    srv,        \* the server process
    listenQ,    \* connections completed by the kernel and not yet accepted
    cookied,    \* connections on which the client has written its cookie
    closed,     \* connections whose server end has been closed
    c2s, s2c,   \* control bytes in flight, per client
    pipe        \* data blocks in flight on each client's streams

vars == <<cl, srv, listenQ, cookied, closed, c2s, s2c, pipe>>
net == <<listenQ, cookied, closed, c2s, s2c, pipe>>

Conns == Clients \X (0 .. NumStreams)
Ctrl(c) == <<c, 0>>
StreamsOf(c) == {<<c, i>> : i \in 1 .. NumStreams}

ServerStates == {"RESET", "IPERF_START", "PARAM_EXCHANGE", "CREATE_STREAMS",
    "TEST_RUNNING", "EXCHANGE_RESULTS", "DISPLAY_RESULTS"}
ToClient == {"PARAM_EXCHANGE", "CREATE_STREAMS", "TEST_START", "TEST_RUNNING",
    "EXCHANGE_RESULTS", "RESULTS", "DISPLAY_RESULTS", "SERVER_TERMINATE",
    "ACCESS_DENIED", "SERVER_ERROR"}
ToServer == {"PARAMS", "TEST_END", "RESULTS", "IPERF_DONE", "CLIENT_TERMINATE"}
ClientStates == {"START", "PARAM_EXCHANGE", "CREATE_STREAMS", "TEST_START",
    "TEST_RUNNING", "TEST_END", "EXCHANGE_RESULTS", "IPERF_DONE"}

\* Where a client process is: "dialed" has a control connection and no cookie
\* on it yet, "select" is at the top of the loop, "streams" and "streamCookie"
\* are in iperf_create_streams, "io" in iperf_send or iperf_recv, "results" in
\* get_results.
ClientPc == {"init", "dialed", "select", "streams", "streamCookie", "io",
    "results", "exit"}
\* Where the server is: "listen" is between two tests, "cookie" and "deny" are
\* the reads of iperf_accept, "params" and "results" those of JSON_read,
\* "stream" that of iperf_tcp_accept, "io" is in iperf_send (reverse mode).
ServerPc == {"listen", "select", "cookie", "deny", "params", "stream", "io",
    "results", "exit"}
\* Where the results a process holds of its peer came from: the peer's message,
\* or memory that JSON_read never filled.
Sources == {"none", "peer", "memory"}
Outcomes == {"none", "done", "denied", "error", "term", "killed"}

Client == [pc : ClientPc, state : ClientStates, mode : Modes \cup {"unset"},
           dialed : 0 .. NumStreams, todo : 0 .. Burst, got : Sources, out : Outcomes]
Server == [pc : ServerPc, state : ServerStates, ctrl : Conns \cup {None},
           pend : Conns \cup {None}, streams : SUBSET Conns, todo : 0 .. Burst,
           got : Sources, errors : 0 .. ErrorLimit]

TypeOK ==
    /\ cl \in [Clients -> Client]
    /\ srv \in Server
    /\ listenQ \in Seq(Conns)
    /\ cookied \subseteq Conns
    /\ closed \subseteq Conns
    /\ c2s \in [Clients -> Seq(ToServer)]
    /\ s2c \in [Clients -> Seq(ToClient)]
    /\ pipe \in [Clients -> 0 .. PipeCap]

Init ==
    /\ cl = [c \in Clients |-> [pc |-> "init", state |-> "START", mode |-> "unset",
                                dialed |-> 0, todo |-> 0, got |-> "none", out |-> "none"]]
    /\ srv = [pc |-> "listen", state |-> "RESET", ctrl |-> None, pend |-> None,
              streams |-> {}, todo |-> 0, got |-> "none", errors |-> 0]
    /\ listenQ = <<>>
    /\ cookied = {}
    /\ closed = {}
    /\ c2s = [c \in Clients |-> <<>>]
    /\ s2c = [c \in Clients |-> <<>>]
    /\ pipe = [c \in Clients |-> 0]

-----------------------------------------------------------------------------
(* What one process sees of the other. *)

InQueue(q) == {q[i] : i \in 1 .. Len(q)}
ListenerUp == srv.pc \notin {"listen", "exit"}
\* The client's process has ended: the kernel has closed its end of conn.
PeerGone(conn) == cl[conn[1]].pc = "exit"
ServerGone(conn) == srv.pc = "exit" \/ conn \in closed
\* read() of a cookie returns: the cookie is there, or the end of the stream.
CookieReady(conn) == conn \in cookied \/ PeerGone(conn)
\* Control bytes the server can read on a connection.
Inbox(conn) == IF conn[2] = 0 THEN c2s[conn[1]] ELSE <<>>
Consume(conn, rest) ==
    c2s' = IF conn[2] = 0 THEN [c2s EXCEPT ![conn[1]] = rest] ELSE c2s
\* JSON_read returns a whole document, or the stream ends inside it: it then
\* uses a length it has not read, and whether the memory it parses is a
\* document is unspecified.
JsonWhole(conn, doc) == Inbox(conn) # <<>> /\ Head(Inbox(conn)) = doc
JsonCut(conn, doc) == PeerGone(conn) /\ ~JsonWhole(conn, doc)
\* Messages the server writes; those to a process that has ended are lost, and
\* a client never reads control messages on a data stream.
SendState(conn, ms) ==
    s2c' = IF conn[2] = 0 /\ ~PeerGone(conn)
             THEN [s2c EXCEPT ![conn[1]] = @ \o ms] ELSE s2c
Send(c, m) ==
    c2s' = IF ServerGone(Ctrl(c)) THEN c2s ELSE [c2s EXCEPT ![c] = Append(@, m)]

-----------------------------------------------------------------------------
(* The server: how a test ends. These assign srv, listenQ and closed. *)

\* Mutant: the limit on consecutive errors is off by one.
EndTestOneErrorLate(errors, alsoClosed) ==
    /\ srv' = [pc |-> IF errors > ErrorLimit THEN "exit" ELSE "listen",
               state |-> "RESET", ctrl |-> None, pend |-> None,
               streams |-> {}, todo |-> 0, got |-> "none", errors |-> errors]
    /\ closed' = closed \cup alsoClosed \cup InQueue(listenQ) \cup ({srv.ctrl} \ {None})
    /\ listenQ' = <<>>

\* Mutant: cleanup_server forgets close(test->ctrl_sck).
EndTestLeavesCtrlOpen(errors, alsoClosed) ==
    /\ srv' = [pc |-> IF errors >= ErrorLimit THEN "exit" ELSE "listen",
               state |-> "RESET", ctrl |-> None, pend |-> None,
               streams |-> {}, todo |-> 0, got |-> "none", errors |-> errors]
    /\ closed' = closed \cup alsoClosed \cup InQueue(listenQ)
    /\ listenQ' = <<>>

\* cleanup_server closes the control connection and the listener (resetting
\* what waits in its queue), iperf_reset_test drops the stream list without
\* closing the stream sockets, and run() counts the failure.
EndTest(errors, alsoClosed) ==
    /\ srv' = [pc |-> IF errors >= ErrorLimit THEN "exit" ELSE "listen",
               state |-> "RESET", ctrl |-> None, pend |-> None,
               streams |-> {}, todo |-> 0, got |-> "none", errors |-> errors]
    /\ closed' = closed \cup alsoClosed \cup InQueue(listenQ) \cup ({srv.ctrl} \ {None})
    /\ listenQ' = <<>>
FailTest == EndTest(srv.errors + 1, {})

\* The process ends: a signal, or iperf_errexit.
ServerExit ==
    /\ srv' = [srv EXCEPT !.pc = "exit", !.ctrl = None, !.pend = None,
                          !.streams = {}, !.todo = 0]
    /\ listenQ' = <<>>
    /\ UNCHANGED closed

\* write() to a connection whose peer has gone fails with EPIPE, unless the
\* reset has not arrived yet; SIGPIPE, where it is not ignored, ends the process.
WriteFails(conn) ==
    /\ PeerGone(conn)
    /\ FailTest \/ (SigpipeKills /\ ServerExit)
    /\ UNCHANGED s2c

\* Closing the listener and announcing a new one resets the waiting connections.
ReplaceListener ==
    \/ Relisten /\ closed' = closed \cup InQueue(listenQ) /\ listenQ' = <<>>
    \/ UNCHANGED <<closed, listenQ>>

-----------------------------------------------------------------------------
(* The server: iperf_server_listen and iperf_accept. *)

Listen ==
    /\ srv.pc = "listen"
    /\ \/ /\ srv' = [srv EXCEPT !.pc = "select", !.state = "IPERF_START"]
          /\ UNCHANGED <<listenQ, closed>>
       \/ FailTest
    /\ UNCHANGED <<cl, cookied, c2s, s2c, pipe>>

\* Mutant: iperf_accept does not test ctrl_sck == -1.
AcceptControlTakesOver ==
    /\ srv.pc = "select" /\ srv.state # "CREATE_STREAMS"
    /\ listenQ # <<>>
    /\ srv' = [srv EXCEPT !.pc = "cookie", !.ctrl = Head(listenQ)]
    /\ listenQ' = Tail(listenQ)
    /\ UNCHANGED <<cl, cookied, closed, c2s, s2c, pipe>>

\* The server is free: the connection becomes the control connection, whatever
\* the client opened it for.
AcceptControl ==
    /\ srv.pc = "select" /\ srv.state # "CREATE_STREAMS"
    /\ listenQ # <<>>
    /\ srv.ctrl = None
    /\ srv' = [srv EXCEPT !.pc = "cookie", !.ctrl = Head(listenQ)]
    /\ listenQ' = Tail(listenQ)
    /\ UNCHANGED <<cl, cookied, closed, c2s, s2c, pipe>>

\* Nread returns a short count, not an error, at the end of the stream.
ReadControlCookie ==
    /\ srv.pc = "cookie"
    /\ CookieReady(srv.ctrl)
    /\ \/ /\ srv' = [srv EXCEPT !.pc = "params", !.state = "PARAM_EXCHANGE"]
          /\ SendState(srv.ctrl, <<"PARAM_EXCHANGE">>)
          /\ UNCHANGED <<listenQ, closed>>
       \/ WriteFails(srv.ctrl)
    /\ UNCHANGED <<cl, cookied, c2s, pipe>>

AcceptSurplus ==
    /\ srv.pc = "select" /\ srv.state # "CREATE_STREAMS"
    /\ listenQ # <<>>
    /\ srv.ctrl # None
    /\ srv' = [srv EXCEPT !.pc = "deny", !.pend = Head(listenQ)]
    /\ listenQ' = Tail(listenQ)
    /\ UNCHANGED <<cl, cookied, closed, c2s, s2c, pipe>>

\* Mutant: ACCESS_DENIED is written to ctrl_sck instead of the new socket.
RefuseTheWrongClient(conn) ==
    \/ /\ srv' = [srv EXCEPT !.pc = "select", !.pend = None]
       /\ SendState(srv.ctrl, <<"ACCESS_DENIED">>)
       /\ closed' = closed \cup {conn}
       /\ UNCHANGED listenQ
    \/ WriteFails(conn)

\* Mutant: the refused connection is neither answered nor closed.
RefuseSilently(conn) ==
    /\ srv' = [srv EXCEPT !.pc = "select", !.pend = None]
    /\ UNCHANGED <<s2c, closed, listenQ>>

Refuse(conn) ==
    \/ /\ srv' = [srv EXCEPT !.pc = "select", !.pend = None]
       /\ SendState(conn, <<"ACCESS_DENIED">>)
       /\ closed' = closed \cup {conn}
       /\ UNCHANGED listenQ
    \/ WriteFails(conn)

\* A failure to refuse one client ends the test of another.
DenySurplus ==
    /\ srv.pc = "deny"
    /\ CookieReady(srv.pend)
    /\ Refuse(srv.pend)
    /\ UNCHANGED <<cl, cookied, c2s, pipe>>

-----------------------------------------------------------------------------
(* The server: iperf_exchange_parameters and the streams of a test. *)

ListenForStreams ==
    /\ srv' = [srv EXCEPT !.pc = "select", !.state = "CREATE_STREAMS"]
    /\ SendState(srv.ctrl, <<"CREATE_STREAMS">>)
    /\ ReplaceListener

\* The parameters are refused, or the processor asked for cannot be had, after the
\* client was told to create its streams.
GetParameters ==
    /\ srv.pc = "params"
    /\ \/ JsonWhole(srv.ctrl, "PARAMS") /\ Consume(srv.ctrl, Tail(Inbox(srv.ctrl)))
       \/ JsonCut(srv.ctrl, "PARAMS") /\ Consume(srv.ctrl, <<>>)
    /\ \/ ListenForStreams
       \/ FailTest /\ \E m \in {"SERVER_ERROR", "CREATE_STREAMS"} : SendState(srv.ctrl, <<m>>)
       \/ WriteFails(srv.ctrl)
    /\ UNCHANGED <<cl, cookied, pipe>>

\* get_parameters refuses what JSON_read made of a cut document.
GetParametersFails ==
    /\ srv.pc = "params"
    /\ JsonCut(srv.ctrl, "PARAMS")
    /\ FailTest
    /\ UNCHANGED <<cl, cookied, c2s, s2c, pipe>>

AcceptStream ==
    /\ srv.pc = "select" /\ srv.state = "CREATE_STREAMS"
    /\ listenQ # <<>>
    /\ srv' = [srv EXCEPT !.pc = "stream", !.pend = Head(listenQ)]
    /\ listenQ' = Tail(listenQ)
    /\ UNCHANGED <<cl, cookied, closed, c2s, s2c, pipe>>

\* Mutant: the cookie is read and not compared.
CookieNotCompared(conn) == {TRUE}

\* The outcomes of strcmp(test->cookie, cookie): without a cookie on the stream
\* the buffer compared is uninitialized.
CookieCompare(conn) ==
    IF conn \in cookied
      THEN {srv.ctrl \in cookied /\ conn[1] = srv.ctrl[1]} ELSE BOOLEAN

\* The last stream: TEST_START and TEST_RUNNING follow in the same pass, unless the
\* timers cannot be made in between.
StartTest(streams) ==
    \/ /\ srv' = [srv EXCEPT !.pc = "select", !.state = "TEST_RUNNING",
                             !.pend = None, !.streams = streams]
       /\ SendState(srv.ctrl, <<"TEST_START", "TEST_RUNNING">>)
       /\ ReplaceListener
    \/ Relisten /\ FailTest /\ UNCHANGED s2c
    \/ FailTest /\ SendState(srv.ctrl, <<"TEST_START">>)
    \/ WriteFails(srv.ctrl)

\* Mutant: the streams are counted one too high.
AddStreamOneShort(conn) ==
    LET streams == srv.streams \cup {conn} IN
    \/ /\ Cardinality(streams) + 1 < NumStreams
       /\ srv' = [srv EXCEPT !.pc = "select", !.pend = None, !.streams = streams]
       /\ UNCHANGED <<listenQ, closed, s2c>>
    \/ Cardinality(streams) + 1 >= NumStreams /\ StartTest(streams)

\* iperf_new_stream fails, or ends the process when it cannot make its buffer file.
AddStream(conn) ==
    LET streams == srv.streams \cup {conn} IN
    \/ /\ Cardinality(streams) < NumStreams
       /\ srv' = [srv EXCEPT !.pc = "select", !.pend = None, !.streams = streams]
       /\ UNCHANGED <<listenQ, closed, s2c>>
    \/ Cardinality(streams) = NumStreams /\ StartTest(streams)
    \/ (FailTest \/ ServerExit) /\ UNCHANGED s2c

ReadStreamCookie ==
    /\ srv.pc = "stream"
    /\ CookieReady(srv.pend)
    /\ \/ TRUE \in CookieCompare(srv.pend) /\ AddStream(srv.pend)
       \/ FALSE \in CookieCompare(srv.pend) /\ Refuse(srv.pend)
    /\ UNCHANGED <<cl, cookied, c2s, pipe>>

-----------------------------------------------------------------------------
(* The server: iperf_handle_message_server and the data it moves. *)

Owner == srv.ctrl[1]
Reverse(c) == cl[c].mode = "reverse"
CtrlReadable == srv.pc = "select" /\ srv.ctrl # None

HandleTestEnd ==
    /\ CtrlReadable
    /\ Inbox(srv.ctrl) # <<>> /\ Head(Inbox(srv.ctrl)) = "TEST_END"
    /\ Consume(srv.ctrl, Tail(Inbox(srv.ctrl)))
    /\ \/ /\ srv' = [srv EXCEPT !.pc = "results", !.state = "EXCHANGE_RESULTS"]
          /\ closed' = closed \cup srv.streams
          /\ SendState(srv.ctrl, <<"EXCHANGE_RESULTS">>)
          /\ UNCHANGED listenQ
       \/ WriteFails(srv.ctrl)
    /\ UNCHANGED <<cl, cookied, pipe>>

\* Mutant: send_results comes before get_results on the server too.
ExchangeResultsUnread ==
    /\ srv.pc = "results"
    /\ srv' = [srv EXCEPT !.pc = "select", !.state = "DISPLAY_RESULTS"]
    /\ SendState(srv.ctrl, <<"RESULTS", "DISPLAY_RESULTS">>)
    /\ UNCHANGED <<cl, listenQ, cookied, closed, c2s, pipe>>

\* The rest of TEST_END: the client's results, then the server's.
ExchangeResults ==
    /\ srv.pc = "results"
    /\ \/ JsonWhole(srv.ctrl, "RESULTS") /\ Consume(srv.ctrl, Tail(Inbox(srv.ctrl)))
       \/ JsonCut(srv.ctrl, "RESULTS") /\ Consume(srv.ctrl, <<>>)
    /\ \/ /\ srv' = [srv EXCEPT !.pc = "select", !.state = "DISPLAY_RESULTS",
                !.got = IF JsonWhole(srv.ctrl, "RESULTS") THEN "peer" ELSE "memory"]
          /\ SendState(srv.ctrl, <<"RESULTS", "DISPLAY_RESULTS">>)
          /\ UNCHANGED <<listenQ, closed>>
       \/ WriteFails(srv.ctrl)
    /\ UNCHANGED <<cl, cookied, pipe>>

ExchangeResultsFails ==
    /\ srv.pc = "results"
    /\ JsonCut(srv.ctrl, "RESULTS")
    /\ FailTest
    /\ UNCHANGED <<cl, cookied, c2s, s2c, pipe>>

\* IPERF_DONE ends the test; CLIENT_TERMINATE prints a summary, which dereferences
\* the first stream even if there is none, and closes the streams; any other byte is
\* IEMESSAGE.
HandleLastMessage ==
    /\ CtrlReadable
    /\ Inbox(srv.ctrl) # <<>>
    /\ CASE Head(Inbox(srv.ctrl)) = "IPERF_DONE" -> EndTest(0, {})
         [] Head(Inbox(srv.ctrl)) = "CLIENT_TERMINATE" ->
                IF srv.streams = {} THEN ServerExit ELSE EndTest(0, srv.streams)
         [] Head(Inbox(srv.ctrl)) \in {"PARAMS", "RESULTS"} -> FailTest
         [] OTHER -> FALSE
    /\ Consume(srv.ctrl, Tail(Inbox(srv.ctrl)))
    /\ UNCHANGED <<cl, cookied, s2c, pipe>>

\* The end of the control connection is not an error; a reset is.
HandleCtrlClosed ==
    /\ CtrlReadable
    /\ Inbox(srv.ctrl) = <<>>
    /\ PeerGone(srv.ctrl)
    /\ EndTest(0, {}) \/ FailTest
    /\ UNCHANGED <<cl, cookied, c2s, s2c, pipe>>

\* iperf_recv: one block read, or a read that fails because the peer reset the
\* stream.
ServerRecv ==
    /\ CtrlReadable /\ srv.state = "TEST_RUNNING" /\ ~Reverse(Owner)
    /\ \/ /\ pipe[Owner] > 0
          /\ pipe' = [pipe EXCEPT ![Owner] = @ - 1]
          /\ UNCHANGED <<srv, listenQ, closed>>
       \/ PeerGone(srv.ctrl) /\ FailTest /\ UNCHANGED pipe
    /\ UNCHANGED <<cl, cookied, c2s, s2c>>

\* iperf_send: a burst on sockets select() found writable; the sockets block,
\* so a burst larger than the room left holds the server.
ServerStartBurst ==
    /\ CtrlReadable /\ srv.state = "TEST_RUNNING" /\ Reverse(Owner)
    /\ pipe[Owner] < PipeCap
    /\ \E k \in 1 .. Burst : srv' = [srv EXCEPT !.pc = "io", !.todo = k]
    /\ UNCHANGED <<cl, net>>

ServerSendBlock ==
    /\ srv.pc = "io"
    /\ \/ /\ pipe[Owner] < PipeCap
          /\ pipe' = [pipe EXCEPT ![Owner] = @ + 1]
          /\ srv' = [srv EXCEPT !.todo = @ - 1,
                                !.pc = IF srv.todo = 1 THEN "select" ELSE "io"]
          /\ UNCHANGED <<listenQ, closed, s2c>>
       \/ WriteFails(srv.ctrl) /\ UNCHANGED pipe
    /\ UNCHANGED <<cl, cookied, c2s>>

\* SIGINT, SIGTERM or SIGHUP: iperf_got_sigend.
ServerSigend ==
    /\ srv.pc # "exit"
    /\ ServerExit
    /\ IF srv.ctrl # None THEN SendState(srv.ctrl, <<"SERVER_TERMINATE">>)
                          ELSE UNCHANGED s2c
    /\ UNCHANGED <<cl, cookied, c2s, pipe>>

-----------------------------------------------------------------------------
(* A client: connecting and creating the streams. *)

SetClient(c, new) == cl' = [cl EXCEPT ![c] = new]
At(c, pc) == [cl[c] EXCEPT !.pc = pc]
\* The process ends, and the kernel closes its connections and drops what it
\* had not read.
ClientExit(c, out) ==
    /\ SetClient(c, [cl[c] EXCEPT !.pc = "exit", !.out = out, !.todo = 0])
    /\ s2c' = [s2c EXCEPT ![c] = <<>>]
\* A failed call makes iperf_run_client return -1, and run() exits.
ClientFails(c) == ClientExit(c, "error") /\ UNCHANGED <<srv, listenQ, cookied, closed, c2s, pipe>>

\* iperf_connect: the kernel completes the connection before the server accepts.
Connect(c) ==
    /\ cl[c].pc = "init"
    /\ \/ /\ ListenerUp
          /\ \E m \in Modes : SetClient(c, [At(c, "dialed") EXCEPT !.mode = m])
          /\ listenQ' = Append(listenQ, Ctrl(c))
          /\ UNCHANGED <<srv, cookied, closed, c2s, s2c, pipe>>
       \/ ~ListenerUp /\ ClientFails(c)

WriteCookie(c) ==
    /\ cl[c].pc = "dialed"
    /\ \/ /\ SetClient(c, At(c, "select"))
          /\ cookied' = cookied \cup {Ctrl(c)}
          /\ UNCHANGED <<srv, listenQ, closed, c2s, s2c, pipe>>
       \/ ServerGone(Ctrl(c)) /\ ClientFails(c)

\* iperf_create_streams: connect, write the cookie, make the stream, once per
\* stream, without reading the control connection.
DialStream(c) ==
    /\ cl[c].pc = "streams"
    /\ \/ /\ ListenerUp
          /\ SetClient(c, [At(c, "streamCookie") EXCEPT !.dialed = @ + 1])
          /\ listenQ' = Append(listenQ, <<c, cl[c].dialed + 1>>)
          /\ UNCHANGED <<srv, cookied, closed, c2s, s2c, pipe>>
       \/ ~ListenerUp /\ ClientFails(c)

WriteStreamCookie(c) ==
    /\ cl[c].pc = "streamCookie"
    /\ \/ /\ SetClient(c, At(c, IF cl[c].dialed = NumStreams THEN "select" ELSE "streams"))
          /\ cookied' = cookied \cup {<<c, cl[c].dialed>>}
          /\ UNCHANGED <<srv, listenQ, closed, c2s, s2c, pipe>>
       \/ ClientFails(c)

-----------------------------------------------------------------------------
(* A client: iperf_handle_message_client. *)

\* The SIGALRM loop does not call select() while the test runs.
ReadsCtrl(c) ==
    /\ cl[c].pc = "select"
    /\ ~(cl[c].mode = "itimer" /\ cl[c].state = "TEST_RUNNING")
Arrived(c, m) == s2c[c] # <<>> /\ Head(s2c[c]) = m
Receives(c, m) == ReadsCtrl(c) /\ Arrived(c, m)
Received(c) == s2c' = [s2c EXCEPT ![c] = Tail(@)]

\* A message answered by one of the client's, or a write that fails.
OnParamExchange(c) ==
    /\ Receives(c, "PARAM_EXCHANGE")
    /\ \/ /\ SetClient(c, [cl[c] EXCEPT !.state = "PARAM_EXCHANGE"])
          /\ Received(c)
          /\ Send(c, "PARAMS")
          /\ UNCHANGED <<srv, listenQ, cookied, closed, pipe>>
       \/ ServerGone(Ctrl(c)) /\ ClientFails(c)

OnCreateStreams(c) ==
    /\ Receives(c, "CREATE_STREAMS")
    /\ SetClient(c, [At(c, "streams") EXCEPT !.state = "CREATE_STREAMS", !.dialed = 0])
    /\ Received(c)
    /\ UNCHANGED <<srv, listenQ, cookied, closed, c2s, pipe>>

\* The client's own timers may fail too.
OnStart(c) ==
    \/ /\ \E m \in {"TEST_START", "TEST_RUNNING"} :
            Receives(c, m) /\ SetClient(c, [cl[c] EXCEPT !.state = m])
       /\ Received(c)
       /\ UNCHANGED <<srv, listenQ, cookied, closed, c2s, pipe>>
    \/ Receives(c, "TEST_START") /\ ClientFails(c)

OnExchangeResults(c) ==
    /\ Receives(c, "EXCHANGE_RESULTS")
    /\ \/ /\ SetClient(c, [At(c, "results") EXCEPT !.state = "EXCHANGE_RESULTS"])
          /\ Received(c)
          /\ Send(c, "RESULTS")
          /\ UNCHANGED <<srv, listenQ, cookied, closed, pipe>>
       \/ ServerGone(Ctrl(c)) /\ ClientFails(c)

\* get_results: the server's document, or what JSON_read makes of a cut one.
GetResults(c) ==
    /\ cl[c].pc = "results"
    /\ \/ /\ Arrived(c, "RESULTS")
          /\ Received(c) /\ SetClient(c, [At(c, "select") EXCEPT !.got = "peer"])
          /\ UNCHANGED <<srv, listenQ, cookied, closed, c2s, pipe>>
       \/ /\ ServerGone(Ctrl(c))
          /\ ~Arrived(c, "RESULTS")
          /\ \/ ClientFails(c)
             \/ /\ s2c' = [s2c EXCEPT ![c] = <<>>]
                /\ SetClient(c, [At(c, "select") EXCEPT !.got = "memory"])
                /\ UNCHANGED <<srv, listenQ, cookied, closed, c2s, pipe>>

\* iperf_client_end sends IPERF_DONE and the loop ends; what the call returns is
\* not looked at.
OnDisplayResults(c) ==
    /\ Receives(c, "DISPLAY_RESULTS")
    /\ \/ /\ ClientExit(c, "done")
          /\ Send(c, "IPERF_DONE")
          /\ UNCHANGED <<srv, listenQ, cookied, closed, pipe>>
       \/ SigpipeKills /\ ServerGone(Ctrl(c)) /\ ClientFails(c)

\* The messages that end the client with an error, unknown ones included.
OnRefusal(c) ==
    /\ \E m \in {"ACCESS_DENIED", "SERVER_TERMINATE", "SERVER_ERROR", "RESULTS"} :
        /\ Receives(c, m)
        /\ ClientExit(c, IF m = "ACCESS_DENIED" THEN "denied" ELSE "error")
    /\ UNCHANGED <<srv, listenQ, cookied, closed, c2s, pipe>>

OnCtrlClosed(c) ==
    /\ ReadsCtrl(c)
    /\ s2c[c] = <<>>
    /\ ServerGone(Ctrl(c))
    /\ ClientFails(c)

-----------------------------------------------------------------------------
(* A client: the loop of iperf_run_client while the test runs. *)

Running(c) == cl[c].state = "TEST_RUNNING"
\* One pass moves some blocks, then looks whether the test is over. select()
\* has found nothing on the control connection, and a select-mode client writes
\* only when there is room for a first block.
StartPass(c) ==
    /\ cl[c].pc = "select" /\ Running(c)
    /\ cl[c].mode = "itimer" \/ (s2c[c] = <<>> /\ ~ServerGone(Ctrl(c)))
    /\ \E k \in 0 .. Burst :
        /\ CASE cl[c].mode = "itimer" -> k = 1
             [] cl[c].mode = "reverse" -> k <= pipe[c] /\ k <= 1
             [] OTHER -> pipe[c] < PipeCap \/ k = 0
        /\ SetClient(c, [At(c, "io") EXCEPT !.todo = k])
    /\ UNCHANGED <<srv, net>>

\* iperf_send or iperf_recv, one block.
MoveBlock(c) ==
    /\ cl[c].pc = "io" /\ cl[c].todo > 0
    /\ \/ /\ IF Reverse(c) THEN pipe[c] > 0 /\ pipe' = [pipe EXCEPT ![c] = @ - 1]
                           ELSE pipe[c] < PipeCap /\ pipe' = [pipe EXCEPT ![c] = @ + 1]
          /\ SetClient(c, [cl[c] EXCEPT !.todo = @ - 1])
          /\ UNCHANGED <<srv, listenQ, cookied, closed, c2s, s2c>>
       \/ (\E conn \in StreamsOf(c) : ServerGone(conn)) /\ ClientFails(c)

\* The test goes on: no limit reached yet.
ContinueTest(c) ==
    /\ cl[c].pc = "io" /\ cl[c].todo = 0
    /\ SetClient(c, At(c, "select"))
    /\ UNCHANGED <<srv, net>>

\* The duration, byte or block limit is reached.
SendTestEnd(c) ==
    /\ cl[c].pc = "io" /\ cl[c].todo = 0
    /\ \/ /\ SetClient(c, [At(c, "select") EXCEPT !.state = "TEST_END"])
          /\ Send(c, "TEST_END")
          /\ UNCHANGED <<srv, listenQ, cookied, closed, s2c, pipe>>
       \/ ServerGone(Ctrl(c)) /\ ClientFails(c)

\* Mutant: the client stops reading the streams once it has sent TEST_END.
DrainNothing(c) == FALSE

\* In reverse mode the client goes on reading data until the results are due, or a
\* server that has dropped the test makes a read fail.
DrainAfterEnd(c) ==
    /\ cl[c].pc = "select" /\ cl[c].state = "TEST_END" /\ Reverse(c)
    /\ \/ /\ pipe[c] > 0
          /\ pipe' = [pipe EXCEPT ![c] = @ - 1]
          /\ UNCHANGED <<cl, srv, listenQ, cookied, closed, c2s, s2c>>
       \/ ServerGone(Ctrl(c)) /\ ClientFails(c)

\* SIGINT, SIGTERM or SIGHUP: iperf_got_sigend, from wherever the process is.
ClientSigend(c) ==
    /\ cl[c].pc \notin {"init", "exit"}
    /\ ClientExit(c, "term")
    /\ Send(c, "CLIENT_TERMINATE")
    /\ UNCHANGED <<srv, listenQ, cookied, closed, pipe>>

\* SIGKILL, or the death of the app that started the process.
ClientKilled(c) ==
    /\ cl[c].pc \notin {"init", "exit"}
    /\ ClientExit(c, "killed")
    /\ UNCHANGED <<srv, listenQ, cookied, closed, c2s, pipe>>

-----------------------------------------------------------------------------
Accept == AcceptControl \/ AcceptSurplus \/ AcceptStream
HandleMessage == HandleTestEnd \/ HandleLastMessage \/ HandleCtrlClosed
FinishRead == ReadControlCookie \/ DenySurplus \/ GetParameters \/ GetParametersFails
              \/ ReadStreamCookie \/ ExchangeResults \/ ExchangeResultsFails
ServerStep == Listen \/ Accept \/ HandleMessage \/ FinishRead \/ ServerRecv
              \/ ServerStartBurst \/ ServerSendBlock

ReadMessage(c) == OnParamExchange(c) \/ OnCreateStreams(c) \/ OnStart(c)
                  \/ OnExchangeResults(c) \/ OnDisplayResults(c) \/ OnRefusal(c)
                  \/ OnCtrlClosed(c)
ClientStep(c) == WriteCookie(c) \/ DialStream(c) \/ WriteStreamCookie(c) \/ ReadMessage(c)
                 \/ GetResults(c) \/ StartPass(c) \/ MoveBlock(c) \/ ContinueTest(c)
                 \/ SendTestEnd(c) \/ DrainAfterEnd(c)

Next ==
    \/ ServerStep
    \/ ServerSigend
    \/ \E c \in Clients : Connect(c) \/ ClientStep(c) \/ ClientSigend(c) \/ ClientKilled(c)

Spec == Init /\ [][Next]_vars

\* The two processes keep running; the server looks at the control connection
\* on every pass of its loop, however much data there is; and a test has a
\* limit, which it reaches. Nobody is obliged to launch a client or to send a
\* signal.
Fairness ==
    /\ WF_vars(ServerStep) /\ SF_vars(HandleMessage)
    /\ \A c \in Clients : WF_vars(ClientStep(c)) /\ SF_vars(SendTestEnd(c))
FairSpec == Spec /\ Fairness
-----------------------------------------------------------------------------
(* Safety. *)

\* A stream counted for a test carries the test's cookie (iperf_tcp_accept),
\* except for one hole: a connection whose client died before writing its
\* cookie may be taken for a match, because the buffer compared was never
\* filled. No live client's connection ever joins another client's test.
StreamsCarryCookie ==
    \A conn \in srv.streams :
        \/ conn[1] = Owner
        \/ conn \notin cookied /\ PeerGone(conn)

\* While a client transfers data and the server has not dropped it, the server
\* is in the same test, with all the streams requested (iperf_run_server sends
\* TEST_RUNNING only then).
RunningTogether ==
    \A c \in Clients : cl[c].pc # "exit" /\ Running(c) =>
        \/ ServerGone(Ctrl(c))
        \/ /\ srv.ctrl = Ctrl(c) /\ srv.state = "TEST_RUNNING"
           /\ Cardinality(srv.streams) = NumStreams

\* A client that has got past the refusals of iperf_accept, and that the server
\* has not dropped since.
Admitted(c) == cl[c].pc # "exit" /\ cl[c].state # "START" /\ ~ServerGone(Ctrl(c))

\* The server runs one test at a time: of the clients admitted and not dropped
\* there is at most one, whatever the order of accepts, refusals and failures.
OneTest == \A c, d \in Clients : Admitted(c) /\ Admitted(d) => c = d

\* A client that ends with "iperf Done." reports results its server really sent,
\* and the server that displays results holds those of its client unless the
\* client has died meanwhile: the cut documents of JSON_read stay invisible.
ResultsExchanged ==
    /\ \A c \in Clients : cl[c].out = "done" => cl[c].got = "peer"
    /\ srv.state = "DISPLAY_RESULTS" /\ srv.ctrl # None =>
        srv.got = "peer" \/ PeerGone(srv.ctrl)

\* A client told ACCESS_DENIED had not been admitted: refusals never reach the
\* client whose test is being run.
DeniedNeverAdmitted == \A c \in Clients : cl[c].out = "denied" => cl[c].state = "START"

\* iperf_reset_test drops the streams of a failed test without closing them. A
\* stream that the server neither serves nor has closed:
Served(conn) == conn \in srv.streams \cup {srv.ctrl, srv.pend} \cup InQueue(listenQ)
Orphaned(conn) == conn[2] <= cl[conn[1]].dialed /\ ~ServerGone(conn) /\ ~Served(conn)

\* The owner of an orphaned stream can find out: its control connection has
\* been closed.
OrphansAreNotified ==
    \A c \in Clients : cl[c].pc # "exit" /\ (\E conn \in StreamsOf(c) : Orphaned(conn))
        => ServerGone(Ctrl(c))

-----------------------------------------------------------------------------
(* Liveness. *)

\* It does not always find out: a client blocked in write() on an orphaned
\* stream never returns to its control connection.
Stuck(c) ==
    /\ cl[c].pc = "io" /\ cl[c].todo > 0 /\ pipe[c] = PipeCap
    /\ \E conn \in StreamsOf(c) : Orphaned(conn)

\* Every client launched ends by itself, except those stuck as above.
ClientsEnd == \A c \in Clients : cl[c].pc # "init" ~> (cl[c].pc = "exit" \/ Stuck(c))

\* No client, alive, dead or blocked, holds the server for ever: it always gets
\* back to having no control connection. In reverse mode this rests on the
\* client reading data after TEST_END.
ServerFreed == []<>(srv.ctrl = None)

-----------------------------------------------------------------------------
(* The server implements TestSession. *)

Phase ==
    IF srv.ctrl = None THEN "free"
    ELSE CASE srv.state \in {"IPERF_START", "PARAM_EXCHANGE"} -> "setup"
           [] srv.state = "CREATE_STREAMS" -> "streams"
           [] srv.state = "TEST_RUNNING" -> "transfer"
           [] srv.state = "EXCHANGE_RESULTS" -> "results"
           [] OTHER -> "report"

Abstract == INSTANCE TestSession WITH
    Conn <- Conns, Nobody <- None, StreamsWanted <- NumStreams,
    owner <- srv.ctrl, phase <- Phase, streams <- Cardinality(srv.streams)

\* Each step of the server is a step of its test through the phases in order.
\* The server does not check the order of the messages it reads, so this rests
\* on what the clients send and when.
ImplementsSession == Abstract!Session
=============================================================================
