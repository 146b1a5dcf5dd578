------------------------- MODULE IperfControlProofs -------------------------
(***************************************************************************)
(* Theorems about IperfControl, for every set of clients, number of        *)
(* streams, buffer size and setting of the constants.                      *)
(***************************************************************************)
EXTENDS IperfControl, FiniteSetTheorems, TLAPS

-----------------------------------------------------------------------------
(* Types. *)

\* What the place a process is blocked at says about the rest of its state:
\* the server holds the connections the blocked call works on and has not used
\* up its errors, and a client dials no more streams than it should.
Blocked ==
    /\ srv.pc # "exit" => srv.errors < ErrorLimit
    /\ srv.pc \in {"cookie", "deny", "params", "stream", "io", "results"} => srv.ctrl # None
    /\ srv.pc = "select" /\ srv.state = "CREATE_STREAMS" => srv.ctrl # None
    /\ srv.pc \in {"deny", "stream"} => srv.pend # None
    /\ srv.pc = "io" => srv.todo > 0
    /\ \A c \in Clients : cl[c].pc = "streams" => cl[c].dialed < NumStreams

TypeInv == TypeOK /\ Blocked

\* The constants, and the sets they make, as the provers need them.
LEMMA Numbers ==
    /\ NumStreams \in Nat /\ NumStreams >= 1
    /\ PipeCap \in Nat /\ PipeCap >= 1
    /\ Burst \in Nat /\ Burst >= 1
    /\ ErrorLimit \in Nat /\ ErrorLimit >= 1
  BY ConstantsAssumption

LEMMA NoneNotConn == None \notin Conns
  BY ConstantsAssumption DEF Conns

LEMMA ConnFacts ==
    /\ \A c \in Clients : Ctrl(c) \in Conns /\ StreamsOf(c) \subseteq Conns
    /\ \A conn \in Conns : conn[1] \in Clients /\ conn[2] \in 0 .. NumStreams
  BY Numbers DEF Conns, Ctrl, StreamsOf

\* The server's fragments keep the types.
LEMMA SendStateType ==
    ASSUME TypeOK, NEW conn \in Conns, NEW ms \in Seq(ToClient), SendState(conn, ms)
    PROVE  s2c' \in [Clients -> Seq(ToClient)]
<1>1. conn[1] \in Clients
  BY ConnFacts
<1>2. s2c[conn[1]] \o ms \in Seq(ToClient)
  BY <1>1 DEF TypeOK
<1> QED
  BY <1>1, <1>2 DEF TypeOK, SendState

LEMMA ConsumeType ==
    ASSUME TypeOK, NEW conn \in Conns, NEW rest \in Seq(ToServer), Consume(conn, rest)
    PROVE  c2s' \in [Clients -> Seq(ToServer)]
  BY ConnFacts DEF TypeOK, Consume

LEMMA InQueueType ==
    ASSUME NEW q \in Seq(Conns) PROVE InQueue(q) \subseteq Conns
  BY DEF InQueue

LEMMA EndTestType ==
    ASSUME TypeInv, NEW e \in 0 .. ErrorLimit, NEW S \in SUBSET Conns, EndTest(e, S),
           UNCHANGED cl
    PROVE  /\ srv' \in Server /\ closed' \subseteq Conns /\ listenQ' \in Seq(Conns)
           /\ Blocked'
<1>1. InQueue(listenQ) \subseteq Conns
  BY InQueueType DEF TypeInv, TypeOK
<1>2. srv' \in Server
  BY Numbers DEF EndTest, Server, ServerPc, ServerStates, Sources
<1>3. closed' \subseteq Conns
  BY <1>1 DEF EndTest, TypeInv, TypeOK, Server
<1>4. Blocked'
  BY Numbers, NoneNotConn DEF EndTest, TypeInv, Blocked
<1> QED
  BY <1>2, <1>3, <1>4 DEF EndTest

LEMMA FailTestType ==
    ASSUME TypeInv, FailTest, srv.pc # "exit", UNCHANGED cl
    PROVE  /\ srv' \in Server /\ closed' \subseteq Conns /\ listenQ' \in Seq(Conns)
           /\ Blocked'
<1>1. srv.errors \in 0 .. ErrorLimit /\ srv.errors < ErrorLimit
  BY DEF TypeInv, TypeOK, Blocked, Server
<1>2. srv.errors + 1 \in 0 .. ErrorLimit
  BY <1>1, Numbers
<1> QED
  BY <1>2, EndTestType DEF FailTest

LEMMA ServerExitType ==
    ASSUME TypeInv, ServerExit, UNCHANGED cl
    PROVE  /\ srv' \in Server /\ closed' \subseteq Conns /\ listenQ' \in Seq(Conns)
           /\ Blocked'
<1>1. srv \in Server /\ closed \subseteq Conns
  BY DEF TypeInv, TypeOK
<1>2. srv' \in Server
  <2>1. 0 \in 0 .. Burst
    BY Numbers
  <2> QED
    BY <1>1, <2>1 DEF ServerExit, Server, ServerPc
<1>3. srv'.pc = "exit"
  BY <1>1 DEF ServerExit, Server
<1>4. Blocked'
  BY <1>3 DEF TypeInv, Blocked
<1> QED
  BY <1>1, <1>2, <1>4 DEF ServerExit

LEMMA WriteFailsType ==
    ASSUME TypeInv, NEW conn, WriteFails(conn), srv.pc # "exit", UNCHANGED cl
    PROVE  /\ srv' \in Server /\ closed' \subseteq Conns /\ listenQ' \in Seq(Conns)
           /\ Blocked' /\ s2c' \in [Clients -> Seq(ToClient)]
<1>1. s2c' \in [Clients -> Seq(ToClient)]
  BY DEF WriteFails, TypeInv, TypeOK
<1> QED
  BY <1>1, FailTestType, ServerExitType DEF WriteFails

LEMMA ReplaceListenerType ==
    ASSUME TypeOK, ReplaceListener
    PROVE  closed' \subseteq Conns /\ listenQ' \in Seq(Conns)
<1>1. InQueue(listenQ) \subseteq Conns
  BY InQueueType DEF TypeOK
<1>2. CASE closed' = closed \cup InQueue(listenQ) /\ listenQ' = <<>>
  BY <1>1, <1>2 DEF ReplaceListener, TypeOK
<1>3. CASE UNCHANGED <<closed, listenQ>>
  BY <1>3 DEF TypeOK
<1> QED
  BY <1>2, <1>3 DEF ReplaceListener

\* The connections a blocked server works on are connections.
LEMMA HeldConns ==
    ASSUME TypeInv
    PROVE  /\ srv \in Server
           /\ srv.pc \in {"cookie", "deny", "params", "stream", "io", "results"}
                => srv.ctrl \in Conns
           /\ srv.pc = "select" /\ srv.ctrl # None => srv.ctrl \in Conns
           /\ srv.pc \in {"deny", "stream"} => srv.pend \in Conns
  BY DEF TypeInv, TypeOK, Blocked, Server

LEMMA InboxType ==
    ASSUME TypeOK, NEW conn \in Conns
    PROVE  /\ Inbox(conn) \in Seq(ToServer)
           /\ Inbox(conn) # <<>> => Tail(Inbox(conn)) \in Seq(ToServer)
<1>1. Inbox(conn) \in Seq(ToServer)
  BY ConnFacts DEF Inbox, TypeOK
<1> QED
  BY <1>1

LEMMA ConsumeJsonType ==
    ASSUME TypeOK, NEW conn \in Conns, NEW doc,
           \/ JsonWhole(conn, doc) /\ Consume(conn, Tail(Inbox(conn)))
           \/ JsonCut(conn, doc) /\ Consume(conn, <<>>)
    PROVE  c2s' \in [Clients -> Seq(ToServer)]
<1>1. CASE JsonWhole(conn, doc) /\ Consume(conn, Tail(Inbox(conn)))
  BY <1>1, InboxType, ConsumeType DEF JsonWhole
<1>2. CASE Consume(conn, <<>>)
  <2>1. <<>> \in Seq(ToServer)
    OBVIOUS
  <2> QED
    BY <1>2, <2>1, ConsumeType
<1> QED
  BY <1>1, <1>2

LEMMA RefuseType ==
    ASSUME TypeInv, srv.pc \in {"deny", "stream"}, UNCHANGED cl, Refuse(srv.pend)
    PROVE  /\ srv' \in Server /\ closed' \subseteq Conns /\ listenQ' \in Seq(Conns)
           /\ Blocked' /\ s2c' \in [Clients -> Seq(ToClient)]
<1> DEFINE sent == /\ srv' = [srv EXCEPT !.pc = "select", !.pend = None]
                   /\ SendState(srv.pend, <<"ACCESS_DENIED">>)
                   /\ closed' = closed \cup {srv.pend}
                   /\ UNCHANGED listenQ
<1>1. CASE sent
  <2>1. <<"ACCESS_DENIED">> \in Seq(ToClient)
    BY DEF ToClient
  <2>2. s2c' \in [Clients -> Seq(ToClient)]
    BY <1>1, <2>1, HeldConns, SendStateType DEF TypeInv
  <2>3. srv' \in Server
    BY <1>1, HeldConns DEF Server, ServerPc
  <2>4. Blocked'
    BY <1>1, HeldConns DEF TypeInv, Blocked, Server
  <2> QED
    BY <1>1, <2>2, <2>3, <2>4, HeldConns DEF TypeInv, TypeOK
<1>2. CASE WriteFails(srv.pend)
  BY <1>2, WriteFailsType
<1> QED
  BY <1>1, <1>2 DEF Refuse

\* One lemma per group of the server's actions: they keep the types.
LEMMA AcceptType ==
    ASSUME TypeInv, Listen \/ Accept PROVE TypeInv'
<1> USE HeldConns
<1>1. CASE Listen
  <2>1. CASE srv' = [srv EXCEPT !.pc = "select", !.state = "IPERF_START"]
             /\ UNCHANGED <<listenQ, closed>>
    <3>1. srv' \in Server
      BY <2>1 DEF Server, ServerPc, ServerStates
    <3>2. Blocked'
      BY <1>1, <2>1 DEF Listen, TypeInv, Blocked, Server
    <3> QED
      BY <1>1, <2>1, <3>1, <3>2 DEF Listen, TypeInv, TypeOK
  <2>2. CASE FailTest
    BY <1>1, <2>2, FailTestType DEF Listen, TypeInv, TypeOK
  <2> QED
    BY <1>1, <2>1, <2>2 DEF Listen
<1>2. CASE Accept
  <2>1. listenQ # <<>> /\ listenQ \in Seq(Conns)
    BY <1>2 DEF Accept, AcceptControl, AcceptSurplus, AcceptStream, TypeInv, TypeOK
  <2>2. Head(listenQ) \in Conns /\ Tail(listenQ) \in Seq(Conns)
    BY <2>1
  <2>3. srv' \in Server
    BY <1>2, <2>2 DEF Accept, AcceptControl, AcceptSurplus, AcceptStream, Server, ServerPc
  <2>4. Blocked'
    BY <1>2, <2>2, NoneNotConn DEF Accept, AcceptControl, AcceptSurplus, AcceptStream,
                                   TypeInv, Blocked, Server
  <2> QED
    BY <1>2, <2>2, <2>3, <2>4 DEF Accept, AcceptControl, AcceptSurplus, AcceptStream,
                                  TypeInv, TypeOK
<1> QED
  BY <1>1, <1>2

LEMMA ControlReadType ==
    ASSUME TypeInv, ReadControlCookie \/ DenySurplus \/ GetParameters \/ GetParametersFails
    PROVE  TypeInv'
<1> USE HeldConns
<1>1. CASE ReadControlCookie
  <2>1. CASE srv' = [srv EXCEPT !.pc = "params", !.state = "PARAM_EXCHANGE"]
             /\ SendState(srv.ctrl, <<"PARAM_EXCHANGE">>) /\ UNCHANGED <<listenQ, closed>>
    <3>1. <<"PARAM_EXCHANGE">> \in Seq(ToClient)
      BY DEF ToClient
    <3>2. s2c' \in [Clients -> Seq(ToClient)]
      BY <1>1, <2>1, <3>1, SendStateType DEF ReadControlCookie, TypeInv
    <3>3. srv' \in Server
      BY <2>1 DEF Server, ServerPc, ServerStates
    <3>4. Blocked'
      BY <1>1, <2>1 DEF ReadControlCookie, TypeInv, Blocked, Server
    <3> QED
      BY <1>1, <2>1, <3>2, <3>3, <3>4 DEF ReadControlCookie, TypeInv, TypeOK
  <2>2. CASE WriteFails(srv.ctrl)
    BY <1>1, <2>2, WriteFailsType DEF ReadControlCookie, TypeInv, TypeOK
  <2> QED
    BY <1>1, <2>1, <2>2 DEF ReadControlCookie
<1>2. CASE DenySurplus
  BY <1>2, RefuseType DEF DenySurplus, TypeInv, TypeOK
<1>3. CASE GetParameters
  <2>1. srv.ctrl \in Conns /\ srv.pc = "params"
    BY <1>3 DEF GetParameters
  <2>2. c2s' \in [Clients -> Seq(ToServer)]
    BY <1>3, <2>1, ConsumeJsonType DEF GetParameters, TypeInv
  <2>3. CASE ListenForStreams
    <3>1. <<"CREATE_STREAMS">> \in Seq(ToClient)
      BY DEF ToClient
    <3>2. s2c' \in [Clients -> Seq(ToClient)]
      BY <2>1, <2>3, <3>1, SendStateType DEF ListenForStreams, TypeInv
    <3>3. srv' \in Server
      BY <2>3 DEF ListenForStreams, Server, ServerPc, ServerStates
    <3>4. Blocked'
      BY <1>3, <2>1, <2>3, NoneNotConn DEF GetParameters, ListenForStreams, TypeInv, Blocked, Server
    <3>5. closed' \subseteq Conns /\ listenQ' \in Seq(Conns)
      BY <2>3, ReplaceListenerType DEF ListenForStreams, TypeInv
    <3> QED
      BY <1>3, <2>2, <3>2, <3>3, <3>4, <3>5 DEF GetParameters, TypeInv, TypeOK
  <2>4. ASSUME FailTest, NEW m \in {"SERVER_ERROR", "CREATE_STREAMS"},
               SendState(srv.ctrl, <<m>>)
        PROVE  TypeInv'
    <3>1. <<m>> \in Seq(ToClient)
      BY DEF ToClient
    <3>2. s2c' \in [Clients -> Seq(ToClient)]
      BY <2>1, <2>4, <3>1, SendStateType DEF TypeInv
    <3> QED
      BY <1>3, <2>1, <2>2, <2>4, <3>2, FailTestType DEF GetParameters, TypeInv, TypeOK
  <2>5. CASE WriteFails(srv.ctrl)
    BY <1>3, <2>1, <2>2, <2>5, WriteFailsType DEF GetParameters, TypeInv, TypeOK
  <2> QED
    BY <1>3, <2>3, <2>4, <2>5 DEF GetParameters
<1>4. CASE GetParametersFails
  BY <1>4, FailTestType DEF GetParametersFails, TypeInv, TypeOK
<1> QED
  BY <1>1, <1>2, <1>3, <1>4

LEMMA StreamReadType ==
    ASSUME TypeInv, ReadStreamCookie PROVE TypeInv'
<1> USE HeldConns
<1>1. srv.pc = "stream" /\ srv.pend \in Conns /\ srv.ctrl \in Conns /\ UNCHANGED cl
  BY DEF ReadStreamCookie
<1>2. ASSUME AddStream(srv.pend)
      PROVE  /\ srv' \in Server /\ closed' \subseteq Conns /\ listenQ' \in Seq(Conns)
             /\ Blocked' /\ s2c' \in [Clients -> Seq(ToClient)]
  <2> DEFINE streams == srv.streams \cup {srv.pend}
  <2>0. streams \in SUBSET Conns
    BY <1>1 DEF Server
  <2>1. CASE /\ srv' = [srv EXCEPT !.pc = "select", !.pend = None, !.streams = streams]
             /\ UNCHANGED <<listenQ, closed, s2c>>
    <3>1. srv' \in Server
      BY <2>0, <2>1 DEF Server, ServerPc
    <3>2. Blocked'
      BY <1>1, <2>1 DEF TypeInv, Blocked, Server
    <3> QED
      BY <2>1, <3>1, <3>2 DEF TypeInv, TypeOK
  <2>2. CASE StartTest(streams)
    <3>1. CASE /\ srv' = [srv EXCEPT !.pc = "select", !.state = "TEST_RUNNING",
                                     !.pend = None, !.streams = streams]
               /\ SendState(srv.ctrl, <<"TEST_START", "TEST_RUNNING">>)
               /\ ReplaceListener
      <4>1. <<"TEST_START", "TEST_RUNNING">> \in Seq(ToClient)
        BY DEF ToClient
      <4>2. s2c' \in [Clients -> Seq(ToClient)]
        BY <1>1, <3>1, <4>1, SendStateType DEF TypeInv
      <4>3. srv' \in Server
        BY <2>0, <3>1 DEF Server, ServerPc, ServerStates
      <4>4. Blocked'
        BY <1>1, <3>1 DEF TypeInv, Blocked, Server
      <4> QED
        BY <3>1, <4>2, <4>3, <4>4, ReplaceListenerType DEF TypeInv
    <3>2. CASE Relisten /\ FailTest /\ UNCHANGED s2c
      BY <1>1, <3>2, FailTestType DEF TypeInv, TypeOK
    <3>3. CASE WriteFails(srv.ctrl)
      BY <1>1, <3>3, WriteFailsType
    <3>4. CASE FailTest /\ SendState(srv.ctrl, <<"TEST_START">>)
      <4>1. <<"TEST_START">> \in Seq(ToClient)
        BY DEF ToClient
      <4>2. s2c' \in [Clients -> Seq(ToClient)]
        BY <1>1, <3>4, <4>1, SendStateType DEF TypeInv
      <4> QED
        BY <1>1, <3>4, <4>2, FailTestType
    <3> QED
      BY <2>2, <3>1, <3>2, <3>3, <3>4 DEF StartTest
  <2>3. CASE (FailTest \/ ServerExit) /\ UNCHANGED s2c
    BY <1>1, <2>3, FailTestType, ServerExitType DEF TypeInv, TypeOK
  <2> QED
    BY <1>2, <2>1, <2>2, <2>3 DEF AddStream
<1>3. CASE AddStream(srv.pend)
  BY <1>2, <1>3 DEF ReadStreamCookie, TypeInv, TypeOK
<1>4. CASE Refuse(srv.pend)
  BY <1>1, <1>4, RefuseType DEF ReadStreamCookie, TypeInv, TypeOK
<1> QED
  BY <1>3, <1>4 DEF ReadStreamCookie

LEMMA ResultsType ==
    ASSUME TypeInv, HandleTestEnd \/ ExchangeResults \/ ExchangeResultsFails PROVE TypeInv'
<1> USE HeldConns
<1>1. CASE HandleTestEnd
  <2>1. srv.ctrl \in Conns /\ srv.pc = "select" /\ UNCHANGED <<cl, cookied, pipe>>
    BY <1>1 DEF HandleTestEnd, CtrlReadable
  <2>2. c2s' \in [Clients -> Seq(ToServer)]
    BY <1>1, <2>1, InboxType, ConsumeType DEF HandleTestEnd, TypeInv
  <2>3. CASE /\ srv' = [srv EXCEPT !.pc = "results", !.state = "EXCHANGE_RESULTS"]
             /\ closed' = closed \cup srv.streams
             /\ SendState(srv.ctrl, <<"EXCHANGE_RESULTS">>)
             /\ UNCHANGED listenQ
    <3>1. <<"EXCHANGE_RESULTS">> \in Seq(ToClient)
      BY DEF ToClient
    <3>2. s2c' \in [Clients -> Seq(ToClient)]
      BY <2>1, <2>3, <3>1, SendStateType DEF TypeInv
    <3>3. srv' \in Server
      BY <2>3 DEF Server, ServerPc, ServerStates
    <3>4. Blocked'
      BY <2>1, <2>3, NoneNotConn DEF TypeInv, Blocked, Server
    <3>5. closed' \subseteq Conns
      BY <2>3 DEF TypeInv, TypeOK, Server
    <3> QED
      BY <2>1, <2>2, <2>3, <3>2, <3>3, <3>4, <3>5 DEF TypeInv, TypeOK
  <2>4. CASE WriteFails(srv.ctrl)
    BY <2>1, <2>2, <2>4, WriteFailsType DEF TypeInv, TypeOK
  <2> QED
    BY <1>1, <2>3, <2>4 DEF HandleTestEnd
<1>2. CASE ExchangeResults
  <2>1. srv.ctrl \in Conns /\ srv.pc = "results" /\ UNCHANGED <<cl, cookied, pipe>>
    BY <1>2 DEF ExchangeResults
  <2>2. c2s' \in [Clients -> Seq(ToServer)]
    BY <1>2, <2>1, ConsumeJsonType DEF ExchangeResults, TypeInv
  <2> DEFINE from == IF JsonWhole(srv.ctrl, "RESULTS") THEN "peer" ELSE "memory"
  <2>3. CASE /\ srv' = [srv EXCEPT !.pc = "select", !.state = "DISPLAY_RESULTS", !.got = from]
             /\ SendState(srv.ctrl, <<"RESULTS", "DISPLAY_RESULTS">>)
             /\ UNCHANGED <<listenQ, closed>>
    <3>1. <<"RESULTS", "DISPLAY_RESULTS">> \in Seq(ToClient)
      BY DEF ToClient
    <3>2. s2c' \in [Clients -> Seq(ToClient)]
      BY <2>1, <2>3, <3>1, SendStateType DEF TypeInv
    <3>3. from \in Sources
      BY DEF Sources
    <3> HIDE DEF from
    <3>4. srv' \in Server
      BY <2>3, <3>3 DEF Server, ServerPc, ServerStates
    <3>5. Blocked'
      BY <2>1, <2>3, NoneNotConn DEF TypeInv, Blocked, Server
    <3> QED
      BY <2>1, <2>2, <2>3, <3>2, <3>4, <3>5 DEF TypeInv, TypeOK
  <2>4. CASE WriteFails(srv.ctrl)
    BY <2>1, <2>2, <2>4, WriteFailsType DEF TypeInv, TypeOK
  <2> QED
    BY <1>2, <2>3, <2>4 DEF ExchangeResults
<1>3. CASE ExchangeResultsFails
  BY <1>3, FailTestType DEF ExchangeResultsFails, TypeInv, TypeOK
<1> QED
  BY <1>1, <1>2, <1>3

LEMMA LastMessageType ==
    ASSUME TypeInv, HandleLastMessage \/ HandleCtrlClosed PROVE TypeInv'
<1> USE HeldConns
<1>1. srv.ctrl \in Conns /\ srv.pc = "select" /\ UNCHANGED <<cl, cookied, s2c, pipe>>
  BY DEF HandleLastMessage, HandleCtrlClosed, CtrlReadable
<1>2. c2s' \in [Clients -> Seq(ToServer)]
  BY <1>1, InboxType, ConsumeType DEF HandleLastMessage, HandleCtrlClosed, TypeInv, TypeOK
<1>3. EndTest(0, {}) \/ EndTest(0, srv.streams) \/ FailTest \/ ServerExit
  BY DEF HandleLastMessage, HandleCtrlClosed
<1>4. 0 \in 0 .. ErrorLimit /\ {} \in SUBSET Conns /\ srv.streams \in SUBSET Conns
  BY Numbers DEF Server
<1>5. /\ srv' \in Server /\ closed' \subseteq Conns /\ listenQ' \in Seq(Conns)
      /\ Blocked'
  <2>1. CASE EndTest(0, {})
    BY <1>1, <1>4, <2>1, EndTestType
  <2>2. CASE EndTest(0, srv.streams)
    BY <1>1, <1>4, <2>2, EndTestType
  <2>3. CASE FailTest
    BY <1>1, <2>3, FailTestType
  <2>4. CASE ServerExit
    BY <1>1, <2>4, ServerExitType
  <2> QED
    BY <1>3, <2>1, <2>2, <2>3, <2>4
<1> QED
  BY <1>1, <1>2, <1>5 DEF TypeInv, TypeOK

LEMMA ServerDataType ==
    ASSUME TypeInv, ServerRecv \/ ServerStartBurst \/ ServerSendBlock PROVE TypeInv'
<1> USE HeldConns
<1>1. Owner \in Clients /\ pipe[Owner] \in 0 .. PipeCap
  BY ConnFacts DEF ServerRecv, ServerStartBurst, ServerSendBlock, CtrlReadable, Owner,
                   TypeInv, TypeOK
<1>2. CASE ServerRecv
  <2>1. CASE pipe[Owner] > 0 /\ pipe' = [pipe EXCEPT ![Owner] = @ - 1]
             /\ UNCHANGED <<srv, listenQ, closed>>
    <3>1. pipe[Owner] - 1 \in 0 .. PipeCap
      BY <1>1, <2>1, Numbers
    <3>2. pipe' \in [Clients -> 0 .. PipeCap]
      BY <1>1, <2>1, <3>1 DEF TypeInv, TypeOK
    <3> QED
      BY <1>2, <2>1, <3>2 DEF ServerRecv, TypeInv, TypeOK, Blocked
  <2>2. CASE FailTest /\ UNCHANGED pipe
    BY <1>2, <2>2, FailTestType DEF ServerRecv, CtrlReadable, TypeInv, TypeOK
  <2> QED
    BY <1>2, <2>1, <2>2 DEF ServerRecv
<1>3. CASE ServerStartBurst
  <2>1. PICK k \in 1 .. Burst : srv' = [srv EXCEPT !.pc = "io", !.todo = k]
    BY <1>3 DEF ServerStartBurst
  <2>2. k \in 0 .. Burst /\ k > 0
    BY Numbers
  <2>3. srv' \in Server
    BY <2>1, <2>2 DEF Server, ServerPc
  <2>4. Blocked'
    BY <1>3, <2>1, <2>2 DEF ServerStartBurst, CtrlReadable, TypeInv, Blocked, Server
  <2> QED
    BY <1>3, <2>3, <2>4 DEF ServerStartBurst, net, TypeInv, TypeOK
<1>4. CASE ServerSendBlock
  <2>1. CASE /\ pipe[Owner] < PipeCap /\ pipe' = [pipe EXCEPT ![Owner] = @ + 1]
             /\ srv' = [srv EXCEPT !.todo = @ - 1,
                                   !.pc = IF srv.todo = 1 THEN "select" ELSE "io"]
             /\ UNCHANGED <<listenQ, closed, s2c>>
    <3>1. pipe[Owner] + 1 \in 0 .. PipeCap
      BY <1>1, <2>1, Numbers
    <3>2. pipe' \in [Clients -> 0 .. PipeCap]
      BY <1>1, <2>1, <3>1 DEF TypeInv, TypeOK
    <3>3. srv.todo \in 0 .. Burst /\ srv.todo > 0
      BY <1>4 DEF ServerSendBlock, TypeInv, Blocked, Server
    <3>4. srv.todo - 1 \in 0 .. Burst /\ (srv.todo # 1 => srv.todo - 1 > 0)
      BY <3>3, Numbers
    <3>5. srv' \in Server
      BY <2>1, <3>4 DEF Server, ServerPc
    <3>6. Blocked'
      BY <1>4, <2>1, <3>4 DEF ServerSendBlock, TypeInv, Blocked, Server
    <3> QED
      BY <1>4, <2>1, <3>2, <3>5, <3>6 DEF ServerSendBlock, TypeInv, TypeOK
  <2>2. CASE WriteFails(srv.ctrl) /\ UNCHANGED pipe
    BY <1>4, <2>2, WriteFailsType DEF ServerSendBlock, TypeInv, TypeOK
  <2> QED
    BY <1>4, <2>1, <2>2 DEF ServerSendBlock
<1> QED
  BY <1>2, <1>3, <1>4

LEMMA ServerSigendType ==
    ASSUME TypeInv, ServerSigend PROVE TypeInv'
<1>1. s2c' \in [Clients -> Seq(ToClient)]
  <2>1. CASE srv.ctrl = None
    BY <2>1 DEF ServerSigend, TypeInv, TypeOK
  <2>2. CASE srv.ctrl # None
    <3>1. <<"SERVER_TERMINATE">> \in Seq(ToClient)
      BY DEF ToClient
    <3>2. srv.ctrl \in Conns
      BY <2>2 DEF TypeInv, TypeOK, Server
    <3> QED
      BY <2>2, <3>1, <3>2, SendStateType DEF ServerSigend, TypeInv
  <2> QED
    BY <2>1, <2>2
<1> QED
  BY <1>1, ServerExitType DEF ServerSigend, TypeInv, TypeOK

\* A client's actions change its record and the channels it uses.
LEMMA SetClientType ==
    ASSUME TypeInv, NEW c \in Clients, NEW new \in Client, SetClient(c, new), UNCHANGED srv,
           new.pc = "streams" => new.dialed < NumStreams
    PROVE  cl' \in [Clients -> Client] /\ srv' \in Server /\ Blocked'
<1>1. cl' \in [Clients -> Client]
  BY DEF TypeInv, TypeOK, SetClient
<1>2. \A d \in Clients : cl'[d].pc = "streams" => cl'[d].dialed < NumStreams
  BY DEF TypeInv, TypeOK, Blocked, SetClient
<1> QED
  BY <1>1, <1>2 DEF TypeInv, TypeOK, Blocked

LEMMA ClientFacts ==
    ASSUME TypeInv, NEW c \in Clients
    PROVE  /\ cl[c] \in Client
           /\ s2c[c] \in Seq(ToClient)
           /\ cl[c].pc = "streams" => cl[c].dialed < NumStreams
           /\ pipe[c] \in 0 .. PipeCap
  BY DEF TypeInv, TypeOK, Blocked

LEMMA ClientExitType ==
    ASSUME TypeInv, NEW c \in Clients, NEW out \in Outcomes, ClientExit(c, out), UNCHANGED srv
    PROVE  /\ cl' \in [Clients -> Client] /\ srv' \in Server /\ Blocked'
           /\ s2c' \in [Clients -> Seq(ToClient)]
<1> DEFINE new == [cl[c] EXCEPT !.pc = "exit", !.out = out, !.todo = 0]
<1>0. 0 \in 0 .. Burst /\ cl[c] \in Client
  BY Numbers, ClientFacts
<1>1. new \in Client /\ new.pc = "exit"
  BY <1>0 DEF Client, ClientPc
<1>2. SetClient(c, new)
  BY DEF ClientExit
<1>3. s2c' \in [Clients -> Seq(ToClient)]
  BY DEF ClientExit, TypeInv, TypeOK
<1> HIDE DEF new
<1> QED
  BY <1>1, <1>2, <1>3, SetClientType

LEMMA ClientFailsType ==
    ASSUME TypeInv, NEW c \in Clients, ClientFails(c) PROVE TypeInv'
<1>1. "error" \in Outcomes
  BY DEF Outcomes
<1> QED
  BY <1>1, ClientExitType DEF ClientFails, TypeInv, TypeOK

LEMMA SendType ==
    ASSUME TypeOK, NEW c \in Clients, NEW m \in ToServer, Send(c, m)
    PROVE  c2s' \in [Clients -> Seq(ToServer)]
<1>1. Append(c2s[c], m) \in Seq(ToServer)
  BY DEF TypeOK
<1> QED
  BY <1>1 DEF TypeOK, Send

LEMMA ReceivedType ==
    ASSUME TypeOK, NEW c \in Clients, s2c[c] # <<>>, Received(c)
    PROVE  s2c' \in [Clients -> Seq(ToClient)]
<1>1. Tail(s2c[c]) \in Seq(ToClient)
  BY DEF TypeOK
<1> QED
  BY <1>1 DEF TypeOK, Received

LEMMA ConnectType ==
    ASSUME TypeInv, NEW c \in Clients,
           Connect(c) \/ WriteCookie(c) \/ DialStream(c) \/ WriteStreamCookie(c)
    PROVE  TypeInv'
<1> USE ClientFacts
<1>1. CASE ClientFails(c)
  BY <1>1, ClientFailsType
<1>2. CASE Connect(c) /\ ~ClientFails(c)
  <2>1. PICK m \in Modes : SetClient(c, [At(c, "dialed") EXCEPT !.mode = m])
    BY <1>2 DEF Connect
  <2> DEFINE new == [At(c, "dialed") EXCEPT !.mode = m]
  <2>2. new \in Client /\ new.pc = "dialed"
    BY DEF At, Client, ClientPc
  <2>3. Append(listenQ, Ctrl(c)) \in Seq(Conns)
    BY ConnFacts DEF TypeInv, TypeOK
  <2> HIDE DEF new
  <2> QED
    BY <1>2, <2>1, <2>2, <2>3, SetClientType DEF Connect, TypeInv, TypeOK, new
<1>3. CASE WriteCookie(c) /\ ~ClientFails(c)
  <2>1. At(c, "select") \in Client /\ At(c, "select").pc = "select"
    BY DEF At, Client, ClientPc
  <2>2. cookied \cup {Ctrl(c)} \subseteq Conns
    BY ConnFacts DEF TypeInv, TypeOK
  <2> QED
    BY <1>3, <2>1, <2>2, SetClientType DEF WriteCookie, TypeInv, TypeOK
<1>4. CASE DialStream(c) /\ ~ClientFails(c)
  <2> DEFINE new == [At(c, "streamCookie") EXCEPT !.dialed = @ + 1]
  <2>1. cl[c].dialed \in 0 .. NumStreams /\ cl[c].dialed < NumStreams
    BY <1>4 DEF DialStream, Client
  <2>2. cl[c].dialed + 1 \in 0 .. NumStreams
    BY <2>1, Numbers
  <2>3. new \in Client /\ new.pc = "streamCookie"
    BY <2>2 DEF At, Client, ClientPc
  <2>4. Append(listenQ, <<c, cl[c].dialed + 1>>) \in Seq(Conns)
    BY <2>2 DEF TypeInv, TypeOK, Conns
  <2> HIDE DEF new
  <2> QED
    BY <1>4, <2>3, <2>4, SetClientType DEF DialStream, TypeInv, TypeOK, new
<1>5. CASE WriteStreamCookie(c) /\ ~ClientFails(c)
  <2> DEFINE pc == IF cl[c].dialed = NumStreams THEN "select" ELSE "streams"
  <2>1. cl[c].dialed \in 0 .. NumStreams
    BY DEF Client
  <2>2. At(c, pc) \in Client
    BY DEF At, Client, ClientPc
  <2>3. At(c, pc).pc = "streams" => At(c, pc).dialed < NumStreams
    <3>1. At(c, pc).pc = pc /\ At(c, pc).dialed = cl[c].dialed
      BY DEF At, Client
    <3>2. cl[c].dialed # NumStreams => cl[c].dialed < NumStreams
      BY <2>1, Numbers
    <3> QED
      BY <3>1, <3>2
  <2>4. cookied \cup {<<c, cl[c].dialed>>} \subseteq Conns
    BY <2>1 DEF TypeInv, TypeOK, Conns
  <2> HIDE DEF pc
  <2> QED
    BY <1>5, <2>2, <2>3, <2>4, SetClientType DEF WriteStreamCookie, TypeInv, TypeOK, pc
<1> QED
  BY <1>1, <1>2, <1>3, <1>4, <1>5

LEMMA ReadMessageType ==
    ASSUME TypeInv, NEW c \in Clients, ReadMessage(c) \/ GetResults(c) PROVE TypeInv'
<1> USE ClientFacts
<1>1. CASE ClientFails(c)
  BY <1>1, ClientFailsType
<1>2. ASSUME NEW st \in ClientStates,
             SetClient(c, [cl[c] EXCEPT !.state = st]), cl[c].pc = "select",
             UNCHANGED <<srv, listenQ, cookied, closed, pipe>>,
             s2c[c] # <<>>, Received(c), c2s' \in [Clients -> Seq(ToServer)]
      PROVE  TypeInv'
  <2> DEFINE new == [cl[c] EXCEPT !.state = st]
  <2>1. new \in Client /\ new.pc = "select"
    BY <1>2 DEF Client
  <2> HIDE DEF new
  <2>2. cl' \in [Clients -> Client] /\ Blocked'
    BY <1>2, <2>1, SetClientType DEF new
  <2> QED
    BY <1>2, <2>2, ReceivedType DEF TypeInv, TypeOK
<1>3. CASE OnParamExchange(c) /\ ~ClientFails(c)
  <2>1. "PARAMS" \in ToServer /\ "PARAM_EXCHANGE" \in ClientStates
    BY DEF ToServer, ClientStates
  <2> QED
    BY <1>2, <1>3, <2>1, SendType DEF OnParamExchange, Receives, ReadsCtrl, Arrived, TypeInv
<1>4. CASE OnCreateStreams(c)
  <2> DEFINE new == [At(c, "streams") EXCEPT !.state = "CREATE_STREAMS", !.dialed = 0]
  <2>1. 0 \in 0 .. NumStreams /\ 0 < NumStreams
    BY Numbers
  <2>2. new \in Client /\ new.dialed = 0
    BY <2>1 DEF At, Client, ClientPc, ClientStates
  <2> HIDE DEF new
  <2>3. cl' \in [Clients -> Client] /\ Blocked'
    BY <1>4, <2>1, <2>2, SetClientType DEF OnCreateStreams, new
  <2> QED
    BY <1>4, <2>3, ReceivedType DEF OnCreateStreams, Receives, Arrived, TypeInv, TypeOK
<1>5. CASE OnStart(c) /\ ~ClientFails(c)
  <2>1. PICK m \in {"TEST_START", "TEST_RUNNING"} :
          Receives(c, m) /\ SetClient(c, [cl[c] EXCEPT !.state = m])
    BY <1>5 DEF OnStart
  <2>2. m \in ClientStates
    BY DEF ClientStates
  <2> QED
    BY <1>2, <1>5, <2>1, <2>2 DEF OnStart, Receives, ReadsCtrl, Arrived, TypeInv, TypeOK
<1>6. CASE OnExchangeResults(c) /\ ~ClientFails(c)
  <2> DEFINE new == [At(c, "results") EXCEPT !.state = "EXCHANGE_RESULTS"]
  <2>1. new \in Client /\ new.pc = "results"
    BY DEF At, Client, ClientPc, ClientStates
  <2>2. "RESULTS" \in ToServer
    BY DEF ToServer
  <2> HIDE DEF new
  <2>3. cl' \in [Clients -> Client] /\ Blocked'
    BY <1>6, <2>1, SetClientType DEF OnExchangeResults, new
  <2> QED
    BY <1>6, <2>2, <2>3, ReceivedType, SendType
    DEF OnExchangeResults, Receives, Arrived, TypeInv, TypeOK
<1>7. CASE GetResults(c) /\ ~ClientFails(c)
  <2>1. PICK g \in {"peer", "memory"} : SetClient(c, [At(c, "select") EXCEPT !.got = g])
    BY <1>7 DEF GetResults
  <2> DEFINE new == [At(c, "select") EXCEPT !.got = g]
  <2>2. new \in Client /\ new.pc = "select"
    BY DEF At, Client, ClientPc, Sources
  <2>3. s2c' \in [Clients -> Seq(ToClient)]
    <3>1. CASE Arrived(c, "RESULTS")
      BY <1>7, <3>1, ReceivedType DEF GetResults, Arrived, TypeInv
    <3>2. CASE ~Arrived(c, "RESULTS")
      <4>1. s2c' = [s2c EXCEPT ![c] = <<>>]
        BY <1>7, <3>2 DEF GetResults
      <4> QED
        BY <4>1 DEF TypeInv, TypeOK
    <3> QED
      BY <3>1, <3>2
  <2> HIDE DEF new
  <2>4. UNCHANGED <<srv, listenQ, cookied, closed, c2s, pipe>>
    BY <1>7 DEF GetResults
  <2>5. cl' \in [Clients -> Client] /\ Blocked'
    BY <2>1, <2>2, <2>4, SetClientType DEF new
  <2> QED
    BY <2>3, <2>4, <2>5 DEF TypeInv, TypeOK
<1>8. CASE OnDisplayResults(c) /\ ~ClientFails(c)
  <2>1. "done" \in Outcomes /\ "IPERF_DONE" \in ToServer
    BY DEF Outcomes, ToServer
  <2> QED
    BY <1>8, <2>1, ClientExitType, SendType DEF OnDisplayResults, TypeInv, TypeOK
<1>9. CASE OnRefusal(c)
  <2>1. PICK o \in Outcomes : ClientExit(c, o)
    BY <1>9 DEF OnRefusal, Outcomes
  <2> QED
    BY <1>9, <2>1, ClientExitType DEF OnRefusal, TypeInv, TypeOK
<1>10. CASE OnCtrlClosed(c)
  BY <1>1, <1>10 DEF OnCtrlClosed
<1> QED
  BY <1>1, <1>3, <1>4, <1>5, <1>6, <1>7, <1>8, <1>9, <1>10 DEF ReadMessage

LEMMA PassType ==
    ASSUME TypeInv, NEW c \in Clients,
           StartPass(c) \/ MoveBlock(c) \/ ContinueTest(c) \/ SendTestEnd(c) \/ DrainAfterEnd(c)
    PROVE  TypeInv'
<1> USE ClientFacts
<1>1. CASE ClientFails(c)
  BY <1>1, ClientFailsType
<1>2. ASSUME NEW new \in Client, SetClient(c, new), new.pc # "streams",
             UNCHANGED <<srv, listenQ, cookied, closed, s2c>>,
             c2s' \in [Clients -> Seq(ToServer)], pipe' \in [Clients -> 0 .. PipeCap]
      PROVE  TypeInv'
  BY <1>2, SetClientType DEF TypeInv, TypeOK
<1>3. CASE StartPass(c)
  <2>1. PICK k \in 0 .. Burst : SetClient(c, [At(c, "io") EXCEPT !.todo = k])
    BY <1>3 DEF StartPass
  <2> DEFINE new == [At(c, "io") EXCEPT !.todo = k]
  <2>2. new \in Client /\ new.pc = "io"
    BY DEF At, Client, ClientPc
  <2> HIDE DEF new
  <2> QED
    BY <1>2, <1>3, <2>1, <2>2 DEF StartPass, net, TypeInv, TypeOK, new
<1>4. CASE MoveBlock(c) /\ ~ClientFails(c)
  <2> DEFINE new == [cl[c] EXCEPT !.todo = @ - 1]
  <2>1. cl[c].todo \in 0 .. Burst /\ cl[c].todo > 0 /\ cl[c].pc = "io"
    BY <1>4 DEF MoveBlock, Client
  <2>2. cl[c].todo - 1 \in 0 .. Burst
    BY <2>1, Numbers
  <2>3. new \in Client /\ new.pc = "io"
    BY <2>1, <2>2 DEF Client
  <2>4. /\ pipe[c] > 0 => pipe[c] - 1 \in 0 .. PipeCap
        /\ pipe[c] < PipeCap => pipe[c] + 1 \in 0 .. PipeCap
    BY Numbers
  <2>5. pipe' \in [Clients -> 0 .. PipeCap]
    BY <1>4, <2>4 DEF MoveBlock, TypeInv, TypeOK
  <2> HIDE DEF new
  <2> QED
    BY <1>2, <1>4, <2>3, <2>5 DEF MoveBlock, TypeInv, TypeOK, new
<1>5. CASE ContinueTest(c)
  <2>1. At(c, "select") \in Client /\ At(c, "select").pc = "select"
    BY DEF At, Client, ClientPc
  <2> QED
    BY <1>2, <1>5, <2>1 DEF ContinueTest, net, TypeInv, TypeOK
<1>6. CASE SendTestEnd(c) /\ ~ClientFails(c)
  <2> DEFINE new == [At(c, "select") EXCEPT !.state = "TEST_END"]
  <2>1. new \in Client /\ new.pc = "select"
    BY DEF At, Client, ClientPc, ClientStates
  <2>2. "TEST_END" \in ToServer
    BY DEF ToServer
  <2> HIDE DEF new
  <2> QED
    BY <1>2, <1>6, <2>1, <2>2, SendType DEF SendTestEnd, TypeInv, TypeOK, new
<1>7. CASE DrainAfterEnd(c) /\ ~ClientFails(c)
  <2>1. pipe[c] - 1 \in 0 .. PipeCap
    BY <1>7, Numbers DEF DrainAfterEnd
  <2>2. pipe' \in [Clients -> 0 .. PipeCap]
    BY <1>7, <2>1 DEF DrainAfterEnd, TypeInv, TypeOK
  <2> QED
    BY <1>7, <2>2 DEF DrainAfterEnd, TypeInv, TypeOK, Blocked
<1> QED
  BY <1>1, <1>3, <1>4, <1>5, <1>6, <1>7

LEMMA ClientSignalType ==
    ASSUME TypeInv, NEW c \in Clients, ClientSigend(c) \/ ClientKilled(c) PROVE TypeInv'
<1>1. {"term", "killed"} \subseteq Outcomes /\ "CLIENT_TERMINATE" \in ToServer
  BY DEF Outcomes, ToServer
<1>2. CASE ClientSigend(c)
  BY <1>1, <1>2, ClientExitType, SendType DEF ClientSigend, TypeInv, TypeOK
<1>3. CASE ClientKilled(c)
  BY <1>1, <1>3, ClientExitType DEF ClientKilled, TypeInv, TypeOK
<1> QED
  BY <1>2, <1>3

LEMMA TypeInit == Init => TypeInv
<1> SUFFICES ASSUME Init PROVE TypeInv
  OBVIOUS
<1>1. \A n \in Nat : 0 \in 0 .. n
  OBVIOUS
<1>2. cl \in [Clients -> Client]
  BY <1>1, Numbers DEF Init, Client, ClientPc, ClientStates, Sources, Outcomes
<1>3. srv \in Server
  BY <1>1, Numbers DEF Init, Server, ServerPc, ServerStates, Sources
<1>4. Blocked
  BY Numbers DEF Init, Blocked
<1>5. pipe \in [Clients -> 0 .. PipeCap]
  BY <1>1, Numbers DEF Init
<1> QED
  BY <1>2, <1>3, <1>4, <1>5 DEF Init, TypeInv, TypeOK

LEMMA TypeNext == TypeInv /\ [Next]_vars => TypeInv'
<1> SUFFICES ASSUME TypeInv, [Next]_vars PROVE TypeInv'
  OBVIOUS
<1>1. CASE ServerStep
  BY <1>1, AcceptType, ControlReadType, StreamReadType, ResultsType, LastMessageType,
     ServerDataType DEF ServerStep, Accept, HandleMessage, FinishRead
<1>2. CASE ServerSigend
  BY <1>2, ServerSigendType
<1>3. ASSUME NEW c \in Clients, Connect(c) \/ ClientStep(c) PROVE TypeInv'
  BY <1>3, ConnectType, ReadMessageType, PassType DEF ClientStep
<1>4. ASSUME NEW c \in Clients, ClientSigend(c) \/ ClientKilled(c) PROVE TypeInv'
  BY <1>4, ClientSignalType
<1>5. CASE UNCHANGED vars
  BY <1>5 DEF vars, TypeInv, TypeOK, Blocked
<1> QED
  BY <1>1, <1>2, <1>3, <1>4, <1>5 DEF Next

\* In every reachable state of every instance the variables have their types,
\* and a blocked process holds the connections its call works on: no handler of
\* the server reads or writes ctrl_sck or the accepted socket when it is -1.
THEOREM TypeCorrect == Spec => [](TypeOK /\ Blocked)
<1>1. TypeInv <=> TypeOK /\ Blocked
  BY DEF TypeInv
<1> QED
  BY <1>1, TypeInit, TypeNext, PTL DEF Spec

-----------------------------------------------------------------------------
(* What a step of either process can change of what the other sees. *)

\* A stream that may count for the test: the owner's, or the dead stranger that
\* an uninitialized buffer lets in.
MayJoin(conn) == conn[1] = Owner \/ (conn \notin cookied /\ PeerGone(conn))

\* The server keeps its control connection, or takes one when it has none, or
\* closes it, or ends; it writes to its control connection, or to one it closes;
\* and it adds to the streams one connection at a time.
ServerMoves ==
    /\ srv.pc # "exit" /\ UNCHANGED <<cl, cookied>>
    /\ closed \subseteq closed'
    /\ srv'.ctrl = srv.ctrl \/ srv.ctrl = None \/ srv.ctrl \in closed' \/ srv'.pc = "exit"
    /\ \A c \in Clients : s2c'[c] # s2c[c] => srv.ctrl = Ctrl(c) \/ Ctrl(c) \in closed'
    /\ \/ srv'.streams = {}
       \/ srv'.streams = srv.streams /\ (srv'.ctrl = srv.ctrl \/ srv.ctrl = None)
       \/ /\ srv'.ctrl = srv.ctrl /\ srv.ctrl # None
          /\ \E conn \in Conns : srv'.streams = srv.streams \cup {conn} /\ MayJoin(conn)
    /\ srv'.ctrl = None => srv'.streams = {} \/ (srv.ctrl = None /\ srv'.streams = srv.streams)

LEMMA SendStateMoves ==
    ASSUME TypeOK, NEW conn \in Conns, NEW ms, SendState(conn, ms), NEW c \in Clients,
           s2c'[c] # s2c[c]
    PROVE  conn = Ctrl(c)
<1>1. conn[1] = c /\ conn[2] = 0
  BY ConnFacts DEF SendState, TypeOK
<1> QED
  BY <1>1 DEF Conns, Ctrl

LEMMA EndTestMoves ==
    ASSUME TypeInv, NEW e, NEW S, EndTest(e, S)
    PROVE  /\ closed \subseteq closed' /\ srv'.streams = {}
           /\ srv.ctrl = None \/ srv.ctrl \in closed'
  BY DEF EndTest

LEMMA FailMoves ==
    ASSUME TypeInv, FailTest \/ ServerExit
    PROVE  /\ closed \subseteq closed' /\ srv'.streams = {}
           /\ srv.ctrl = None \/ srv.ctrl \in closed' \/ srv'.pc = "exit"
  BY EndTestMoves DEF FailTest, ServerExit, TypeInv, TypeOK, Server

LEMMA WriteFailsMoves ==
    ASSUME TypeInv, NEW conn, WriteFails(conn)
    PROVE  /\ closed \subseteq closed' /\ srv'.streams = {} /\ UNCHANGED s2c
           /\ srv.ctrl = None \/ srv.ctrl \in closed' \/ srv'.pc = "exit"
  BY FailMoves DEF WriteFails

LEMMA ReplaceListenerMoves ==
    ASSUME ReplaceListener PROVE closed \subseteq closed'
  BY DEF ReplaceListener

LEMMA RefuseMoves ==
    ASSUME TypeInv, srv.pc \in {"deny", "stream"}, UNCHANGED <<cl, cookied>>, Refuse(srv.pend)
    PROVE  ServerMoves
<1> USE HeldConns
<1>1. CASE WriteFails(srv.pend)
  BY <1>1, WriteFailsMoves DEF ServerMoves
<1>2. CASE ~WriteFails(srv.pend)
  <2>1. \A c \in Clients : s2c'[c] # s2c[c] => Ctrl(c) \in closed'
    BY <1>2, SendStateMoves DEF Refuse, TypeInv
  <2>2. srv'.ctrl = srv.ctrl /\ srv'.streams = srv.streams /\ srv.ctrl # None
    BY <1>2, NoneNotConn DEF Refuse, Server
  <2> QED
    BY <1>2, <2>1, <2>2 DEF Refuse, ServerMoves
<1> QED
  BY <1>1, <1>2

LEMMA JoinMoves ==
    ASSUME TypeInv, ReadStreamCookie PROVE ServerMoves
<1> USE HeldConns
<1>1. /\ srv.pc = "stream" /\ srv.pend \in Conns /\ srv.ctrl \in Conns /\ srv.ctrl # None
      /\ UNCHANGED <<cl, cookied>>
  BY NoneNotConn DEF ReadStreamCookie
<1>2. CASE Refuse(srv.pend)
  BY <1>1, <1>2, RefuseMoves
<1>3. CASE AddStream(srv.pend) /\ TRUE \in CookieCompare(srv.pend)
  <2> DEFINE streams == srv.streams \cup {srv.pend}
  <2>1. MayJoin(srv.pend)
    BY <1>3 DEF ReadStreamCookie, CookieCompare, CookieReady, MayJoin, Owner
  <2>2. CASE /\ srv' = [srv EXCEPT !.pc = "select", !.pend = None, !.streams = streams]
             /\ UNCHANGED <<listenQ, closed, s2c>>
    BY <1>1, <2>1, <2>2 DEF ServerMoves, Server
  <2>3. CASE /\ srv' = [srv EXCEPT !.pc = "select", !.state = "TEST_RUNNING",
                                   !.pend = None, !.streams = streams]
             /\ SendState(srv.ctrl, <<"TEST_START", "TEST_RUNNING">>)
             /\ ReplaceListener
    <3>1. \A c \in Clients : s2c'[c] # s2c[c] => srv.ctrl = Ctrl(c)
      BY <1>1, <2>3, SendStateMoves DEF TypeInv
    <3>2. srv'.ctrl = srv.ctrl /\ srv'.streams = streams
      BY <2>3 DEF Server
    <3> QED
      BY <1>1, <2>1, <2>3, <3>1, <3>2, ReplaceListenerMoves DEF ServerMoves
  <2>4. CASE (FailTest \/ ServerExit) /\ UNCHANGED s2c
    BY <1>1, <2>4, FailMoves DEF ServerMoves
  <2>5. CASE WriteFails(srv.ctrl)
    BY <1>1, <2>5, WriteFailsMoves DEF ServerMoves
  <2>6. CASE FailTest /\ SendState(srv.ctrl, <<"TEST_START">>)
    <3>1. \A c \in Clients : s2c'[c] # s2c[c] => srv.ctrl = Ctrl(c)
      BY <1>1, <2>6, SendStateMoves DEF TypeInv
    <3> QED
      BY <1>1, <2>6, <3>1, FailMoves DEF ServerMoves
  <2> QED
    BY <1>3, <2>2, <2>3, <2>4, <2>5, <2>6 DEF AddStream, StartTest
<1> QED
  BY <1>2, <1>3 DEF ReadStreamCookie

\* A handler that answers on the control connection and keeps the test.
LEMMA AnswerMoves ==
    ASSUME TypeInv, srv.pc # "exit", UNCHANGED <<cl, cookied>>, srv.ctrl \in Conns,
           NEW ms, SendState(srv.ctrl, ms), closed \subseteq closed',
           srv'.ctrl = srv.ctrl, srv'.streams = srv.streams
    PROVE  ServerMoves
<1>1. \A c \in Clients : s2c'[c] # s2c[c] => srv.ctrl = Ctrl(c)
  BY SendStateMoves DEF TypeInv
<1> QED
  BY <1>1, NoneNotConn DEF ServerMoves

LEMMA ServerShape ==
    ASSUME TypeInv, ServerStep \/ ServerSigend PROVE ServerMoves
<1> USE HeldConns
<1>0. UNCHANGED <<cl, cookied>> /\ srv.pc # "exit"
  BY DEF ServerStep, ServerSigend, Listen, Accept, AcceptControl, AcceptSurplus, AcceptStream,
         HandleMessage, HandleTestEnd, HandleLastMessage, HandleCtrlClosed, FinishRead,
         ReadControlCookie, DenySurplus, GetParameters, GetParametersFails, ReadStreamCookie,
         ExchangeResults, ExchangeResultsFails, ServerRecv, ServerStartBurst,
         ServerSendBlock, CtrlReadable, net
<1>1. CASE (FailTest \/ ServerExit) /\ UNCHANGED s2c
  BY <1>0, <1>1, FailMoves DEF ServerMoves
<1>2. CASE \E conn : WriteFails(conn)
  BY <1>0, <1>2, WriteFailsMoves DEF ServerMoves
<1> DEFINE Fails == (FailTest \/ ServerExit) /\ UNCHANGED s2c
           WFails == \E conn : WriteFails(conn)
<1>3. CASE Listen
  BY <1>0, <1>1, <1>3 DEF Listen, ServerMoves, Server
<1>4. CASE Accept
  BY <1>0, <1>4 DEF Accept, AcceptControl, AcceptSurplus, AcceptStream, ServerMoves, Server
<1>5. CASE ReadControlCookie /\ ~WFails
  BY <1>0, <1>5, AnswerMoves DEF ReadControlCookie, Server
<1>6. CASE DenySurplus
  BY <1>0, <1>6, RefuseMoves DEF DenySurplus
<1>7. CASE GetParameters /\ ~WFails
  <2>1. srv.ctrl \in Conns
    BY <1>7 DEF GetParameters
  <2>2. CASE ListenForStreams
    <3>1. srv'.ctrl = srv.ctrl /\ srv'.streams = srv.streams
      BY <2>2 DEF ListenForStreams, Server
    <3> QED
      BY <1>0, <2>1, <2>2, <3>1, AnswerMoves, ReplaceListenerMoves DEF ListenForStreams
  <2>3. ASSUME FailTest, NEW m, SendState(srv.ctrl, <<m>>) PROVE ServerMoves
    <3>1. \A c \in Clients : s2c'[c] # s2c[c] => srv.ctrl = Ctrl(c)
      BY <2>1, <2>3, SendStateMoves DEF TypeInv
    <3> QED
      BY <1>0, <2>3, <3>1, FailMoves DEF ServerMoves
  <2> QED
    BY <1>7, <2>2, <2>3 DEF GetParameters
<1>8. CASE GetParametersFails \/ ExchangeResultsFails
  BY <1>1, <1>8 DEF GetParametersFails, ExchangeResultsFails
<1>9. CASE ReadStreamCookie
  BY <1>9, JoinMoves
<1>10. CASE HandleTestEnd /\ ~WFails
  <2>1. srv.ctrl \in Conns /\ srv'.ctrl = srv.ctrl /\ srv'.streams = srv.streams
    BY <1>10 DEF HandleTestEnd, CtrlReadable, Server
  <2> QED
    BY <1>0, <1>10, <2>1, AnswerMoves DEF HandleTestEnd
<1>11. CASE ExchangeResults /\ ~WFails
  <2>1. srv.ctrl \in Conns /\ srv'.ctrl = srv.ctrl /\ srv'.streams = srv.streams
    BY <1>11 DEF ExchangeResults, Server
  <2> QED
    BY <1>0, <1>11, <2>1, AnswerMoves DEF ExchangeResults
<1>12. CASE HandleLastMessage \/ HandleCtrlClosed
  <2>1. UNCHANGED s2c /\ (FailTest \/ ServerExit \/ \E S : EndTest(0, S))
    BY <1>12 DEF HandleLastMessage, HandleCtrlClosed
  <2> QED
    BY <1>0, <1>1, <2>1, EndTestMoves DEF ServerMoves
<1>13. CASE (ServerRecv \/ ServerStartBurst \/ ServerSendBlock) /\ ~Fails /\ ~WFails
  <2>1. UNCHANGED <<s2c, closed>> /\ srv'.ctrl = srv.ctrl /\ srv'.streams = srv.streams
    BY <1>13 DEF ServerRecv, ServerStartBurst, ServerSendBlock, net, Server
  <2> QED
    BY <1>0, <2>1 DEF ServerMoves
<1>14. CASE ServerSigend
  <2>1. \A c \in Clients : s2c'[c] # s2c[c] => srv.ctrl = Ctrl(c)
    BY <1>14, SendStateMoves DEF ServerSigend, TypeInv, TypeOK, Server
  <2> QED
    BY <1>0, <1>14, <2>1, FailMoves DEF ServerSigend, ServerMoves
<1> QED
  BY <1>1, <1>2, <1>3, <1>4, <1>5, <1>6, <1>7, <1>8, <1>9, <1>10, <1>11, <1>12, <1>13, <1>14
  DEF ServerStep, HandleMessage, FinishRead

\* A step of client c touches no other client and nothing of the server's; it
\* writes cookies only on its own connections, only reads messages, and leaves
\* the state it starts in only after a message.
ClientMoves(c) ==
    /\ cl[c].pc # "exit" /\ UNCHANGED <<srv, closed>>
    /\ \A d \in Clients \ {c} : cl'[d] = cl[d] /\ s2c'[d] = s2c[d]
    /\ \A conn \in cookied' : conn \in cookied \/ conn[1] = c
    /\ s2c'[c] # <<>> => s2c[c] # <<>>
    /\ cl'[c].state = cl[c].state \/ s2c[c] # <<>> \/ cl[c].pc = "io"
    /\ cl'[c].pc = "io" => (cl[c].pc = "io" /\ cl'[c].state = cl[c].state)
                           \/ cl'[c].state = "TEST_RUNNING"
    /\ cl'[c].out = "denied" => \/ cl[c].out = "denied"
                                \/ /\ Arrived(c, "ACCESS_DENIED")
                                   /\ cl'[c].state = cl[c].state

LEMMA ClientExitMoves ==
    ASSUME TypeInv, NEW c \in Clients, NEW out, ClientExit(c, out), cl[c].pc # "exit",
           UNCHANGED <<srv, closed, cookied>>, out # "denied" \/ Arrived(c, "ACCESS_DENIED")
    PROVE  ClientMoves(c)
  BY ClientFacts DEF ClientMoves, ClientExit, SetClient, TypeInv, TypeOK, Client

OwnChannels(c) ==
    /\ UNCHANGED <<srv, closed>>
    /\ \A conn \in cookied' : conn \in cookied \/ conn[1] = c
    /\ \/ UNCHANGED s2c
       \/ Received(c) /\ s2c[c] # <<>>
       \/ s2c' = [s2c EXCEPT ![c] = <<>>]

LEMMA ClientSetMoves ==
    ASSUME TypeInv, NEW c \in Clients, NEW new, SetClient(c, new), cl[c].pc # "exit",
           OwnChannels(c),
           new.state = cl[c].state \/ s2c[c] # <<>> \/ cl[c].pc = "io",
           new.pc # "io" \/ new.state = "TEST_RUNNING" \/ (cl[c].pc = "io" /\ new.state = cl[c].state),
           new.out = cl[c].out
    PROVE  ClientMoves(c)
<1>1. cl' = [cl EXCEPT ![c] = new] /\ cl \in [Clients -> Client]
  BY DEF SetClient, TypeInv, TypeOK
<1>2. cl'[c] = new /\ \A d \in Clients \ {c} : cl'[d] = cl[d]
  BY <1>1
<1>3. /\ \A d \in Clients \ {c} : s2c'[d] = s2c[d]
      /\ s2c'[c] # <<>> => s2c[c] # <<>>
  BY DEF OwnChannels, Received, TypeInv, TypeOK
<1> QED
  BY <1>2, <1>3 DEF ClientMoves, OwnChannels

LEMMA ClientShape ==
    ASSUME TypeInv, NEW c \in Clients,
           Connect(c) \/ ClientStep(c) \/ ClientSigend(c) \/ ClientKilled(c)
    PROVE  ClientMoves(c)
<1> USE ClientFacts
<1>1. CASE ClientFails(c) /\ cl[c].pc # "exit"
  BY <1>1, ClientExitMoves DEF ClientFails
<1>2. CASE (ClientSigend(c) \/ ClientKilled(c))
  BY <1>2, ClientExitMoves DEF ClientSigend, ClientKilled
<1>0. \A pc : At(c, pc).pc = pc /\ At(c, pc).state = cl[c].state /\ At(c, pc).out = cl[c].out
  BY DEF At, Client
<1>10. ClientStep(c) \/ Connect(c) => cl[c].pc # "exit"
  BY DEF ClientStep, Connect, WriteCookie, DialStream, WriteStreamCookie, ReadMessage,
         OnParamExchange, OnCreateStreams, OnStart, OnExchangeResults, OnDisplayResults,
         OnRefusal, OnCtrlClosed, Receives, ReadsCtrl, GetResults, StartPass, MoveBlock,
         ContinueTest, SendTestEnd, DrainAfterEnd
<1>3. CASE (Connect(c) \/ WriteCookie(c) \/ DialStream(c) \/ WriteStreamCookie(c))
           /\ ~ClientFails(c)
  <2>0. OwnChannels(c) /\ cl[c].pc # "exit"
    BY <1>3 DEF Connect, WriteCookie, DialStream, WriteStreamCookie, OwnChannels, Ctrl
  <2>1. CASE Connect(c)
    <3>1. PICK m \in Modes : SetClient(c, [At(c, "dialed") EXCEPT !.mode = m])
      BY <1>3, <2>1 DEF Connect
    <3> DEFINE new == [At(c, "dialed") EXCEPT !.mode = m]
    <3>2. new.pc = "dialed" /\ new.state = cl[c].state /\ new.out = cl[c].out
      BY DEF At, Client
    <3> HIDE DEF new
    <3> QED
      BY <2>0, <3>1, <3>2, ClientSetMoves DEF new
  <2>2. CASE WriteCookie(c)
    <3>1. SetClient(c, At(c, "select"))
      BY <1>3, <2>2 DEF WriteCookie
    <3> QED
      BY <1>0, <2>0, <3>1, ClientSetMoves
  <2>3. CASE DialStream(c)
    <3> DEFINE new == [At(c, "streamCookie") EXCEPT !.dialed = @ + 1]
    <3>1. new.pc = "streamCookie" /\ new.state = cl[c].state /\ new.out = cl[c].out
      BY DEF At, Client
    <3>2. SetClient(c, new)
      BY <1>3, <2>3 DEF DialStream
    <3> HIDE DEF new
    <3> QED
      BY <2>0, <3>1, <3>2, ClientSetMoves
  <2>4. CASE WriteStreamCookie(c)
    <3> DEFINE pc == IF cl[c].dialed = NumStreams THEN "select" ELSE "streams"
    <3>1. At(c, pc).pc # "io" /\ SetClient(c, At(c, pc))
      BY <1>0, <1>3, <2>4 DEF WriteStreamCookie
    <3> HIDE DEF pc
    <3> QED
      BY <1>0, <2>0, <3>1, ClientSetMoves
  <2> QED
    BY <1>3, <2>1, <2>2, <2>3, <2>4
<1>4. CASE (OnParamExchange(c) \/ OnCreateStreams(c) \/ OnStart(c) \/ OnExchangeResults(c))
           /\ ~ClientFails(c)
  <2>0. OwnChannels(c) /\ cl[c].pc # "exit" /\ s2c[c] # <<>>
    BY <1>4 DEF OnParamExchange, OnCreateStreams, OnStart, OnExchangeResults, Receives,
                ReadsCtrl, Arrived, OwnChannels
  <2>1. CASE OnParamExchange(c)
    <3> DEFINE new == [cl[c] EXCEPT !.state = "PARAM_EXCHANGE"]
    <3>1. new.pc = cl[c].pc /\ new.state = "PARAM_EXCHANGE" /\ new.out = cl[c].out
      BY DEF Client
    <3>2. SetClient(c, new) /\ cl[c].pc = "select"
      BY <1>4, <2>1 DEF OnParamExchange, Receives, ReadsCtrl
    <3> HIDE DEF new
    <3> QED
      BY <2>0, <3>1, <3>2, ClientSetMoves
  <2>2. CASE OnCreateStreams(c)
    <3> DEFINE new == [At(c, "streams") EXCEPT !.state = "CREATE_STREAMS", !.dialed = 0]
    <3>1. new.pc = "streams" /\ new.state = "CREATE_STREAMS" /\ new.out = cl[c].out
      BY DEF At, Client
    <3>2. SetClient(c, new)
      BY <2>2 DEF OnCreateStreams
    <3> HIDE DEF new
    <3> QED
      BY <2>0, <3>1, <3>2, ClientSetMoves
  <2>3. CASE OnStart(c)
    <3>1. PICK m \in {"TEST_START", "TEST_RUNNING"} :
            SetClient(c, [cl[c] EXCEPT !.state = m]) /\ cl[c].pc = "select"
      BY <1>4, <2>3 DEF OnStart, Receives, ReadsCtrl
    <3> DEFINE new == [cl[c] EXCEPT !.state = m]
    <3>2. new.pc = cl[c].pc /\ new.state = m /\ new.out = cl[c].out
      BY DEF Client
    <3>3. SetClient(c, new)
      BY <3>1
    <3> HIDE DEF new
    <3> QED
      BY <2>0, <3>1, <3>2, <3>3, ClientSetMoves
  <2>4. CASE OnExchangeResults(c)
    <3> DEFINE new == [At(c, "results") EXCEPT !.state = "EXCHANGE_RESULTS"]
    <3>1. new.pc = "results" /\ new.state = "EXCHANGE_RESULTS" /\ new.out = cl[c].out
      BY DEF At, Client
    <3>2. SetClient(c, new)
      BY <1>4, <2>4 DEF OnExchangeResults
    <3> HIDE DEF new
    <3> QED
      BY <2>0, <3>1, <3>2, ClientSetMoves
  <2> QED
    BY <1>4, <2>1, <2>2, <2>3, <2>4
<1>5. CASE GetResults(c) /\ ~ClientFails(c)
  <2>1. PICK g \in Sources : SetClient(c, [At(c, "select") EXCEPT !.got = g])
    BY <1>5 DEF GetResults, Sources
  <2> DEFINE new == [At(c, "select") EXCEPT !.got = g]
  <2>2. new.pc = "select" /\ new.state = cl[c].state /\ new.out = cl[c].out
    BY DEF At, Client
  <2>3. OwnChannels(c) /\ cl[c].pc # "exit"
    BY <1>5 DEF GetResults, Arrived, OwnChannels
  <2>4. SetClient(c, new)
    BY <2>1
  <2> HIDE DEF new
  <2> QED
    BY <2>2, <2>3, <2>4, ClientSetMoves
<1>6. CASE OnDisplayResults(c) /\ ~ClientFails(c)
  BY <1>6, ClientExitMoves DEF OnDisplayResults, Receives, ReadsCtrl
<1>7. CASE OnRefusal(c)
  BY <1>7, ClientExitMoves DEF OnRefusal, Receives, ReadsCtrl
<1>8. CASE (StartPass(c) \/ MoveBlock(c) \/ ContinueTest(c) \/ SendTestEnd(c) \/ DrainAfterEnd(c))
           /\ ~ClientFails(c)
  <2>0. OwnChannels(c) /\ cl[c].pc # "exit"
    BY <1>8 DEF StartPass, MoveBlock, ContinueTest, SendTestEnd, DrainAfterEnd, OwnChannels, net
  <2>1. CASE StartPass(c)
    <3>1. PICK k \in 0 .. Burst : SetClient(c, [At(c, "io") EXCEPT !.todo = k])
      BY <2>1 DEF StartPass
    <3> DEFINE new == [At(c, "io") EXCEPT !.todo = k]
    <3>2. new.state = "TEST_RUNNING" /\ cl[c].state = "TEST_RUNNING" /\ new.out = cl[c].out
      BY <2>1 DEF StartPass, Running, At, Client
    <3> HIDE DEF new
    <3> QED
      BY <2>0, <3>1, <3>2, ClientSetMoves DEF new
  <2>2. CASE MoveBlock(c)
    <3> DEFINE new == [cl[c] EXCEPT !.todo = @ - 1]
    <3>1. new.state = cl[c].state /\ new.out = cl[c].out
      BY DEF Client
    <3>2. SetClient(c, new) /\ cl[c].pc = "io"
      BY <1>8, <2>2 DEF MoveBlock
    <3> HIDE DEF new
    <3> QED
      BY <2>0, <3>1, <3>2, ClientSetMoves
  <2>3. CASE ContinueTest(c)
    <3>1. SetClient(c, At(c, "select"))
      BY <2>3 DEF ContinueTest
    <3> QED
      BY <1>0, <2>0, <3>1, ClientSetMoves
  <2>4. CASE SendTestEnd(c)
    <3> DEFINE new == [At(c, "select") EXCEPT !.state = "TEST_END"]
    <3>1. new.pc = "select" /\ new.out = cl[c].out
      BY DEF At, Client
    <3>2. SetClient(c, new) /\ cl[c].pc = "io"
      BY <1>8, <2>4 DEF SendTestEnd
    <3> HIDE DEF new
    <3> QED
      BY <2>0, <3>1, <3>2, ClientSetMoves
  <2>5. CASE DrainAfterEnd(c)
    BY <1>8, <2>5 DEF DrainAfterEnd, ClientMoves
  <2> QED
    BY <1>8, <2>1, <2>2, <2>3, <2>4, <2>5
<1> QED
  BY <1>1, <1>2, <1>3, <1>4, <1>5, <1>6, <1>7, <1>8, <1>10
  DEF ClientStep, ReadMessage, OnCtrlClosed

-----------------------------------------------------------------------------
(* One test at a time. *)

\* A client the server has written to, or that has left its initial state, is
\* the one being served unless its control connection has been closed.
Addressed(c) == s2c[c] # <<>> \/ cl[c].state # "START"
ServedOrDropped ==
    \A c \in Clients : /\ Addressed(c) => srv.ctrl = Ctrl(c) \/ ServerGone(Ctrl(c))
                       /\ cl[c].pc = "io" => cl[c].state # "START"

LEMMA ServedInit == Init => ServedOrDropped
  BY DEF Init, ServedOrDropped, Addressed

LEMMA ServedNext == TypeInv /\ ServedOrDropped /\ [Next]_vars => ServedOrDropped'
<1> SUFFICES ASSUME TypeInv, ServedOrDropped, [Next]_vars PROVE ServedOrDropped'
  OBVIOUS
<1>1. \A c \in Clients : Ctrl(c) # None
  BY ConnFacts, NoneNotConn
<1>2. CASE ServerStep \/ ServerSigend
  BY <1>1, <1>2, ServerShape DEF ServerMoves, ServedOrDropped, Addressed, ServerGone
<1>3. ASSUME NEW c \in Clients,
             Connect(c) \/ ClientStep(c) \/ ClientSigend(c) \/ ClientKilled(c)
      PROVE  ServedOrDropped'
  BY <1>3, ClientShape DEF ClientMoves, ServedOrDropped, Addressed, ServerGone
<1>4. CASE UNCHANGED vars
  BY <1>4 DEF vars, ServedOrDropped, Addressed, ServerGone
<1> QED
  BY <1>2, <1>3, <1>4 DEF Next

\* For any number of clients: whatever the interleaving of accepts, refusals,
\* failures and deaths, at most one client is in a test the server is serving.
THEOREM OneTestAtATime == Spec => []OneTest
<1>1. TypeInv /\ ServedOrDropped => OneTest
  BY DEF ServedOrDropped, OneTest, Admitted, Addressed, Ctrl
<1> QED
  BY <1>1, TypeInit, TypeNext, ServedInit, ServedNext, PTL DEF Spec

-----------------------------------------------------------------------------
(* The cookie check. *)

CookieInv == StreamsCarryCookie /\ (srv.ctrl = None => srv.streams = {})

LEMMA CookieInit == Init => CookieInv
  BY DEF Init, CookieInv, StreamsCarryCookie

LEMMA CookieNext == TypeInv /\ CookieInv /\ [Next]_vars => CookieInv'
<1> SUFFICES ASSUME TypeInv, CookieInv, [Next]_vars PROVE CookieInv'
  OBVIOUS
<1>1. CASE ServerStep \/ ServerSigend
  BY <1>1, ServerShape DEF ServerMoves, MayJoin, CookieInv, StreamsCarryCookie, Owner, PeerGone
<1>2. ASSUME NEW c \in Clients,
             Connect(c) \/ ClientStep(c) \/ ClientSigend(c) \/ ClientKilled(c)
      PROVE  CookieInv'
  <2>1. \A conn \in srv.streams : conn[1] \in Clients
    BY ConnFacts DEF TypeInv, TypeOK, Server
  <2> QED
    BY <1>2, <2>1, ClientShape DEF ClientMoves, CookieInv, StreamsCarryCookie, Owner, PeerGone
<1>3. CASE UNCHANGED vars
  BY <1>3 DEF vars, CookieInv, StreamsCarryCookie, Owner, PeerGone
<1> QED
  BY <1>1, <1>2, <1>3 DEF Next

\* For any number of clients and streams: no live client's connection is ever
\* counted as a stream of another client's test.
THEOREM CookiesGuardStreams == Spec => []StreamsCarryCookie
<1>1. CookieInv => StreamsCarryCookie
  BY DEF CookieInv
<1> QED
  BY <1>1, TypeInit, TypeNext, CookieInit, CookieNext, PTL DEF Spec

-----------------------------------------------------------------------------
(* The messages of a test are numbered in the order they are sent. *)

\* The messages of q carry the numbers p + 1, p + 2, ... up to u at most; only
\* the last may be one of those in Ends instead.
Ordered(q, p, u, rank, Ends) ==
    \A i \in 1 .. Len(q) :
        \/ rank[q[i]] = p + i /\ p + i <= u
        \/ i = Len(q) /\ q[i] \in Ends

\* ACCESS_DENIED comes first or not at all, and only to a client that has heard
\* nothing yet.
RefusedFirst(q, nothingYet) ==
    \A i \in 1 .. Len(q) : q[i] = "ACCESS_DENIED" => i = 1 /\ nothingYet

\* What the server tells the client of a test, and the words that end it.
DownRank == [m \in ToClient |->
    IF m = "PARAM_EXCHANGE" THEN 1 ELSE IF m = "CREATE_STREAMS" THEN 2
    ELSE IF m = "TEST_START" THEN 3 ELSE IF m = "TEST_RUNNING" THEN 4
    ELSE IF m = "EXCHANGE_RESULTS" THEN 5 ELSE IF m = "RESULTS" THEN 6
    ELSE IF m = "DISPLAY_RESULTS" THEN 7 ELSE 0]
Farewells == {"SERVER_ERROR", "SERVER_TERMINATE", "ACCESS_DENIED"}

\* What the client tells the server, and the words that end it.
UpRank == [m \in ToServer |->
    IF m = "PARAMS" THEN 1 ELSE IF m = "TEST_END" THEN 2
    ELSE IF m = "RESULTS" THEN 3 ELSE 0]
LastWords == {"IPERF_DONE", "CLIENT_TERMINATE"}

\* How many messages the server of a test in this state has sent and read, and
\* how many a client has.
Sent == CASE srv.state = "PARAM_EXCHANGE" -> 1
          [] srv.state = "CREATE_STREAMS" -> 2
          [] srv.state = "TEST_RUNNING" -> 4
          [] srv.state = "EXCHANGE_RESULTS" -> 5
          [] srv.state = "DISPLAY_RESULTS" -> 7
          [] OTHER -> 0
Read(c) == IF srv.ctrl # Ctrl(c) THEN 0
           ELSE CASE srv.state \in {"CREATE_STREAMS", "TEST_RUNNING"} -> 1
                  [] srv.state = "EXCHANGE_RESULTS" -> 2
                  [] srv.state = "DISPLAY_RESULTS" -> 3
                  [] OTHER -> 0
Heard(c) == CASE cl[c].state = "PARAM_EXCHANGE" -> 1
              [] cl[c].state = "CREATE_STREAMS" -> 2
              [] cl[c].state = "TEST_START" -> 3
              [] cl[c].state \in {"TEST_RUNNING", "TEST_END"} -> 4
              [] cl[c].state = "EXCHANGE_RESULTS" -> IF cl[c].got = "none" THEN 5 ELSE 6
              [] OTHER -> 0
Said(c) == CASE cl[c].state = "START" -> 0
             [] cl[c].state = "TEST_END" -> 2
             [] cl[c].state = "EXCHANGE_RESULTS" -> 3
             [] OTHER -> 1

-----------------------------------------------------------------------------
(* The inductive invariant of the protocol. *)

\* The calls the server of a test can be blocked in, in each state of the test,
\* and the streams it has then.
Stages == {<<"cookie", "IPERF_START">>, <<"params", "PARAM_EXCHANGE">>,
    <<"select", "CREATE_STREAMS">>, <<"stream", "CREATE_STREAMS">>,
    <<"select", "TEST_RUNNING">>, <<"deny", "TEST_RUNNING">>, <<"io", "TEST_RUNNING">>,
    <<"results", "EXCHANGE_RESULTS">>,
    <<"select", "DISPLAY_RESULTS">>, <<"deny", "DISPLAY_RESULTS">>}
StreamsSoFar ==
    /\ IsFiniteSet(srv.streams)
    /\ srv.state \in {"IPERF_START", "PARAM_EXCHANGE"} => srv.streams = {}
    /\ srv.state = "CREATE_STREAMS" => Cardinality(srv.streams) < NumStreams
    /\ srv.state \in {"TEST_RUNNING", "EXCHANGE_RESULTS", "DISPLAY_RESULTS"} =>
            Cardinality(srv.streams) = NumStreams
StageInv ==
    /\ srv.ctrl # None => <<srv.pc, srv.state>> \in Stages /\ StreamsSoFar
    /\ srv.ctrl = None => 
        /\ srv.pc \in {"listen", "exit"} \/ (srv.pc = "select" /\ srv.state = "IPERF_START")
        /\ srv.streams = {}
    /\ srv.pend = None <=> srv.pc \notin {"deny", "stream"}
    /\ srv.state = "DISPLAY_RESULTS" /\ srv.ctrl # None =>
        srv.got = "peer" \/ PeerGone(srv.ctrl)

\* A control connection waits once in the queue, or is being served, looked at
\* or counted, or closed.
Once(q, x) == \A i, j \in 1 .. Len(q) : q[i] = x /\ q[j] = x => i = j
Place(c) ==
    /\ Once(listenQ, Ctrl(c))
    /\ cl[c].pc = "init" =>
        Ctrl(c) \notin InQueue(listenQ) \cup {srv.ctrl, srv.pend} \cup closed \cup srv.streams
    /\ Ctrl(c) \in InQueue(listenQ) =>
        Ctrl(c) \notin {srv.ctrl, srv.pend} \cup closed \cup srv.streams
    /\ Ctrl(c) = srv.pend => Ctrl(c) \notin {srv.ctrl} \cup closed \cup srv.streams
    /\ Ctrl(c) = srv.ctrl => Ctrl(c) \notin closed \cup srv.streams

\* What the place a client is blocked at says about its state.
Course(c) ==
    /\ cl[c].pc = "exit" => s2c[c] = <<>>
    /\ cl[c].pc = "io" => cl[c].state = "TEST_RUNNING"
    /\ cl[c].pc \in {"init", "dialed"} => cl[c].state = "START"
    /\ cl[c].pc \in {"streams", "streamCookie"} => cl[c].state = "CREATE_STREAMS"
    /\ cl[c].pc = "results" => cl[c].state = "EXCHANGE_RESULTS" /\ cl[c].got = "none"
    /\ cl[c].got # "none" => cl[c].state = "EXCHANGE_RESULTS"
    /\ cl[c].got = "memory" => s2c[c] = <<>> /\ ServerGone(Ctrl(c))
    /\ cl[c].state = "START" => cl[c].dialed = 0
    /\ cl[c].state # "IPERF_DONE"
    /\ cl[c].pc # "exit" => cl[c].out = "none"
    /\ cl[c].out = "denied" => cl[c].state = "START"
    /\ cl[c].out = "done" => cl[c].got = "peer"

\* The server's messages to a client, heard and under way, are those it has
\* sent, in order. A refusal finds the client where it started.
Down(c) ==
    /\ Ordered(s2c[c], Heard(c), 7, DownRank,
               IF ServerGone(Ctrl(c)) THEN Farewells ELSE {})
    /\ RefusedFirst(s2c[c], cl[c].state = "START")
    /\ srv.ctrl = Ctrl(c) => Heard(c) <= Sent
    /\ srv.ctrl = Ctrl(c) /\ cl[c].pc # "exit" => Heard(c) + Len(s2c[c]) = Sent

\* And the other way, as long as the server keeps the connection.
Up(c) ==
    ~ServerGone(Ctrl(c)) =>
        /\ Ordered(c2s[c], Read(c), Said(c), UpRank,
                   IF cl[c].pc = "exit" THEN LastWords ELSE {})
        /\ cl[c].pc # "exit" => Read(c) + Len(c2s[c]) = Said(c)

\* A live client's streams are served or closed while its test is.
Kept(c) ==
    cl[c].pc # "exit" /\ ~ServerGone(Ctrl(c)) =>
        \A i \in 1 .. cl[c].dialed : <<c, i>> \in closed \/ Served(<<c, i>>)

ClientInv(c) == Place(c) /\ Course(c) /\ Down(c) /\ Up(c) /\ Kept(c)
ProtocolInv ==
    /\ TypeInv /\ ServedOrDropped /\ StageInv
    /\ \A c \in Clients : ClientInv(c)

-----------------------------------------------------------------------------
(* Facts about ordered queues. *)

LEMMA OrderedEmpty ==
    ASSUME NEW p, NEW u, NEW rank, NEW Ends PROVE Ordered(<<>>, p, u, rank, Ends)
  BY DEF Ordered

LEMMA TailLength ==
    ASSUME NEW T, NEW q \in Seq(T), q # <<>>
    PROVE  Len(Tail(q)) = Len(q) - 1 /\ Len(q) \in Nat /\ Len(q) >= 1
  OBVIOUS

LEMMA OrderedTail ==
    ASSUME NEW T, NEW q \in Seq(T), q # <<>>, NEW p \in Nat, NEW u, NEW rank, NEW Ends,
           Ordered(q, p, u, rank, Ends)
    PROVE  Ordered(Tail(q), p + 1, u, rank, Ends)
<1> SUFFICES ASSUME NEW i \in 1 .. Len(Tail(q))
             PROVE  \/ rank[Tail(q)[i]] = p + 1 + i /\ p + 1 + i <= u
                    \/ i = Len(Tail(q)) /\ Tail(q)[i] \in Ends
  BY DEF Ordered
<1>1. /\ i + 1 \in 1 .. Len(q) /\ Tail(q)[i] = q[i + 1]
      /\ i \in Nat /\ p + (i + 1) = p + 1 + i
  OBVIOUS
<1>2. Len(Tail(q)) = Len(q) - 1 /\ Len(q) \in Nat
  OBVIOUS
<1>3. ASSUME i + 1 = Len(q) PROVE i = Len(Tail(q))
  <2>1. (i + 1) - 1 = i
    BY <1>1
  <2> QED
    BY <1>2, <1>3, <2>1
<1> QED
  BY <1>1, <1>2, <1>3 DEF Ordered

LEMMA OrderedHead ==
    ASSUME NEW T, NEW q \in Seq(T), q # <<>>, NEW p \in Nat, NEW u, NEW rank, NEW Ends,
           Ordered(q, p, u, rank, Ends)
    PROVE  \/ rank[Head(q)] = p + 1 /\ p + 1 <= u
           \/ Len(q) = 1 /\ Head(q) \in Ends
<1>1. 1 \in 1 .. Len(q) /\ Head(q) = q[1]
  OBVIOUS
<1> QED
  BY <1>1 DEF Ordered

LEMMA OrderedAppend ==
    ASSUME NEW T, NEW q \in Seq(T), NEW m \in T, NEW p \in Nat, NEW u \in Nat, NEW v \in Nat,
           NEW rank, NEW Ends, Ordered(q, p, u, rank, {}), u <= v,
           \/ m \in Ends
           \/ rank[m] = p + Len(q) + 1 /\ p + Len(q) + 1 <= v
    PROVE  Ordered(Append(q, m), p, v, rank, Ends)
<1> SUFFICES ASSUME NEW i \in 1 .. Len(Append(q, m))
             PROVE  \/ rank[Append(q, m)[i]] = p + i /\ p + i <= v
                    \/ i = Len(Append(q, m)) /\ Append(q, m)[i] \in Ends
  BY DEF Ordered
<1>1. /\ Len(Append(q, m)) = Len(q) + 1 /\ Len(q) \in Nat
      /\ Append(q, m)[Len(q) + 1] = m
      /\ \A j \in 1 .. Len(q) : Append(q, m)[j] = q[j]
  OBVIOUS
<1>2. CASE i \in 1 .. Len(q)
  <2>1. rank[q[i]] = p + i /\ p + i <= u
    BY <1>2 DEF Ordered
  <2>2. p + i <= v
    BY <2>1
  <2> QED
    BY <1>1, <1>2, <2>1, <2>2
<1>3. CASE i = Len(q) + 1
  <2>1. p + i = p + Len(q) + 1
    BY <1>1, <1>3
  <2> QED
    BY <1>1, <1>3, <2>1
<1> QED
  BY <1>1, <1>2, <1>3

LEMMA OrderedWiden ==
    ASSUME NEW q, NEW p \in Nat, NEW u \in Nat, NEW v \in Nat, NEW rank, NEW E, NEW F,
           Ordered(q, p, u, rank, E), u <= v, E \subseteq F
    PROVE  Ordered(q, p, v, rank, F)
<1> SUFFICES ASSUME NEW i \in 1 .. Len(q)
             PROVE  \/ rank[q[i]] = p + i /\ p + i <= v
                    \/ i = Len(q) /\ q[i] \in F
  BY DEF Ordered
<1>1. \/ rank[q[i]] = p + i /\ p + i <= u
      \/ i = Len(q) /\ q[i] \in E
  BY DEF Ordered
<1>2. i \in Nat /\ (p + i <= u => p + i <= v)
  OBVIOUS
<1> QED
  BY <1>1, <1>2

\* The waiting queue, its first connection and the rest.
LEMMA QueueTail ==
    ASSUME NEW q \in Seq(Conns), q # <<>>
    PROVE  /\ Head(q) \in Conns /\ Tail(q) \in Seq(Conns)
           /\ InQueue(q) = {Head(q)} \cup InQueue(Tail(q))
<1>1. /\ Head(q) = q[1] /\ Len(Tail(q)) = Len(q) - 1 /\ Len(q) \in Nat /\ Len(q) >= 1
      /\ \A i \in 1 .. Len(q) - 1 : Tail(q)[i] = q[i + 1]
      /\ Head(q) \in Conns /\ Tail(q) \in Seq(Conns)
  OBVIOUS
<1>2. ASSUME NEW x \in InQueue(q) PROVE x \in {Head(q)} \cup InQueue(Tail(q))
  <2>1. PICK i \in 1 .. Len(q) : x = q[i]
    BY <1>2 DEF InQueue
  <2>2. CASE i = 1
    BY <1>1, <2>1, <2>2
  <2>3. CASE i # 1
    <3>1. i - 1 \in 1 .. Len(Tail(q)) /\ Tail(q)[i - 1] = x
      BY <1>1, <2>1, <2>3
    <3> QED
      BY <3>1 DEF InQueue
  <2> QED
    BY <2>2, <2>3
<1>3. ASSUME NEW x \in {Head(q)} \cup InQueue(Tail(q)) PROVE x \in InQueue(q)
  <2>1. CASE x = Head(q)
    BY <1>1, <2>1 DEF InQueue
  <2>2. CASE x \in InQueue(Tail(q))
    <3>1. PICK i \in 1 .. Len(Tail(q)) : x = Tail(q)[i]
      BY <2>2 DEF InQueue
    <3>2. i + 1 \in 1 .. Len(q) /\ x = q[i + 1]
      BY <1>1, <3>1
    <3> QED
      BY <3>2 DEF InQueue
  <2> QED
    BY <1>3, <2>1, <2>2
<1> QED
  BY <1>1, <1>2, <1>3

LEMMA QueueAppend ==
    ASSUME NEW q \in Seq(Conns), NEW x \in Conns
    PROVE  InQueue(Append(q, x)) = InQueue(q) \cup {x}
<1>1. /\ Len(Append(q, x)) = Len(q) + 1 /\ Len(q) \in Nat
      /\ Append(q, x)[Len(q) + 1] = x
      /\ \A j \in 1 .. Len(q) : Append(q, x)[j] = q[j]
  OBVIOUS
<1>2. ASSUME NEW y \in InQueue(Append(q, x)) PROVE y \in InQueue(q) \cup {x}
  <2>1. PICK i \in 1 .. Len(q) + 1 : y = Append(q, x)[i]
    BY <1>1, <1>2 DEF InQueue
  <2> QED
    BY <1>1, <2>1 DEF InQueue
<1>3. ASSUME NEW y \in InQueue(q) \cup {x} PROVE y \in InQueue(Append(q, x))
  <2>1. CASE y = x
    <3>1. Len(q) + 1 \in 1 .. Len(Append(q, x))
      BY <1>1
    <3> QED
      BY <1>1, <2>1, <3>1 DEF InQueue
  <2>2. CASE y \in InQueue(q)
    <3>1. PICK i \in 1 .. Len(q) : y = q[i]
      BY <2>2 DEF InQueue
    <3>2. i \in 1 .. Len(Append(q, x)) /\ y = Append(q, x)[i]
      BY <1>1, <3>1
    <3> QED
      BY <3>2 DEF InQueue
  <2> QED
    BY <1>3, <2>1, <2>2
<1> QED
  BY <1>2, <1>3

LEMMA OnceTail ==
    ASSUME NEW q \in Seq(Conns), q # <<>>, NEW x, Once(q, x)
    PROVE  Once(Tail(q), x) /\ (Head(q) = x => x \notin InQueue(Tail(q)))
<1>1. /\ Head(q) = q[1] /\ Len(Tail(q)) = Len(q) - 1 /\ Len(q) \in Nat /\ Len(q) >= 1
      /\ \A i \in 1 .. Len(q) - 1 : Tail(q)[i] = q[i + 1]
  OBVIOUS
<1>2. ASSUME NEW i \in 1 .. Len(Tail(q)), NEW j \in 1 .. Len(Tail(q)),
             Tail(q)[i] = x, Tail(q)[j] = x
      PROVE  i = j
  <2>1. i + 1 \in 1 .. Len(q) /\ j + 1 \in 1 .. Len(q) /\ q[i + 1] = x /\ q[j + 1] = x
    BY <1>1, <1>2
  <2>2. i + 1 = j + 1
    BY <2>1 DEF Once
  <2> QED
    BY <2>2
<1>3. ASSUME Head(q) = x, NEW i \in 1 .. Len(Tail(q)), Tail(q)[i] = x PROVE FALSE
  <2>1. i + 1 \in 1 .. Len(q) /\ q[i + 1] = x /\ 1 \in 1 .. Len(q) /\ q[1] = x
    BY <1>1, <1>3
  <2>2. i + 1 = 1
    BY <2>1 DEF Once
  <2> QED
    BY <2>2
<1> QED
  BY <1>2, <1>3 DEF Once, InQueue

LEMMA OnceAppend ==
    ASSUME NEW q \in Seq(Conns), NEW y \in Conns, NEW x, Once(q, x),
           y # x \/ x \notin InQueue(q)
    PROVE  Once(Append(q, y), x)
<1>1. /\ Len(Append(q, y)) = Len(q) + 1 /\ Len(q) \in Nat
      /\ Append(q, y)[Len(q) + 1] = y
      /\ \A j \in 1 .. Len(q) : Append(q, y)[j] = q[j]
  OBVIOUS
<1> SUFFICES ASSUME NEW i \in 1 .. Len(q) + 1, NEW j \in 1 .. Len(q) + 1,
                    Append(q, y)[i] = x, Append(q, y)[j] = x
             PROVE  i = j
  BY <1>1 DEF Once
<1>2. CASE y # x
  <2>1. i # Len(q) + 1 /\ j # Len(q) + 1
    BY <1>1, <1>2
  <2>2. i \in 1 .. Len(q) /\ j \in 1 .. Len(q)
    BY <1>1, <2>1
  <2> QED
    BY <1>1, <2>2 DEF Once
<1>3. CASE y = x /\ x \notin InQueue(q)
  <2>1. \A k \in 1 .. Len(q) : q[k] # x
    BY <1>3 DEF InQueue
  <2>2. ~(i \in 1 .. Len(q)) /\ ~(j \in 1 .. Len(q))
    BY <1>1, <2>1
  <2> QED
    BY <1>1, <2>2
<1> QED
  BY <1>2, <1>3

-----------------------------------------------------------------------------
(* The server's steps by what they do to the test, its connections and its    *)
(* messages.                                                                  *)

Becomes(pc, state, ctrl, pend, streams, got) ==
    /\ srv'.pc = pc /\ srv'.state = state /\ srv'.ctrl = ctrl /\ srv'.pend = pend
    /\ srv'.streams = streams /\ srv'.got = got
SameQueue == UNCHANGED <<listenQ, closed>>
NextInQueue == listenQ # <<>> /\ listenQ' = Tail(listenQ) /\ UNCHANGED closed
MayRelisten == SameQueue \/ (closed' = closed \cup InQueue(listenQ) /\ listenQ' = <<>>)
Tells(conn, ms) ==
    \A c \in Clients :
        s2c'[c] = IF conn = Ctrl(c) /\ cl[c].pc # "exit" THEN s2c[c] \o ms ELSE s2c[c]
Takes(doc) ==
    \A c \in Clients :
        IF srv.ctrl = Ctrl(c)
          THEN \/ c2s[c] # <<>> /\ Head(c2s[c]) = doc /\ c2s'[c] = Tail(c2s[c])
               \/ cl[c].pc = "exit" /\ c2s'[c] = <<>>
          ELSE c2s'[c] = c2s[c]

Opens ==
    /\ srv.pc = "listen"
    /\ Becomes("select", "IPERF_START", srv.ctrl, srv.pend, srv.streams, srv.got)
    /\ SameQueue /\ UNCHANGED <<s2c, c2s>>
Admits ==
    /\ srv.pc = "select" /\ srv.ctrl = None
    /\ Becomes("cookie", srv.state, Head(listenQ), srv.pend, srv.streams, srv.got)
    /\ NextInQueue /\ UNCHANGED <<s2c, c2s>>
Looks ==
    /\ srv.pc = "select" /\ srv.ctrl # None
    /\ Becomes(IF srv.state = "CREATE_STREAMS" THEN "stream" ELSE "deny",
               srv.state, srv.ctrl, Head(listenQ), srv.streams, srv.got)
    /\ NextInQueue /\ UNCHANGED <<s2c, c2s>>
Refuses ==
    /\ srv.pc \in {"deny", "stream"}
    /\ Becomes("select", srv.state, srv.ctrl, None, srv.streams, srv.got)
    /\ closed' = closed \cup {srv.pend} /\ UNCHANGED listenQ
    /\ Tells(srv.pend, <<"ACCESS_DENIED">>) /\ UNCHANGED c2s
Greets ==
    /\ srv.pc = "cookie"
    /\ Becomes("params", "PARAM_EXCHANGE", srv.ctrl, srv.pend, srv.streams, srv.got)
    /\ SameQueue /\ Tells(srv.ctrl, <<"PARAM_EXCHANGE">>) /\ UNCHANGED c2s
AsksStreams ==
    /\ srv.pc = "params"
    /\ Becomes("select", "CREATE_STREAMS", srv.ctrl, srv.pend, srv.streams, srv.got)
    /\ MayRelisten /\ Tells(srv.ctrl, <<"CREATE_STREAMS">>) /\ Takes("PARAMS")
Joins ==
    /\ srv.pc = "stream"
    /\ Becomes("select", srv.state, srv.ctrl, None, srv.streams \cup {srv.pend}, srv.got)
    /\ Cardinality(srv.streams \cup {srv.pend}) < NumStreams
    /\ SameQueue /\ UNCHANGED <<s2c, c2s>>
Starts ==
    /\ srv.pc = "stream"
    /\ Becomes("select", "TEST_RUNNING", srv.ctrl, None, srv.streams \cup {srv.pend}, srv.got)
    /\ Cardinality(srv.streams \cup {srv.pend}) = NumStreams
    /\ MayRelisten /\ Tells(srv.ctrl, <<"TEST_START", "TEST_RUNNING">>) /\ UNCHANGED c2s
Transfers ==
    /\ srv.pc = "io" \/ (srv.pc = "select" /\ srv.ctrl # None /\ srv.state = "TEST_RUNNING")
    /\ Becomes("io", srv.state, srv.ctrl, srv.pend, srv.streams, srv.got)
       \/ Becomes("select", srv.state, srv.ctrl, srv.pend, srv.streams, srv.got)
    /\ SameQueue /\ UNCHANGED <<s2c, c2s>>
Collects ==
    /\ srv.pc = "select" /\ srv.ctrl # None
    /\ \E c \in Clients : srv.ctrl = Ctrl(c) /\ c2s[c] # <<>> /\ Head(c2s[c]) = "TEST_END"
                          /\ c2s' = [c2s EXCEPT ![c] = Tail(c2s[c])]
    /\ Becomes("results", "EXCHANGE_RESULTS", srv.ctrl, srv.pend, srv.streams, srv.got)
    /\ closed' = closed \cup srv.streams /\ UNCHANGED listenQ
    /\ Tells(srv.ctrl, <<"EXCHANGE_RESULTS">>)
Reports ==
    /\ srv.pc = "results"
    /\ Becomes("select", "DISPLAY_RESULTS", srv.ctrl, srv.pend, srv.streams, srv'.got)
    /\ srv'.got = "peer" \/ PeerGone(srv.ctrl)
    /\ SameQueue /\ Tells(srv.ctrl, <<"RESULTS", "DISPLAY_RESULTS">>) /\ Takes("RESULTS")
Drops ==
    /\ srv'.pc \in {"listen", "exit"}
    /\ srv'.ctrl = None /\ srv'.pend = None /\ srv'.streams = {} /\ listenQ' = <<>>
    /\ closed \subseteq closed'
    /\ closed' \subseteq closed \cup InQueue(listenQ) \cup {srv.ctrl} \cup srv.streams
    /\ srv'.pc = "exit" \/ InQueue(listenQ) \cup ({srv.ctrl} \ {None}) \subseteq closed'
    /\ \A c \in Clients : srv.ctrl # Ctrl(c) => s2c'[c] = s2c[c] /\ c2s'[c] = c2s[c]
    /\ \/ UNCHANGED s2c
       \/ Tells(srv.ctrl, <<"SERVER_ERROR">>)
       \/ Tells(srv.ctrl, <<"SERVER_TERMINATE">>)
       \/ srv.pc = "params" /\ Tells(srv.ctrl, <<"CREATE_STREAMS">>)
       \/ srv.pc = "stream" /\ Tells(srv.ctrl, <<"TEST_START">>)
ServerEffect ==
    /\ UNCHANGED <<cl, cookied>>
    /\ \/ Opens \/ Admits \/ Looks \/ Refuses \/ Greets \/ AsksStreams \/ Joins \/ Starts
       \/ Transfers \/ Collects \/ Reports \/ Drops

LEMMA SendStateTells ==
    ASSUME TypeOK, NEW conn \in Conns, NEW ms, SendState(conn, ms) PROVE Tells(conn, ms)
<1> SUFFICES ASSUME NEW c \in Clients
             PROVE  s2c'[c] = IF conn = Ctrl(c) /\ cl[c].pc # "exit" THEN s2c[c] \o ms ELSE s2c[c]
  BY DEF Tells
<1>1. conn = Ctrl(c) <=> conn[1] = c /\ conn[2] = 0
  BY DEF Conns, Ctrl
<1>2. conn[1] \in Clients /\ s2c \in [Clients -> Seq(ToClient)]
  BY ConnFacts DEF TypeOK
<1> QED
  BY <1>1, <1>2 DEF SendState, PeerGone

LEMMA ConsumeTakes ==
    ASSUME TypeOK, srv.ctrl \in Conns, NEW doc,
           \/ JsonWhole(srv.ctrl, doc) /\ Consume(srv.ctrl, Tail(Inbox(srv.ctrl)))
           \/ JsonCut(srv.ctrl, doc) /\ Consume(srv.ctrl, <<>>)
    PROVE  Takes(doc)
<1> SUFFICES ASSUME NEW c \in Clients
             PROVE  IF srv.ctrl = Ctrl(c)
                      THEN \/ c2s[c] # <<>> /\ Head(c2s[c]) = doc /\ c2s'[c] = Tail(c2s[c])
                           \/ cl[c].pc = "exit" /\ c2s'[c] = <<>>
                      ELSE c2s'[c] = c2s[c]
  BY DEF Takes
<1>1. srv.ctrl = Ctrl(c) <=> srv.ctrl[1] = c /\ srv.ctrl[2] = 0
  BY DEF Conns, Ctrl
<1>2. srv.ctrl[1] \in Clients /\ c2s \in [Clients -> Seq(ToServer)]
  BY ConnFacts DEF TypeOK
<1> QED
  BY <1>1, <1>2 DEF JsonWhole, JsonCut, Consume, Inbox, PeerGone

\* Only the client of the control connection can have its messages read.
LEMMA ConsumeOthers ==
    ASSUME TypeOK, srv.ctrl \in Conns, NEW rest, Consume(srv.ctrl, rest),
           NEW c \in Clients, srv.ctrl # Ctrl(c)
    PROVE  c2s'[c] = c2s[c]
<1>1. srv.ctrl = Ctrl(c) <=> srv.ctrl[1] = c /\ srv.ctrl[2] = 0
  BY DEF Conns, Ctrl
<1>2. srv.ctrl[1] \in Clients /\ c2s \in [Clients -> Seq(ToServer)]
  BY ConnFacts DEF TypeOK
<1> QED
  BY <1>1, <1>2 DEF Consume

LEMMA DropFacts ==
    ASSUME TypeInv, (\E e : EndTest(e, {}) \/ EndTest(e, srv.streams)) \/ FailTest \/ ServerExit
    PROVE  /\ srv'.pc \in {"listen", "exit"}
           /\ srv'.ctrl = None /\ srv'.pend = None /\ srv'.streams = {} /\ listenQ' = <<>>
           /\ closed \subseteq closed'
           /\ closed' \subseteq closed \cup InQueue(listenQ) \cup {srv.ctrl} \cup srv.streams
           /\ srv'.pc = "exit" \/ InQueue(listenQ) \cup ({srv.ctrl} \ {None}) \subseteq closed'
<1>1. ASSUME NEW e, EndTest(e, {}) \/ EndTest(e, srv.streams)
      PROVE  /\ srv'.pc \in {"listen", "exit"}
             /\ srv'.ctrl = None /\ srv'.pend = None /\ srv'.streams = {} /\ listenQ' = <<>>
             /\ closed \subseteq closed'
             /\ closed' \subseteq closed \cup InQueue(listenQ) \cup {srv.ctrl} \cup srv.streams
             /\ InQueue(listenQ) \cup ({srv.ctrl} \ {None}) \subseteq closed'
  BY <1>1 DEF EndTest
<1>2. CASE ServerExit
  BY <1>2 DEF ServerExit, TypeInv, TypeOK, Server
<1> QED
  BY <1>1, <1>2 DEF FailTest

LEMMA WriteFailsDrops ==
    ASSUME TypeInv, NEW conn, WriteFails(conn),
           \A c \in Clients : srv.ctrl # Ctrl(c) => c2s'[c] = c2s[c]
    PROVE  Drops
<1>1. (FailTest \/ ServerExit) /\ UNCHANGED s2c
  BY DEF WriteFails
<1>2. \A c \in Clients : s2c'[c] = s2c[c]
  BY <1>1
<1> QED
  BY <1>1, <1>2, DropFacts DEF Drops

LEMMA EndDrops ==
    ASSUME TypeInv, (\E e : EndTest(e, {}) \/ EndTest(e, srv.streams)) \/ FailTest \/ ServerExit,
           UNCHANGED s2c, \A c \in Clients : srv.ctrl # Ctrl(c) => c2s'[c] = c2s[c]
    PROVE  Drops
<1>2. \A c \in Clients : s2c'[c] = s2c[c]
  OBVIOUS
<1> QED
  BY <1>2, DropFacts DEF Drops

LEMMA SpokenDrops ==
    ASSUME TypeInv, FailTest \/ ServerExit, srv.ctrl \in Conns,
           \/ SendState(srv.ctrl, <<"SERVER_ERROR">>) \/ SendState(srv.ctrl, <<"SERVER_TERMINATE">>)
           \/ srv.pc = "params" /\ SendState(srv.ctrl, <<"CREATE_STREAMS">>)
           \/ srv.pc = "stream" /\ SendState(srv.ctrl, <<"TEST_START">>),
           \A c \in Clients : srv.ctrl # Ctrl(c) => c2s'[c] = c2s[c]
    PROVE  Drops
<1>1. \/ Tells(srv.ctrl, <<"SERVER_ERROR">>) \/ Tells(srv.ctrl, <<"SERVER_TERMINATE">>)
      \/ srv.pc = "params" /\ Tells(srv.ctrl, <<"CREATE_STREAMS">>)
      \/ srv.pc = "stream" /\ Tells(srv.ctrl, <<"TEST_START">>)
  BY SendStateTells DEF TypeInv
<1>2. \A c \in Clients : srv.ctrl # Ctrl(c) => s2c'[c] = s2c[c]
  BY <1>1 DEF Tells
<1> QED
  BY <1>1, <1>2, DropFacts DEF Drops

LEMMA RefuseEffect ==
    ASSUME TypeInv, srv.pc \in {"deny", "stream"}, Refuse(srv.pend), UNCHANGED c2s
    PROVE  Refuses \/ Drops
<1> USE HeldConns
<1>1. CASE WriteFails(srv.pend)
  BY <1>1, WriteFailsDrops
<1>2. CASE ~WriteFails(srv.pend)
  <2>1. Tells(srv.pend, <<"ACCESS_DENIED">>)
    BY <1>2, SendStateTells DEF Refuse, TypeInv
  <2> QED
    BY <1>2, <2>1 DEF Refuse, Refuses, Becomes, Server
<1> QED
  BY <1>1, <1>2

LEMMA StreamEffect ==
    ASSUME TypeInv, ReadStreamCookie PROVE Joins \/ Starts \/ Refuses \/ Drops
<1> USE HeldConns
<1>1. srv.pc = "stream" /\ srv.pend \in Conns /\ srv.ctrl \in Conns /\ UNCHANGED c2s
  BY DEF ReadStreamCookie
<1>2. CASE Refuse(srv.pend)
  BY <1>1, <1>2, RefuseEffect
<1>3. CASE AddStream(srv.pend)
  <2> DEFINE streams == srv.streams \cup {srv.pend}
  <2>1. CASE /\ Cardinality(streams) < NumStreams
             /\ srv' = [srv EXCEPT !.pc = "select", !.pend = None, !.streams = streams]
             /\ UNCHANGED <<listenQ, closed, s2c>>
    BY <1>1, <2>1 DEF Joins, Becomes, SameQueue, Server
  <2>2. CASE /\ Cardinality(streams) = NumStreams
             /\ srv' = [srv EXCEPT !.pc = "select", !.state = "TEST_RUNNING",
                                   !.pend = None, !.streams = streams]
             /\ SendState(srv.ctrl, <<"TEST_START", "TEST_RUNNING">>)
             /\ ReplaceListener
    <3>1. Tells(srv.ctrl, <<"TEST_START", "TEST_RUNNING">>)
      BY <1>1, <2>2, SendStateTells DEF TypeInv
    <3>2. MayRelisten
      BY <2>2 DEF ReplaceListener, MayRelisten, SameQueue
    <3> QED
      BY <1>1, <2>2, <3>1, <3>2 DEF Starts, Becomes, Server
  <2>3. CASE (FailTest \/ ServerExit) /\ UNCHANGED s2c
    BY <1>1, <2>3, EndDrops
  <2>4. CASE WriteFails(srv.ctrl)
    BY <1>1, <2>4, WriteFailsDrops
  <2>5. CASE FailTest /\ SendState(srv.ctrl, <<"TEST_START">>)
    BY <1>1, <2>5, SpokenDrops
  <2> QED
    BY <1>3, <2>1, <2>2, <2>3, <2>4, <2>5 DEF AddStream, StartTest
<1> QED
  BY <1>2, <1>3 DEF ReadStreamCookie

LEMMA ParametersEffect ==
    ASSUME TypeInv, GetParameters \/ GetParametersFails PROVE AsksStreams \/ Drops
<1> USE HeldConns
<1>1. srv.pc = "params" /\ srv.ctrl \in Conns
  BY DEF GetParameters, GetParametersFails
<1>2. CASE GetParametersFails
  BY <1>2, EndDrops DEF GetParametersFails
<1>3. CASE GetParameters
  <2>1. Takes("PARAMS")
    BY <1>1, <1>3, ConsumeTakes DEF GetParameters, TypeInv
  <2>2. \A c \in Clients : srv.ctrl # Ctrl(c) => c2s'[c] = c2s[c]
    BY <2>1 DEF Takes
  <2>3. CASE ListenForStreams
    <3>1. Tells(srv.ctrl, <<"CREATE_STREAMS">>)
      BY <1>1, <2>3, SendStateTells DEF ListenForStreams, TypeInv
    <3>2. MayRelisten
      BY <2>3 DEF ListenForStreams, ReplaceListener, MayRelisten, SameQueue
    <3> QED
      BY <1>1, <2>1, <2>3, <3>1, <3>2 DEF ListenForStreams, AsksStreams, Becomes, Server
  <2>4. CASE FailTest /\ \E m \in {"SERVER_ERROR", "CREATE_STREAMS"} : SendState(srv.ctrl, <<m>>)
    BY <1>1, <2>2, <2>4, SpokenDrops
  <2>5. CASE WriteFails(srv.ctrl)
    BY <2>2, <2>5, WriteFailsDrops
  <2> QED
    BY <1>3, <2>3, <2>4, <2>5 DEF GetParameters
<1> QED
  BY <1>2, <1>3

LEMMA ResultsEffect ==
    ASSUME TypeInv, ExchangeResults \/ ExchangeResultsFails PROVE Reports \/ Drops
<1> USE HeldConns
<1>1. srv.pc = "results" /\ srv.ctrl \in Conns
  BY DEF ExchangeResults, ExchangeResultsFails
<1>2. CASE ExchangeResultsFails
  BY <1>2, EndDrops DEF ExchangeResultsFails
<1>3. CASE ExchangeResults
  <2>1. Takes("RESULTS")
    BY <1>1, <1>3, ConsumeTakes DEF ExchangeResults, TypeInv
  <2>2. \A c \in Clients : srv.ctrl # Ctrl(c) => c2s'[c] = c2s[c]
    BY <2>1 DEF Takes
  <2> DEFINE from == IF JsonWhole(srv.ctrl, "RESULTS") THEN "peer" ELSE "memory"
  <2>3. CASE /\ srv' = [srv EXCEPT !.pc = "select", !.state = "DISPLAY_RESULTS", !.got = from]
             /\ SendState(srv.ctrl, <<"RESULTS", "DISPLAY_RESULTS">>)
             /\ UNCHANGED <<listenQ, closed>>
    <3>1. Tells(srv.ctrl, <<"RESULTS", "DISPLAY_RESULTS">>)
      BY <1>1, <2>3, SendStateTells DEF TypeInv
    <3>2. from = "peer" \/ PeerGone(srv.ctrl)
      BY <1>3 DEF ExchangeResults, JsonCut
    <3> HIDE DEF from
    <3>3. Becomes("select", "DISPLAY_RESULTS", srv.ctrl, srv.pend, srv.streams, from)
      BY <2>3 DEF Becomes, Server
    <3> QED
      BY <1>1, <2>1, <2>3, <3>1, <3>2, <3>3 DEF Reports, Becomes, SameQueue
  <2>4. CASE WriteFails(srv.ctrl)
    BY <2>2, <2>4, WriteFailsDrops
  <2> QED
    BY <1>3, <2>3, <2>4 DEF ExchangeResults
<1> QED
  BY <1>2, <1>3

LEMMA TestEndEffect ==
    ASSUME TypeInv, HandleTestEnd PROVE Collects \/ Drops
<1> USE HeldConns
<1>1. /\ srv.pc = "select" /\ srv.ctrl \in Conns /\ srv.ctrl # None
      /\ Consume(srv.ctrl, Tail(Inbox(srv.ctrl)))
      /\ Inbox(srv.ctrl) # <<>> /\ Head(Inbox(srv.ctrl)) = "TEST_END"
  BY DEF HandleTestEnd, CtrlReadable
<1>2. \A c \in Clients : srv.ctrl # Ctrl(c) => c2s'[c] = c2s[c]
  BY <1>1, ConsumeOthers DEF TypeInv
<1>3. CASE WriteFails(srv.ctrl)
  BY <1>2, <1>3, WriteFailsDrops
<1>4. CASE /\ srv' = [srv EXCEPT !.pc = "results", !.state = "EXCHANGE_RESULTS"]
           /\ closed' = closed \cup srv.streams
           /\ SendState(srv.ctrl, <<"EXCHANGE_RESULTS">>)
           /\ UNCHANGED listenQ
  <2>1. Tells(srv.ctrl, <<"EXCHANGE_RESULTS">>)
    BY <1>1, <1>4, SendStateTells DEF TypeInv
  <2>2. srv.ctrl[2] = 0 /\ srv.ctrl[1] \in Clients /\ srv.ctrl = Ctrl(srv.ctrl[1])
    BY <1>1 DEF Inbox, Conns, Ctrl
  <2>3. /\ c2s[srv.ctrl[1]] # <<>> /\ Head(c2s[srv.ctrl[1]]) = "TEST_END"
        /\ c2s' = [c2s EXCEPT ![srv.ctrl[1]] = Tail(c2s[srv.ctrl[1]])]
    BY <1>1, <2>2 DEF Inbox, Consume
  <2>4. Becomes("results", "EXCHANGE_RESULTS", srv.ctrl, srv.pend, srv.streams, srv.got)
    BY <1>4 DEF Becomes, Server
  <2> QED
    BY <1>1, <1>4, <2>1, <2>2, <2>3, <2>4 DEF Collects
<1> QED
  BY <1>3, <1>4 DEF HandleTestEnd

LEMMA ServerCases ==
    ASSUME TypeInv, ServerStep \/ ServerSigend PROVE ServerEffect
<1> USE HeldConns
<1>0. UNCHANGED <<cl, cookied>>
  BY ServerShape DEF ServerMoves
<1>1. CASE Listen
  <2>1. CASE FailTest
    BY <1>1, <2>1, EndDrops DEF Listen, ServerEffect
  <2>2. CASE ~FailTest
    BY <1>0, <1>1, <2>2 DEF Listen, ServerEffect, Opens, Becomes, SameQueue, Server
  <2> QED
    BY <2>1, <2>2
<1>2. CASE AcceptControl
  BY <1>0, <1>2 DEF AcceptControl, ServerEffect, Admits, Becomes, NextInQueue, Server
<1>3. CASE AcceptSurplus \/ AcceptStream
  <2>1. Looks
    BY <1>3, NoneNotConn DEF AcceptSurplus, AcceptStream, Looks, Becomes, NextInQueue, Server,
                TypeInv, Blocked
  <2> QED
    BY <1>0, <2>1 DEF ServerEffect
<1>4. CASE ReadControlCookie
  <2>1. CASE WriteFails(srv.ctrl)
    BY <1>0, <1>4, <2>1, WriteFailsDrops DEF ReadControlCookie, ServerEffect
  <2>2. CASE ~WriteFails(srv.ctrl)
    <3>1. Tells(srv.ctrl, <<"PARAM_EXCHANGE">>)
      BY <1>4, <2>2, SendStateTells DEF ReadControlCookie, TypeInv
    <3> QED
      BY <1>0, <1>4, <2>2, <3>1 DEF ReadControlCookie, ServerEffect, Greets, Becomes,
                                    SameQueue, Server
  <2> QED
    BY <2>1, <2>2
<1>5. CASE DenySurplus
  BY <1>0, <1>5, RefuseEffect DEF DenySurplus, ServerEffect
<1>6. CASE GetParameters \/ GetParametersFails
  BY <1>0, <1>6, ParametersEffect DEF ServerEffect
<1>7. CASE ReadStreamCookie
  BY <1>0, <1>7, StreamEffect DEF ServerEffect
<1>8. CASE ExchangeResults \/ ExchangeResultsFails
  BY <1>0, <1>8, ResultsEffect DEF ServerEffect
<1>9. CASE HandleTestEnd
  BY <1>0, <1>9, TestEndEffect DEF ServerEffect
<1>10. CASE HandleLastMessage \/ HandleCtrlClosed
  <2>1. srv.ctrl \in Conns /\ UNCHANGED s2c
    BY <1>10 DEF HandleLastMessage, HandleCtrlClosed, CtrlReadable
  <2>2. \A c \in Clients : srv.ctrl # Ctrl(c) => c2s'[c] = c2s[c]
    BY <1>10, <2>1, ConsumeOthers DEF HandleLastMessage, HandleCtrlClosed, TypeInv
  <2>3. FailTest \/ ServerExit \/ \E e : EndTest(e, {}) \/ EndTest(e, srv.streams)
    BY <1>10 DEF HandleLastMessage, HandleCtrlClosed
  <2> QED
    BY <1>0, <2>1, <2>2, <2>3, EndDrops DEF ServerEffect
<1>11. CASE ServerRecv \/ ServerStartBurst \/ ServerSendBlock
  <2>1. UNCHANGED <<s2c, c2s>>
    BY <1>11 DEF ServerRecv, ServerStartBurst, ServerSendBlock, net, WriteFails
  <2>2. CASE FailTest \/ ServerExit
    BY <1>0, <2>1, <2>2, EndDrops DEF ServerEffect
  <2>3. CASE ~FailTest /\ ~ServerExit
    <3>1. /\ srv.pc = "io" \/ (srv.pc = "select" /\ srv.ctrl # None /\ srv.state = "TEST_RUNNING")
          /\ SameQueue
      BY <1>11, <2>3 DEF ServerRecv, ServerStartBurst, ServerSendBlock, net, CtrlReadable,
                         WriteFails, SameQueue
    <3>2. Becomes("io", srv.state, srv.ctrl, srv.pend, srv.streams, srv.got)
          \/ Becomes("select", srv.state, srv.ctrl, srv.pend, srv.streams, srv.got)
      BY <1>11, <2>3 DEF ServerRecv, ServerStartBurst, ServerSendBlock, CtrlReadable,
                         WriteFails, Becomes, Server
    <3> QED
      BY <1>0, <2>1, <3>1, <3>2 DEF ServerEffect, Transfers
  <2> QED
    BY <2>2, <2>3
<1>12. CASE ServerSigend
  <2>1. ServerExit /\ UNCHANGED c2s
    BY <1>12 DEF ServerSigend
  <2>2. CASE srv.ctrl = None
    BY <1>0, <1>12, <2>1, <2>2, EndDrops DEF ServerSigend, ServerEffect
  <2>3. CASE srv.ctrl # None
    <3>1. srv.ctrl \in Conns
      BY <2>3 DEF Server
    <3> QED
      BY <1>0, <1>12, <2>1, <2>3, <3>1, SpokenDrops DEF ServerSigend, ServerEffect
  <2> QED
    BY <2>2, <2>3
<1> QED
  BY <1>1, <1>2, <1>3, <1>4, <1>5, <1>6, <1>7, <1>8, <1>9, <1>10, <1>11, <1>12
  DEF ServerStep, Accept, HandleMessage, FinishRead

-----------------------------------------------------------------------------
(* A client's steps by what they do to it, its connections and its messages. *)

Turns(c, pc, state, dialed, got, out) ==
    /\ cl'[c].pc = pc /\ cl'[c].state = state /\ cl'[c].dialed = dialed
    /\ cl'[c].got = got /\ cl'[c].out = out
OthersSame(c) ==
    /\ UNCHANGED <<srv, closed>>
    /\ \A d \in Clients \ {c} : cl'[d] = cl[d] /\ s2c'[d] = s2c[d] /\ c2s'[d] = c2s[d]
Hears(c, m) == Arrived(c, m) /\ s2c'[c] = Tail(s2c[c])
Says(c, m) == c2s'[c] = IF ServerGone(Ctrl(c)) THEN c2s[c] ELSE Append(c2s[c], m)
Keeps(c) == s2c'[c] = s2c[c] /\ c2s'[c] = c2s[c]

Quits(c) ==
    /\ cl[c].pc # "exit"
    /\ Turns(c, "exit", cl[c].state, cl[c].dialed, cl[c].got, cl'[c].out)
    /\ s2c'[c] = <<>>
    /\ c2s'[c] = c2s[c] \/ \E m \in LastWords : Says(c, m)
    /\ cl'[c].out = "denied" => Arrived(c, "ACCESS_DENIED")
    /\ cl'[c].out = "done" => Arrived(c, "DISPLAY_RESULTS")
    /\ UNCHANGED listenQ
Connects(c) ==
    /\ cl[c].pc = "init"
    /\ Turns(c, "dialed", cl[c].state, cl[c].dialed, cl[c].got, cl[c].out)
    /\ Keeps(c) /\ listenQ' = Append(listenQ, Ctrl(c))
Dials(c) ==
    /\ cl[c].pc = "streams"
    /\ Turns(c, "streamCookie", cl[c].state, cl[c].dialed + 1, cl[c].got, cl[c].out)
    /\ Keeps(c) /\ listenQ' = Append(listenQ, <<c, cl[c].dialed + 1>>)
Works(c) ==
    /\ cl[c].pc \notin {"init", "results", "exit"}
    /\ \E pc \in {"select", "streams", "io"} :
        /\ Turns(c, pc, cl[c].state, cl[c].dialed, cl[c].got, cl[c].out)
        /\ pc = "io" => cl[c].state = "TEST_RUNNING" \/ cl[c].pc = "io"
        /\ pc = "streams" => cl[c].pc = "streamCookie"
    /\ Keeps(c) /\ UNCHANGED listenQ
Agrees(c) ==
    /\ cl[c].pc = "select" /\ Hears(c, "PARAM_EXCHANGE")
    /\ Turns(c, "select", "PARAM_EXCHANGE", cl[c].dialed, cl[c].got, cl[c].out)
    /\ Says(c, "PARAMS") /\ UNCHANGED listenQ
Creates(c) ==
    /\ cl[c].pc = "select" /\ Hears(c, "CREATE_STREAMS")
    /\ Turns(c, "streams", "CREATE_STREAMS", 0, cl[c].got, cl[c].out)
    /\ c2s'[c] = c2s[c] /\ UNCHANGED listenQ
Runs(c) ==
    /\ cl[c].pc = "select"
    /\ \E m \in {"TEST_START", "TEST_RUNNING"} :
        Hears(c, m) /\ Turns(c, "select", m, cl[c].dialed, cl[c].got, cl[c].out)
    /\ c2s'[c] = c2s[c] /\ UNCHANGED listenQ
Finishes(c) ==
    /\ cl[c].pc = "io"
    /\ Turns(c, "select", "TEST_END", cl[c].dialed, cl[c].got, cl[c].out)
    /\ s2c'[c] = s2c[c] /\ Says(c, "TEST_END") /\ UNCHANGED listenQ
SendsResults(c) ==
    /\ cl[c].pc = "select" /\ Hears(c, "EXCHANGE_RESULTS")
    /\ Turns(c, "results", "EXCHANGE_RESULTS", cl[c].dialed, cl[c].got, cl[c].out)
    /\ Says(c, "RESULTS") /\ UNCHANGED listenQ
GetsResults(c) ==
    /\ cl[c].pc = "results" /\ UNCHANGED listenQ /\ c2s'[c] = c2s[c]
    /\ \/ /\ Hears(c, "RESULTS")
          /\ Turns(c, "select", cl[c].state, cl[c].dialed, "peer", cl[c].out)
       \/ /\ ServerGone(Ctrl(c)) /\ s2c'[c] = <<>>
          /\ Turns(c, "select", cl[c].state, cl[c].dialed, "memory", cl[c].out)
ClientEffect(c) ==
    /\ OthersSame(c)
    /\ \/ Quits(c) \/ Connects(c) \/ Dials(c) \/ Works(c) \/ Agrees(c) \/ Creates(c)
       \/ Runs(c) \/ Finishes(c) \/ SendsResults(c) \/ GetsResults(c)

\* What a client's assignments do to each client's record and channels.
LEMMA SetClientTurns ==
    ASSUME TypeInv, NEW c \in Clients, NEW new, SetClient(c, new)
    PROVE  /\ Turns(c, new.pc, new.state, new.dialed, new.got, new.out)
           /\ \A d \in Clients \ {c} : cl'[d] = cl[d]
  BY DEF SetClient, Turns, TypeInv, TypeOK

LEMMA ReceivedHears ==
    ASSUME TypeInv, NEW c \in Clients, NEW m, Arrived(c, m), Received(c)
    PROVE  Hears(c, m) /\ \A d \in Clients \ {c} : s2c'[d] = s2c[d]
  BY DEF Hears, Received, TypeInv, TypeOK

LEMMA SendSays ==
    ASSUME TypeInv, NEW c \in Clients, NEW m, Send(c, m)
    PROVE  Says(c, m) /\ \A d \in Clients \ {c} : c2s'[d] = c2s[d]
  BY DEF Says, Send, TypeInv, TypeOK

LEMMA ExitQuits ==
    ASSUME TypeInv, NEW c \in Clients, NEW out, ClientExit(c, out), cl[c].pc # "exit",
           UNCHANGED <<srv, closed, listenQ>>,
           UNCHANGED c2s \/ \E m \in LastWords : Send(c, m),
           out = "denied" => Arrived(c, "ACCESS_DENIED"),
           out = "done" => Arrived(c, "DISPLAY_RESULTS")
    PROVE  ClientEffect(c)
<1> DEFINE new == [cl[c] EXCEPT !.pc = "exit", !.out = out, !.todo = 0]
<1>1. SetClient(c, new)
  BY DEF ClientExit
<1>2. /\ new.pc = "exit" /\ new.state = cl[c].state /\ new.dialed = cl[c].dialed
      /\ new.got = cl[c].got /\ new.out = out
  BY ClientFacts DEF Client
<1> HIDE DEF new
<1>3. /\ Turns(c, "exit", cl[c].state, cl[c].dialed, cl[c].got, out)
      /\ \A d \in Clients \ {c} : cl'[d] = cl[d]
  BY <1>1, <1>2, SetClientTurns
<1>4. s2c'[c] = <<>> /\ \A d \in Clients \ {c} : s2c'[d] = s2c[d]
  BY DEF ClientExit, TypeInv, TypeOK
<1>5. /\ c2s'[c] = c2s[c] \/ \E m \in LastWords : Says(c, m)
      /\ \A d \in Clients \ {c} : c2s'[d] = c2s[d]
  BY SendSays
<1>6. cl'[c].out = out
  BY <1>3 DEF Turns
<1> QED
  BY <1>3, <1>4, <1>5, <1>6 DEF ClientEffect, OthersSame, Quits

LEMMA ClientFailsQuits ==
    ASSUME TypeInv, NEW c \in Clients, ClientFails(c), cl[c].pc # "exit" PROVE ClientEffect(c)
  BY ExitQuits DEF ClientFails

LEMMA DialEffect ==
    ASSUME TypeInv, NEW c \in Clients,
           Connect(c) \/ WriteCookie(c) \/ DialStream(c) \/ WriteStreamCookie(c)
    PROVE  ClientEffect(c)
<1> USE ClientFacts
<1>0. \A pc : /\ At(c, pc).pc = pc /\ At(c, pc).state = cl[c].state
              /\ At(c, pc).dialed = cl[c].dialed /\ At(c, pc).got = cl[c].got
              /\ At(c, pc).out = cl[c].out
  BY DEF At, Client
<1>1. cl[c].pc # "exit"
  BY DEF Connect, WriteCookie, DialStream, WriteStreamCookie
<1>2. CASE ClientFails(c)
  BY <1>1, <1>2, ClientFailsQuits
<1>3. CASE ~ClientFails(c)
  <2>0. UNCHANGED <<srv, closed, s2c, c2s>>
    BY <1>3 DEF Connect, WriteCookie, DialStream, WriteStreamCookie
  <2>1. CASE Connect(c)
    <3>1. PICK m \in Modes : SetClient(c, [At(c, "dialed") EXCEPT !.mode = m])
      BY <1>3, <2>1 DEF Connect
    <3> DEFINE new == [At(c, "dialed") EXCEPT !.mode = m]
    <3>2. /\ new.pc = "dialed" /\ new.state = cl[c].state /\ new.dialed = cl[c].dialed
          /\ new.got = cl[c].got /\ new.out = cl[c].out
      BY DEF At, Client
    <3>3. SetClient(c, new)
      BY <3>1
    <3> HIDE DEF new
    <3>4. /\ Turns(c, "dialed", cl[c].state, cl[c].dialed, cl[c].got, cl[c].out)
          /\ \A d \in Clients \ {c} : cl'[d] = cl[d]
      BY <3>2, <3>3, SetClientTurns
    <3> QED
      BY <1>3, <2>0, <2>1, <3>4 DEF Connect, ClientEffect, OthersSame, Connects, Keeps
  <2>2. CASE WriteCookie(c)
    <3>1. SetClient(c, At(c, "select")) /\ cl[c].pc = "dialed" /\ UNCHANGED listenQ
      BY <1>3, <2>2 DEF WriteCookie
    <3>2. /\ Turns(c, "select", cl[c].state, cl[c].dialed, cl[c].got, cl[c].out)
          /\ \A d \in Clients \ {c} : cl'[d] = cl[d]
      BY <1>0, <3>1, SetClientTurns
    <3> QED
      BY <2>0, <3>1, <3>2 DEF ClientEffect, OthersSame, Works, Keeps
  <2>3. CASE DialStream(c)
    <3> DEFINE new == [At(c, "streamCookie") EXCEPT !.dialed = @ + 1]
    <3>1. /\ new.pc = "streamCookie" /\ new.state = cl[c].state
          /\ new.dialed = cl[c].dialed + 1 /\ new.got = cl[c].got /\ new.out = cl[c].out
      BY DEF At, Client
    <3>2. SetClient(c, new)
      BY <1>3, <2>3 DEF DialStream
    <3> HIDE DEF new
    <3>3. /\ Turns(c, "streamCookie", cl[c].state, cl[c].dialed + 1, cl[c].got, cl[c].out)
          /\ \A d \in Clients \ {c} : cl'[d] = cl[d]
      BY <3>1, <3>2, SetClientTurns
    <3> QED
      BY <1>3, <2>0, <2>3, <3>3 DEF DialStream, ClientEffect, OthersSame, Dials, Keeps
  <2>4. CASE WriteStreamCookie(c)
    <3> DEFINE pc == IF cl[c].dialed = NumStreams THEN "select" ELSE "streams"
    <3>1. SetClient(c, At(c, pc)) /\ cl[c].pc = "streamCookie" /\ UNCHANGED listenQ
      BY <1>3, <2>4 DEF WriteStreamCookie
    <3>2. pc \in {"select", "streams"}
      OBVIOUS
    <3> HIDE DEF pc
    <3>3. /\ Turns(c, pc, cl[c].state, cl[c].dialed, cl[c].got, cl[c].out)
          /\ \A d \in Clients \ {c} : cl'[d] = cl[d]
      BY <1>0, <3>1, SetClientTurns
    <3> QED
      BY <2>0, <3>1, <3>2, <3>3 DEF ClientEffect, OthersSame, Works, Keeps
  <2> QED
    BY <2>1, <2>2, <2>3, <2>4
<1> QED
  BY <1>2, <1>3

LEMMA MessageEffect ==
    ASSUME TypeInv, NEW c \in Clients,
           OnParamExchange(c) \/ OnCreateStreams(c) \/ OnStart(c) \/ OnExchangeResults(c)
    PROVE  ClientEffect(c)
<1> USE ClientFacts
<1>1. cl[c].pc = "select"
  BY DEF OnParamExchange, OnCreateStreams, OnStart, OnExchangeResults, Receives, ReadsCtrl
<1>2. CASE ClientFails(c)
  BY <1>1, <1>2, ClientFailsQuits
<1>3. CASE ~ClientFails(c)
  <2>0. UNCHANGED <<srv, closed, listenQ>>
    BY <1>3 DEF OnParamExchange, OnCreateStreams, OnStart, OnExchangeResults
  <2>1. CASE OnParamExchange(c)
    <3> DEFINE new == [cl[c] EXCEPT !.state = "PARAM_EXCHANGE"]
    <3>1. /\ new.pc = "select" /\ new.state = "PARAM_EXCHANGE" /\ new.dialed = cl[c].dialed
          /\ new.got = cl[c].got /\ new.out = cl[c].out
      BY <1>1 DEF Client
    <3>2. /\ SetClient(c, new) /\ Arrived(c, "PARAM_EXCHANGE") /\ Received(c)
          /\ Send(c, "PARAMS")
      BY <1>3, <2>1 DEF OnParamExchange, Receives
    <3> HIDE DEF new
    <3>3. /\ Turns(c, "select", "PARAM_EXCHANGE", cl[c].dialed, cl[c].got, cl[c].out)
          /\ \A d \in Clients \ {c} : cl'[d] = cl[d]
      BY <3>1, <3>2, SetClientTurns
    <3> QED
      BY <1>1, <2>0, <3>2, <3>3, ReceivedHears, SendSays DEF ClientEffect, OthersSame, Agrees
  <2>2. CASE OnCreateStreams(c)
    <3> DEFINE new == [At(c, "streams") EXCEPT !.state = "CREATE_STREAMS", !.dialed = 0]
    <3>1. /\ new.pc = "streams" /\ new.state = "CREATE_STREAMS" /\ new.dialed = 0
          /\ new.got = cl[c].got /\ new.out = cl[c].out
      BY DEF At, Client
    <3>2. /\ SetClient(c, new) /\ Arrived(c, "CREATE_STREAMS") /\ Received(c)
          /\ UNCHANGED c2s
      BY <2>2 DEF OnCreateStreams, Receives
    <3> HIDE DEF new
    <3>3. /\ Turns(c, "streams", "CREATE_STREAMS", 0, cl[c].got, cl[c].out)
          /\ \A d \in Clients \ {c} : cl'[d] = cl[d]
      BY <3>1, <3>2, SetClientTurns
    <3> QED
      BY <1>1, <2>0, <3>2, <3>3, ReceivedHears DEF ClientEffect, OthersSame, Creates
  <2>3. CASE OnStart(c)
    <3>1. PICK m \in {"TEST_START", "TEST_RUNNING"} :
            Arrived(c, m) /\ SetClient(c, [cl[c] EXCEPT !.state = m])
      BY <1>3, <2>3 DEF OnStart, Receives
    <3> DEFINE new == [cl[c] EXCEPT !.state = m]
    <3>2. /\ new.pc = "select" /\ new.state = m /\ new.dialed = cl[c].dialed
          /\ new.got = cl[c].got /\ new.out = cl[c].out
      BY <1>1 DEF Client
    <3>3. SetClient(c, new) /\ Received(c) /\ UNCHANGED c2s
      BY <1>3, <2>3, <3>1 DEF OnStart
    <3> HIDE DEF new
    <3>4. /\ Turns(c, "select", m, cl[c].dialed, cl[c].got, cl[c].out)
          /\ \A d \in Clients \ {c} : cl'[d] = cl[d]
      BY <3>2, <3>3, SetClientTurns
    <3> QED
      BY <1>1, <2>0, <3>1, <3>3, <3>4, ReceivedHears DEF ClientEffect, OthersSame, Runs
  <2>4. CASE OnExchangeResults(c)
    <3> DEFINE new == [At(c, "results") EXCEPT !.state = "EXCHANGE_RESULTS"]
    <3>1. /\ new.pc = "results" /\ new.state = "EXCHANGE_RESULTS" /\ new.dialed = cl[c].dialed
          /\ new.got = cl[c].got /\ new.out = cl[c].out
      BY DEF At, Client
    <3>2. /\ SetClient(c, new) /\ Arrived(c, "EXCHANGE_RESULTS") /\ Received(c)
          /\ Send(c, "RESULTS")
      BY <1>3, <2>4 DEF OnExchangeResults, Receives
    <3> HIDE DEF new
    <3>3. /\ Turns(c, "results", "EXCHANGE_RESULTS", cl[c].dialed, cl[c].got, cl[c].out)
          /\ \A d \in Clients \ {c} : cl'[d] = cl[d]
      BY <3>1, <3>2, SetClientTurns
    <3> QED
      BY <1>1, <2>0, <3>2, <3>3, ReceivedHears, SendSays
      DEF ClientEffect, OthersSame, SendsResults
  <2> QED
    BY <2>1, <2>2, <2>3, <2>4
<1> QED
  BY <1>2, <1>3

LEMMA GetResultsEffect ==
    ASSUME TypeInv, NEW c \in Clients, GetResults(c) PROVE ClientEffect(c)
<1> USE ClientFacts
<1>1. cl[c].pc = "results"
  BY DEF GetResults
<1>2. CASE ClientFails(c)
  BY <1>1, <1>2, ClientFailsQuits
<1>3. CASE ~ClientFails(c)
  <2>0. UNCHANGED <<srv, closed, listenQ, c2s>>
    BY <1>3 DEF GetResults
  <2>1. PICK g \in {"peer", "memory"} :
          /\ SetClient(c, [At(c, "select") EXCEPT !.got = g])
          /\ g = "peer" => Arrived(c, "RESULTS") /\ Received(c)
          /\ g = "memory" => ServerGone(Ctrl(c)) /\ s2c' = [s2c EXCEPT ![c] = <<>>]
    BY <1>3 DEF GetResults
  <2> DEFINE new == [At(c, "select") EXCEPT !.got = g]
  <2>2. /\ new.pc = "select" /\ new.state = cl[c].state /\ new.dialed = cl[c].dialed
        /\ new.got = g /\ new.out = cl[c].out
    BY DEF At, Client
  <2>3. SetClient(c, new)
    BY <2>1
  <2> HIDE DEF new
  <2>4. /\ Turns(c, "select", cl[c].state, cl[c].dialed, g, cl[c].out)
        /\ \A d \in Clients \ {c} : cl'[d] = cl[d]
    BY <2>2, <2>3, SetClientTurns
  <2>5. CASE g = "peer"
    BY <1>1, <2>0, <2>1, <2>4, <2>5, ReceivedHears DEF ClientEffect, OthersSame, GetsResults
  <2>6. CASE g = "memory"
    <3>1. s2c'[c] = <<>> /\ \A d \in Clients \ {c} : s2c'[d] = s2c[d]
      BY <2>1, <2>6 DEF TypeInv, TypeOK
    <3> QED
      BY <1>1, <2>0, <2>1, <2>4, <2>6, <3>1 DEF ClientEffect, OthersSame, GetsResults
  <2> QED
    BY <2>5, <2>6
<1> QED
  BY <1>2, <1>3

LEMMA PassEffect ==
    ASSUME TypeInv, NEW c \in Clients,
           StartPass(c) \/ MoveBlock(c) \/ ContinueTest(c) \/ SendTestEnd(c) \/ DrainAfterEnd(c)
    PROVE  ClientEffect(c)
<1> USE ClientFacts
<1>0. /\ At(c, "select").pc = "select" /\ At(c, "select").state = cl[c].state
      /\ At(c, "select").dialed = cl[c].dialed /\ At(c, "select").got = cl[c].got
      /\ At(c, "select").out = cl[c].out
  BY DEF At, Client
<1>1. cl[c].pc \in {"select", "io"}
  BY DEF StartPass, MoveBlock, ContinueTest, SendTestEnd, DrainAfterEnd
<1>2. CASE ClientFails(c)
  BY <1>1, <1>2, ClientFailsQuits
<1>3. CASE ~ClientFails(c)
  <2>0. UNCHANGED <<srv, closed, listenQ, s2c>>
    BY <1>3 DEF StartPass, MoveBlock, ContinueTest, SendTestEnd, DrainAfterEnd, net
  <2>1. CASE StartPass(c)
    <3>1. PICK k \in 0 .. Burst : SetClient(c, [At(c, "io") EXCEPT !.todo = k])
      BY <2>1 DEF StartPass
    <3> DEFINE new == [At(c, "io") EXCEPT !.todo = k]
    <3>2. /\ new.pc = "io" /\ new.state = cl[c].state /\ new.dialed = cl[c].dialed
          /\ new.got = cl[c].got /\ new.out = cl[c].out
      BY DEF At, Client
    <3>3. SetClient(c, new) /\ cl[c].state = "TEST_RUNNING" /\ UNCHANGED c2s
      BY <2>1, <3>1 DEF StartPass, Running, net
    <3> HIDE DEF new
    <3>4. /\ Turns(c, "io", cl[c].state, cl[c].dialed, cl[c].got, cl[c].out)
          /\ \A d \in Clients \ {c} : cl'[d] = cl[d]
      BY <3>2, <3>3, SetClientTurns
    <3> QED
      BY <1>1, <2>0, <3>3, <3>4 DEF ClientEffect, OthersSame, Works, Keeps
  <2>2. CASE MoveBlock(c)
    <3> DEFINE new == [cl[c] EXCEPT !.todo = @ - 1]
    <3>1. /\ new.pc = cl[c].pc /\ new.state = cl[c].state /\ new.dialed = cl[c].dialed
          /\ new.got = cl[c].got /\ new.out = cl[c].out
      BY DEF Client
    <3>2. SetClient(c, new) /\ cl[c].pc = "io" /\ UNCHANGED c2s
      BY <1>3, <2>2 DEF MoveBlock
    <3> HIDE DEF new
    <3>3. /\ Turns(c, "io", cl[c].state, cl[c].dialed, cl[c].got, cl[c].out)
          /\ \A d \in Clients \ {c} : cl'[d] = cl[d]
      BY <3>1, <3>2, SetClientTurns
    <3> QED
      BY <1>1, <2>0, <3>2, <3>3 DEF ClientEffect, OthersSame, Works, Keeps
  <2>3. CASE ContinueTest(c)
    <3>1. SetClient(c, At(c, "select")) /\ UNCHANGED c2s
      BY <2>3 DEF ContinueTest, net
    <3>2. /\ Turns(c, "select", cl[c].state, cl[c].dialed, cl[c].got, cl[c].out)
          /\ \A d \in Clients \ {c} : cl'[d] = cl[d]
      BY <1>0, <3>1, SetClientTurns
    <3> QED
      BY <1>1, <2>0, <3>1, <3>2 DEF ClientEffect, OthersSame, Works, Keeps
  <2>4. CASE SendTestEnd(c)
    <3> DEFINE new == [At(c, "select") EXCEPT !.state = "TEST_END"]
    <3>1. /\ new.pc = "select" /\ new.state = "TEST_END" /\ new.dialed = cl[c].dialed
          /\ new.got = cl[c].got /\ new.out = cl[c].out
      BY DEF At, Client
    <3>2. SetClient(c, new) /\ cl[c].pc = "io" /\ Send(c, "TEST_END")
      BY <1>3, <2>4 DEF SendTestEnd
    <3> HIDE DEF new
    <3>3. /\ Turns(c, "select", "TEST_END", cl[c].dialed, cl[c].got, cl[c].out)
          /\ \A d \in Clients \ {c} : cl'[d] = cl[d]
      BY <3>1, <3>2, SetClientTurns
    <3> QED
      BY <2>0, <3>2, <3>3, SendSays DEF ClientEffect, OthersSame, Finishes
  <2>5. CASE DrainAfterEnd(c)
    <3>1. UNCHANGED <<cl, c2s>> /\ cl[c].pc = "select"
      BY <1>3, <2>5 DEF DrainAfterEnd
    <3>2. Turns(c, "select", cl[c].state, cl[c].dialed, cl[c].got, cl[c].out)
      BY <3>1 DEF Turns
    <3> QED
      BY <2>0, <3>1, <3>2 DEF ClientEffect, OthersSame, Works, Keeps
  <2> QED
    BY <2>1, <2>2, <2>3, <2>4, <2>5
<1> QED
  BY <1>2, <1>3

LEMMA ClientCases ==
    ASSUME TypeInv, NEW c \in Clients,
           Connect(c) \/ ClientStep(c) \/ ClientSigend(c) \/ ClientKilled(c)
    PROVE  ClientEffect(c)
<1>1. CASE Connect(c) \/ WriteCookie(c) \/ DialStream(c) \/ WriteStreamCookie(c)
  BY <1>1, DialEffect
<1>2. CASE OnParamExchange(c) \/ OnCreateStreams(c) \/ OnStart(c) \/ OnExchangeResults(c)
  BY <1>2, MessageEffect
<1>3. CASE GetResults(c)
  BY <1>3, GetResultsEffect
<1>4. CASE StartPass(c) \/ MoveBlock(c) \/ ContinueTest(c) \/ SendTestEnd(c) \/ DrainAfterEnd(c)
  BY <1>4, PassEffect
<1>5. CASE OnDisplayResults(c)
  BY <1>5, ExitQuits, ClientFailsQuits DEF OnDisplayResults, Receives, ReadsCtrl, LastWords
<1>6. CASE OnRefusal(c)
  BY <1>6, ExitQuits DEF OnRefusal, Receives, ReadsCtrl
<1>7. CASE OnCtrlClosed(c)
  BY <1>7, ClientFailsQuits DEF OnCtrlClosed, ReadsCtrl
<1>8. CASE ClientSigend(c) \/ ClientKilled(c)
  BY <1>8, ExitQuits DEF ClientSigend, ClientKilled, LastWords
<1> QED
  BY <1>1, <1>2, <1>3, <1>4, <1>5, <1>6, <1>7, <1>8 DEF ClientStep, ReadMessage

-----------------------------------------------------------------------------
(* Facts about the counts. *)

LEMMA CountTypes ==
    ASSUME NEW c \in Clients
    PROVE  /\ Sent \in Nat /\ Sent <= 7 /\ Read(c) \in Nat /\ Read(c) <= 3
           /\ Heard(c) \in Nat /\ Heard(c) <= 6 /\ Said(c) \in Nat /\ Said(c) <= 3
<1>1. Sent \in Nat /\ Sent <= 7
  BY DEF Sent
<1>2. Read(c) \in Nat /\ Read(c) <= 3
  BY DEF Read
<1>3. Heard(c) \in Nat /\ Heard(c) <= 6
  BY DEF Heard
<1>4. Said(c) \in Nat /\ Said(c) <= 3
  BY DEF Said
<1> QED
  BY <1>1, <1>2, <1>3, <1>4

LEMMA DownRanks ==
    /\ DownRank["PARAM_EXCHANGE"] = 1 /\ DownRank["CREATE_STREAMS"] = 2
    /\ DownRank["TEST_START"] = 3 /\ DownRank["TEST_RUNNING"] = 4
    /\ DownRank["EXCHANGE_RESULTS"] = 5 /\ DownRank["RESULTS"] = 6
    /\ DownRank["DISPLAY_RESULTS"] = 7
    /\ Farewells \subseteq ToClient /\ \A m \in Farewells : DownRank[m] = 0
  BY DEF DownRank, ToClient, Farewells

LEMMA UpRanks ==
    /\ UpRank["PARAMS"] = 1 /\ UpRank["TEST_END"] = 2 /\ UpRank["RESULTS"] = 3
    /\ LastWords \subseteq ToServer /\ \A m \in LastWords : UpRank[m] = 0
  BY DEF UpRank, ToServer, LastWords

LEMMA ChannelTypes ==
    ASSUME ProtocolInv, NEW c \in Clients
    PROVE  /\ s2c[c] \in Seq(ToClient) /\ Len(s2c[c]) \in Nat
           /\ c2s[c] \in Seq(ToServer) /\ Len(c2s[c]) \in Nat
           /\ cl[c] \in Client /\ srv \in Server /\ ClientInv(c)
  BY DEF ProtocolInv, TypeInv, TypeOK

\* The control connection of the test is open.
LEMMA ServedOpen ==
    ASSUME ProtocolInv, NEW c \in Clients, srv.ctrl = Ctrl(c)
    PROVE  /\ ~ServerGone(Ctrl(c)) /\ srv.ctrl # None
           /\ srv.pc # "exit" /\ srv.pc # "listen" /\ srv.state # "RESET"
<1>1. srv.ctrl # None
  BY ConnFacts, NoneNotConn
<1>2. <<srv.pc, srv.state>> \in Stages
  BY <1>1 DEF ProtocolInv, StageInv
<1>3. srv.pc # "exit" /\ srv.pc # "listen" /\ srv.state # "RESET"
  BY <1>2 DEF Stages
<1>4. Ctrl(c) \notin closed
  BY DEF ProtocolInv, ClientInv, Place
<1> QED
  BY <1>1, <1>3, <1>4 DEF ServerGone

\* A message that is not a farewell is the next one of the test.
LEMMA NextHeard ==
    ASSUME ProtocolInv, NEW c \in Clients, NEW m \in ToClient, Arrived(c, m), m \notin Farewells
    PROVE  DownRank[m] = Heard(c) + 1
<1> DEFINE E == IF ServerGone(Ctrl(c)) THEN Farewells ELSE {}
<1>1. Ordered(s2c[c], Heard(c), 7, DownRank, E) /\ s2c[c] # <<>> /\ m = Head(s2c[c])
  BY DEF ProtocolInv, ClientInv, Down, Arrived
<1>2. E \subseteq Farewells
  OBVIOUS
<1> HIDE DEF E
<1> QED
  BY <1>1, <1>2, ChannelTypes, CountTypes, OrderedHead

\* A message from the client of the test that is not its last is the next one.
LEMMA NextRead ==
    ASSUME ProtocolInv, NEW c \in Clients, srv.ctrl = Ctrl(c), c2s[c] # <<>>,
           Head(c2s[c]) \notin LastWords
    PROVE  UpRank[Head(c2s[c])] = Read(c) + 1 /\ Read(c) + 1 <= Said(c)
<1> DEFINE E == IF cl[c].pc = "exit" THEN LastWords ELSE {}
<1>1. Ordered(c2s[c], Read(c), Said(c), UpRank, E)
  BY ServedOpen DEF ProtocolInv, ClientInv, Up
<1>2. E \subseteq LastWords
  OBVIOUS
<1> HIDE DEF E
<1> QED
  BY <1>1, <1>2, ChannelTypes, CountTypes, OrderedHead

\* TEST_END is read while the test runs, although the server does not check.
LEMMA TestEndInTime ==
    ASSUME ProtocolInv, NEW c \in Clients, srv.ctrl = Ctrl(c), c2s[c] # <<>>,
           Head(c2s[c]) = "TEST_END"
    PROVE  srv.state = "TEST_RUNNING"
<1>1. Read(c) + 1 = 2 /\ 2 <= Said(c)
  BY NextRead, UpRanks, CountTypes DEF LastWords
<1>2. Read(c) = 1
  BY <1>1, CountTypes
<1>3. srv.state \in {"CREATE_STREAMS", "TEST_RUNNING"}
  BY <1>2 DEF Read
<1>4. cl[c].state \in {"TEST_END", "EXCHANGE_RESULTS"}
  BY <1>1 DEF Said
<1>5. Heard(c) >= 4
  BY <1>4 DEF Heard
<1>6. Heard(c) <= Sent
  BY DEF ProtocolInv, ClientInv, Down
<1>7. Sent >= 4
  BY <1>5, <1>6, CountTypes
<1> QED
  BY <1>3, <1>7 DEF Sent

\* A client that runs its test, and that the server has not dropped, has heard
\* everything, and the server runs the test too.
LEMMA RunsTogether ==
    ASSUME ProtocolInv, NEW c \in Clients, cl[c].pc # "exit", cl[c].state = "TEST_RUNNING",
           ~ServerGone(Ctrl(c))
    PROVE  srv.ctrl = Ctrl(c) /\ srv.state = "TEST_RUNNING" /\ s2c[c] = <<>>
<1>1. srv.ctrl = Ctrl(c)
  BY DEF ProtocolInv, ServedOrDropped, Addressed
<1>2. Read(c) + Len(c2s[c]) = Said(c) /\ Said(c) = 1
  BY DEF ProtocolInv, ClientInv, Up, Said
<1>3. Heard(c) + Len(s2c[c]) = Sent /\ Heard(c) = 4
  BY <1>1 DEF ProtocolInv, ClientInv, Down, Heard
<1>4. Read(c) <= 1 /\ Sent >= 4 /\ Len(s2c[c]) = Sent - 4
  BY <1>2, <1>3, CountTypes, ChannelTypes
<1>5. srv.state = "TEST_RUNNING" /\ Sent = 4
  BY <1>1, <1>4 DEF Read, Sent
<1> QED
  BY <1>1, <1>4, <1>5, ChannelTypes

-----------------------------------------------------------------------------
(* The stages of a test. *)

LEMMA JoinedStreams ==
    ASSUME NEW S, IsFiniteSet(S), NEW x
    PROVE  /\ IsFiniteSet(S \cup {x})
           /\ Cardinality(S) \in Nat
           /\ x \notin S => Cardinality(S \cup {x}) = Cardinality(S) + 1
           /\ x \in S => Cardinality(S \cup {x}) = Cardinality(S)
<1>1. Cardinality(S) \in Nat
  BY FS_CardinalityType
<1>2. /\ IsFiniteSet(S \cup {x})
      /\ Cardinality(S \cup {x}) = Cardinality(S)
         \/ Cardinality(S \cup {x}) = Cardinality(S) + 1
      /\ x \notin S => Cardinality(S \cup {x}) = Cardinality(S) + 1
  BY FS_AddElement
<1>3. x \in S => S \cup {x} = S
  OBVIOUS
<1> QED
  BY <1>1, <1>2, <1>3

LEMMA StageServer ==
    ASSUME ProtocolInv, ServerEffect PROVE StageInv'
<1> USE DEF ProtocolInv, Becomes
<1>0. StageInv /\ srv \in Server /\ UNCHANGED cl
  BY DEF TypeInv, TypeOK, ServerEffect
<1>1. CASE Opens
  <2>1. srv.ctrl = None /\ srv.streams = {}
    BY <1>0, <1>1 DEF Opens, StageInv, Stages
  <2> QED
    BY <1>0, <1>1, <2>1 DEF Opens, StageInv
<1>2. CASE Admits
  <2>1. Head(listenQ) \in Conns /\ Head(listenQ) # None
    BY <1>2, QueueTail, NoneNotConn DEF Admits, NextInQueue, TypeInv, TypeOK
  <2>2. srv.state = "IPERF_START" /\ srv.streams = {}
    BY <1>0, <1>2 DEF Admits, StageInv
  <2>3. StreamsSoFar' /\ <<srv'.pc, srv'.state>> \in Stages
    BY <1>2, <2>2, FS_EmptySet DEF Admits, StreamsSoFar, Stages
  <2> QED
    BY <1>0, <1>2, <2>1, <2>2, <2>3 DEF Admits, StageInv
<1>3. CASE Looks
  <2>1. Head(listenQ) \in Conns /\ Head(listenQ) # None
    BY <1>3, QueueTail, NoneNotConn DEF Looks, NextInQueue, TypeInv, TypeOK
  <2>2. <<srv'.pc, srv'.state>> \in Stages
    BY <1>0, <1>3 DEF Looks, StageInv, Stages
  <2>3. StreamsSoFar'
    BY <1>0, <1>3 DEF Looks, StageInv, StreamsSoFar
  <2> QED
    BY <1>0, <1>3, <2>1, <2>2, <2>3 DEF Looks, StageInv, PeerGone
<1>4. CASE Refuses
  <2>0. srv.ctrl # None
    BY <1>4 DEF Refuses, TypeInv, Blocked
  <2>1. <<srv'.pc, srv'.state>> \in Stages
    BY <1>0, <1>4, <2>0 DEF Refuses, StageInv, Stages
  <2>2. StreamsSoFar'
    BY <1>0, <1>4, <2>0 DEF Refuses, StageInv, StreamsSoFar
  <2> QED
    BY <1>0, <1>4, <2>0, <2>1, <2>2 DEF Refuses, StageInv, PeerGone
<1>5. CASE Greets
  <2>0. srv.ctrl # None /\ srv.pend = None
    BY <1>0, <1>5 DEF Greets, TypeInv, Blocked, StageInv
  <2>1. srv.state = "IPERF_START"
    BY <1>0, <1>5, <2>0 DEF Greets, StageInv, Stages
  <2>2. <<srv'.pc, srv'.state>> \in Stages /\ StreamsSoFar'
    BY <1>0, <1>5, <2>0, <2>1 DEF Greets, StageInv, StreamsSoFar, Stages
  <2> QED
    BY <1>0, <1>5, <2>0, <2>2 DEF Greets, StageInv
<1>6. CASE AsksStreams
  <2>0. srv.ctrl # None /\ srv.pend = None
    BY <1>0, <1>6 DEF AsksStreams, TypeInv, Blocked, StageInv
  <2>1. srv.state = "PARAM_EXCHANGE" /\ srv.streams = {}
    BY <1>0, <1>6, <2>0 DEF AsksStreams, StageInv, Stages, StreamsSoFar
  <2>2. Cardinality({}) < NumStreams /\ IsFiniteSet({})
    BY FS_EmptySet, Numbers
  <2>3. <<srv'.pc, srv'.state>> \in Stages /\ StreamsSoFar'
    BY <1>6, <2>1, <2>2 DEF AsksStreams, StreamsSoFar, Stages
  <2> QED
    BY <1>0, <1>6, <2>0, <2>3 DEF AsksStreams, StageInv
<1>7. CASE Joins \/ Starts
  <2>0. srv.ctrl # None /\ srv.pc = "stream"
    BY <1>7 DEF Joins, Starts, TypeInv, Blocked
  <2>1. srv.state = "CREATE_STREAMS" /\ IsFiniteSet(srv.streams)
    BY <1>0, <2>0 DEF StageInv, Stages, StreamsSoFar
  <2>2. IsFiniteSet(srv.streams \cup {srv.pend})
    BY <2>1, JoinedStreams
  <2>3. <<srv'.pc, srv'.state>> \in Stages /\ StreamsSoFar'
    BY <1>7, <2>1, <2>2 DEF Joins, Starts, StreamsSoFar, Stages
  <2> QED
    BY <1>0, <1>7, <2>0, <2>1, <2>3 DEF Joins, Starts, StageInv
<1>8. CASE Transfers
  <2>0. srv.ctrl # None /\ srv.pend = None
    BY <1>0, <1>8 DEF Transfers, TypeInv, Blocked, StageInv
  <2>1. srv.state = "TEST_RUNNING"
    BY <1>0, <1>8, <2>0 DEF Transfers, StageInv, Stages
  <2>2. <<srv'.pc, srv'.state>> \in Stages /\ StreamsSoFar'
    BY <1>0, <1>8, <2>0, <2>1 DEF Transfers, StageInv, StreamsSoFar, Stages
  <2> QED
    BY <1>0, <1>8, <2>0, <2>1, <2>2 DEF Transfers, StageInv
<1>9. CASE Collects
  <2>0. srv.ctrl # None /\ srv.pend = None
    BY <1>0, <1>9 DEF Collects, TypeInv, Blocked, StageInv
  <2>1. srv.state = "TEST_RUNNING"
    BY <1>9, TestEndInTime DEF Collects
  <2>2. <<srv'.pc, srv'.state>> \in Stages /\ StreamsSoFar'
    BY <1>0, <1>9, <2>0, <2>1 DEF Collects, StageInv, StreamsSoFar, Stages
  <2> QED
    BY <1>0, <1>9, <2>0, <2>1, <2>2 DEF Collects, StageInv
<1>10. CASE Reports
  <2>0. srv.ctrl # None /\ srv.pend = None
    BY <1>0, <1>10 DEF Reports, TypeInv, Blocked, StageInv
  <2>1. srv.state = "EXCHANGE_RESULTS"
    BY <1>0, <1>10, <2>0 DEF Reports, StageInv, Stages
  <2>2. <<srv'.pc, srv'.state>> \in Stages /\ StreamsSoFar'
    BY <1>0, <1>10, <2>0, <2>1 DEF Reports, StageInv, StreamsSoFar, Stages
  <2>3. srv'.ctrl = srv.ctrl /\ (srv'.got = "peer" \/ cl'[srv.ctrl[1]].pc = "exit")
    BY <1>0, <1>10 DEF Reports, PeerGone
  <2> QED
    BY <1>0, <1>10, <2>0, <2>2, <2>3 DEF Reports, StageInv, PeerGone
<1>11. CASE Drops
  BY <1>11 DEF Drops, StageInv
<1> QED
  BY <1>1, <1>2, <1>3, <1>4, <1>5, <1>6, <1>7, <1>8, <1>9, <1>10, <1>11 DEF ServerEffect

LEMMA StageClient ==
    ASSUME ProtocolInv, NEW c \in Clients, ClientEffect(c) PROVE StageInv'
<1>1. StageInv /\ UNCHANGED srv /\ \A d \in Clients \ {c} : cl'[d] = cl[d]
  BY DEF ProtocolInv, ClientEffect, OthersSame
<1>2. cl[c].pc # "exit"
  BY DEF ClientEffect, Quits, Connects, Dials, Works, Agrees, Creates, Runs, Finishes,
         SendsResults, GetsResults
<1>3. srv.ctrl # None => srv.ctrl[1] \in Clients
  BY ConnFacts DEF ProtocolInv, TypeInv, TypeOK, Server
<1>4. StreamsSoFar' = StreamsSoFar
  BY <1>1 DEF StreamsSoFar
<1> QED
  BY <1>1, <1>2, <1>3, <1>4 DEF StageInv, PeerGone

-----------------------------------------------------------------------------
(* Where a control connection is. *)

LEMMA PlaceServer ==
    ASSUME ProtocolInv, ServerEffect, NEW c \in Clients PROVE Place(c)'
<1> DEFINE k == Ctrl(c)
<1>0. /\ Place(c) /\ UNCHANGED cl /\ k \in Conns /\ k # None /\ listenQ \in Seq(Conns)
      /\ StageInv
  BY ConnFacts, NoneNotConn DEF ProtocolInv, ClientInv, TypeInv, TypeOK, ServerEffect
<1>1. Once(<<>>, k) /\ InQueue(<<>>) = {}
  BY DEF Once, InQueue
<1>2. ASSUME NextInQueue
      PROVE  /\ InQueue(listenQ) = {Head(listenQ)} \cup InQueue(listenQ')
             /\ Once(listenQ', k) /\ (Head(listenQ) = k => k \notin InQueue(listenQ'))
  BY <1>0, <1>2, QueueTail, OnceTail DEF NextInQueue, Place
<1> HIDE DEF k
<1> USE DEF Becomes, Place, SameQueue, MayRelisten, k
<1>3. CASE Opens
  BY <1>0, <1>3 DEF Opens
<1>4. CASE Admits
  BY <1>0, <1>2, <1>4 DEF Admits, NextInQueue, StageInv
<1>5. CASE Looks
  BY <1>0, <1>2, <1>5 DEF Looks, NextInQueue, StageInv
<1>6. CASE Refuses
  BY <1>0, <1>6 DEF Refuses
<1>7. CASE Greets
  BY <1>0, <1>7 DEF Greets
<1>8. CASE AsksStreams
  BY <1>0, <1>1, <1>8 DEF AsksStreams
<1>9. CASE Joins
  BY <1>0, <1>9 DEF Joins
<1>10. CASE Starts
  BY <1>0, <1>1, <1>10 DEF Starts
<1>11. CASE Transfers
  BY <1>0, <1>11 DEF Transfers
<1>12. CASE Collects
  BY <1>0, <1>12 DEF Collects
<1>13. CASE Reports
  BY <1>0, <1>13 DEF Reports
<1>14. CASE Drops
  BY <1>0, <1>1, <1>14 DEF Drops
<1> QED
  BY <1>3, <1>4, <1>5, <1>6, <1>7, <1>8, <1>9, <1>10, <1>11, <1>12, <1>13, <1>14
  DEF ServerEffect

\* What a client's step does to the queue, and to the clients that launch.
LEMMA ClientQueue ==
    ASSUME ProtocolInv, NEW c \in Clients, ClientEffect(c)
    PROVE  /\ UNCHANGED <<srv, closed>> /\ cl[c].pc # "exit" /\ cl'[c].pc # "init"
           /\ \/ listenQ' = listenQ
              \/ listenQ' = Append(listenQ, Ctrl(c)) /\ cl[c].pc = "init"
              \/ listenQ' = Append(listenQ, <<c, cl[c].dialed + 1>>) /\ cl[c].pc = "streams"
  BY DEF ClientEffect, OthersSame, Turns, Quits, Connects, Dials, Works, Agrees, Creates,
         Runs, Finishes, SendsResults, GetsResults

LEMMA PlaceClient ==
    ASSUME ProtocolInv, NEW c \in Clients, ClientEffect(c), NEW d \in Clients PROVE Place(d)'
<1>0. /\ Place(d) /\ listenQ \in Seq(Conns) /\ Ctrl(c) \in Conns
      /\ cl[c].pc = "streams" => <<c, cl[c].dialed + 1>> \in Conns /\ cl[c].dialed + 1 # 0
  <2>1. cl[c].pc = "streams" => cl[c].dialed \in Nat /\ cl[c].dialed < NumStreams
    BY ClientFacts, Numbers DEF ProtocolInv, Client
  <2>2. cl[c].pc = "streams" => cl[c].dialed + 1 \in 0 .. NumStreams /\ cl[c].dialed + 1 # 0
    BY <2>1, Numbers
  <2> QED
    BY <2>2, ConnFacts DEF ProtocolInv, ClientInv, TypeInv, TypeOK, Conns
<1>1. d # c => cl'[d] = cl[d]
  BY DEF ClientEffect, OthersSame
<1>2. UNCHANGED <<srv, closed>> /\ cl'[c].pc # "init"
  BY ClientQueue
<1>3. CASE listenQ' = listenQ
  BY <1>0, <1>1, <1>2, <1>3 DEF Place
<1>4. CASE listenQ' = Append(listenQ, Ctrl(c)) /\ cl[c].pc = "init"
  <2>1. InQueue(listenQ') = InQueue(listenQ) \cup {Ctrl(c)}
    BY <1>0, <1>4, QueueAppend
  <2>2. Ctrl(c) = Ctrl(d) <=> c = d
    BY DEF Ctrl
  <2>3. Once(listenQ', Ctrl(d))
    BY <1>0, <1>4, <2>2, OnceAppend DEF Place
  <2> QED
    BY <1>0, <1>1, <1>2, <1>4, <2>1, <2>2, <2>3 DEF Place
<1>5. CASE listenQ' = Append(listenQ, <<c, cl[c].dialed + 1>>) /\ cl[c].pc = "streams"
  <2> DEFINE x == <<c, cl[c].dialed + 1>>
  <2>0. x \in Conns
    BY <1>0, <1>5
  <2>1. InQueue(listenQ') = InQueue(listenQ) \cup {x}
    BY <1>0, <1>5, <2>0, QueueAppend
  <2>2. Ctrl(d) # x
    BY <1>0, <1>5 DEF Ctrl
  <2> HIDE DEF x
  <2>3. Once(listenQ', Ctrl(d))
    BY <1>0, <1>5, <2>0, <2>2, OnceAppend DEF Place, x
  <2> QED
    BY <1>0, <1>1, <1>2, <2>1, <2>2, <2>3 DEF Place
<1> QED
  BY <1>3, <1>4, <1>5, ClientQueue

-----------------------------------------------------------------------------
(* The streams of a live client. *)

\* Only a test that is over leaves a connection it served open.
LEMMA ServerKeeps ==
    ASSUME ProtocolInv, ServerEffect, NEW conn \in Conns, conn \in closed \/ Served(conn)
    PROVE  \/ conn \in closed' \/ Served(conn)' \/ srv'.pc = "exit"
           \/ srv'.ctrl = None /\ srv'.pc = "listen"
<1>0. listenQ \in Seq(Conns) /\ conn # None /\ StageInv
  BY NoneNotConn DEF ProtocolInv, TypeInv, TypeOK
<1>1. NextInQueue => InQueue(listenQ) = {Head(listenQ)} \cup InQueue(listenQ')
  BY <1>0, QueueTail DEF NextInQueue
<1> USE DEF Becomes, Served, SameQueue, MayRelisten
<1>2. CASE Opens \/ Admits \/ Looks
  BY <1>0, <1>1, <1>2 DEF Opens, Admits, Looks, NextInQueue, StageInv
<1>3. CASE Refuses
  BY <1>3 DEF Refuses
<1>4. CASE Greets \/ AsksStreams
  BY <1>4 DEF Greets, AsksStreams
<1>5. CASE Joins \/ Starts
  BY <1>5 DEF Joins, Starts
<1>6. CASE Transfers \/ Collects \/ Reports
  BY <1>6 DEF Transfers, Collects, Reports
<1>7. CASE Drops
  BY <1>7 DEF Drops
<1> QED
  BY <1>2, <1>3, <1>4, <1>5, <1>6, <1>7 DEF ServerEffect

\* Once dropped, always dropped.
LEMMA ServerStaysGone ==
    ASSUME ProtocolInv, ServerEffect, NEW conn, ServerGone(conn), srv.pc # "exit"
    PROVE  ServerGone(conn)'
<1>1. closed \subseteq closed'
  BY DEF ServerEffect, Opens, Admits, Looks, Refuses, Greets, AsksStreams, Joins, Starts,
         Transfers, Collects, Reports, Drops, SameQueue, MayRelisten, NextInQueue
<1> QED
  BY <1>1 DEF ServerGone

LEMMA KeptServer ==
    ASSUME ProtocolInv, ServerEffect, srv.pc # "exit", NEW c \in Clients PROVE Kept(c)'
<1> SUFFICES ASSUME cl'[c].pc # "exit", ~ServerGone(Ctrl(c))', NEW i \in 1 .. cl'[c].dialed
             PROVE  <<c, i>> \in closed' \/ Served(<<c, i>>)'
  BY DEF Kept
<1>1. UNCHANGED cl /\ ~ServerGone(Ctrl(c))
  BY ServerStaysGone DEF ServerEffect
<1>2. cl[c].dialed \in 0 .. NumStreams
  BY ClientFacts DEF ProtocolInv, Client
<1>3. <<c, i>> \in Conns
  BY <1>1, <1>2, Numbers DEF Conns
<1>4. <<c, i>> \in closed \/ Served(<<c, i>>)
  BY <1>1 DEF ProtocolInv, ClientInv, Kept
<1>5. cl[c].state # "START"
  BY <1>1 DEF ProtocolInv, ClientInv, Course
<1>6. srv.ctrl = Ctrl(c)
  BY <1>1, <1>5 DEF ProtocolInv, ServedOrDropped, Addressed
<1>7. srv'.pc # "exit"
  BY DEF ServerGone
<1>8. ~(srv'.ctrl = None /\ srv'.pc = "listen")
  <2>1. CASE Drops
    BY <1>6, <1>7, <2>1, ServedOpen DEF Drops, ServerGone
  <2>2. CASE ~Drops
    BY <1>6, <2>2, ServedOpen DEF ServerEffect, Opens, Admits, Looks, Refuses, Greets,
       AsksStreams, Joins, Starts, Transfers, Collects, Reports, Becomes
  <2> QED
    BY <2>1, <2>2
<1> QED
  BY <1>3, <1>4, <1>7, <1>8, ServerKeeps

LEMMA KeptClient ==
    ASSUME ProtocolInv, NEW c \in Clients, ClientEffect(c), NEW d \in Clients PROVE Kept(d)'
<1>0. /\ UNCHANGED <<srv, closed>> /\ cl[c].pc # "exit" /\ Kept(d)
      /\ d # c => cl'[d] = cl[d]
  BY ClientQueue DEF ProtocolInv, ClientInv, ClientEffect, OthersSame
<1>1. listenQ \in Seq(Conns) /\ Ctrl(c) \in Conns
  BY ConnFacts DEF ProtocolInv, TypeInv, TypeOK
<1>2. cl[c].pc = "streams" => <<c, cl[c].dialed + 1>> \in Conns
  <2>1. cl[c].pc = "streams" => cl[c].dialed \in Nat /\ cl[c].dialed < NumStreams
    BY ClientFacts, Numbers DEF ProtocolInv, Client
  <2>2. cl[c].pc = "streams" => cl[c].dialed + 1 \in 0 .. NumStreams
    BY <2>1, Numbers
  <2> QED
    BY <2>2 DEF Conns
<1>3. InQueue(listenQ) \subseteq InQueue(listenQ')
  BY <1>1, <1>2, ClientQueue, QueueAppend
<1>4. \A conn : conn \in closed \/ Served(conn) => conn \in closed' \/ Served(conn)'
  BY <1>0, <1>3 DEF Served
<1>5. CASE d # c
  BY <1>0, <1>4, <1>5 DEF Kept, ServerGone
<1>6. CASE d = c /\ ~Dials(c)
  <2>1. cl'[c].dialed = cl[c].dialed \/ cl'[c].dialed = 0
    BY <1>6 DEF ClientEffect, Turns, Quits, Connects, Works, Agrees, Creates, Runs,
                Finishes, SendsResults, GetsResults
  <2> QED
    BY <1>0, <1>4, <1>6, <2>1 DEF Kept, ServerGone
<1>7. CASE d = c /\ Dials(c)
  <2>1. /\ cl[c].pc = "streams" /\ cl'[c].dialed = cl[c].dialed + 1
        /\ listenQ' = Append(listenQ, <<c, cl[c].dialed + 1>>)
    BY <1>7 DEF Dials, Turns
  <2>2. <<c, cl[c].dialed + 1>> \in InQueue(listenQ')
    BY <1>1, <1>2, <2>1, QueueAppend
  <2>3. cl[c].dialed \in Nat
    BY ClientFacts, Numbers DEF ProtocolInv, Client
  <2>4. \A i \in 1 .. cl[c].dialed + 1 : i = cl[c].dialed + 1 \/ i \in 1 .. cl[c].dialed
    BY <2>3
  <2>5. ASSUME cl'[c].pc # "exit", ~ServerGone(Ctrl(c))', NEW i \in 1 .. cl'[c].dialed
        PROVE  <<c, i>> \in closed' \/ Served(<<c, i>>)'
    <3>1. CASE i = cl[c].dialed + 1
      BY <2>2, <3>1 DEF Served
    <3>2. CASE i \in 1 .. cl[c].dialed
      BY <1>0, <1>4, <1>7, <2>5, <3>2 DEF Kept, ServerGone
    <3> QED
      BY <2>1, <2>4, <3>1, <3>2
  <2> QED
    BY <1>7, <2>5 DEF Kept
<1> QED
  BY <1>5, <1>6, <1>7

-----------------------------------------------------------------------------
(* What a client hears. *)

LEMMA RefusedTail ==
    ASSUME NEW T, NEW q \in Seq(T), q # <<>>, NEW b, NEW b2, RefusedFirst(q, b)
    PROVE  RefusedFirst(Tail(q), b2)
<1> SUFFICES ASSUME NEW i \in 1 .. Len(Tail(q)), Tail(q)[i] = "ACCESS_DENIED" PROVE FALSE
  BY DEF RefusedFirst
<1>1. i + 1 \in 1 .. Len(q) /\ Tail(q)[i] = q[i + 1] /\ i + 1 # 1
  OBVIOUS
<1> QED
  BY <1>1 DEF RefusedFirst

LEMMA RefusedAppend ==
    ASSUME NEW T, NEW q \in Seq(T), NEW m \in T, NEW b, RefusedFirst(q, b),
           m # "ACCESS_DENIED" \/ (q = <<>> /\ b)
    PROVE  RefusedFirst(Append(q, m), b)
<1> SUFFICES ASSUME NEW i \in 1 .. Len(Append(q, m)), Append(q, m)[i] = "ACCESS_DENIED"
             PROVE  i = 1 /\ b
  BY DEF RefusedFirst
<1>1. /\ Len(Append(q, m)) = Len(q) + 1 /\ Len(q) \in Nat
      /\ Append(q, m)[Len(q) + 1] = m
      /\ \A j \in 1 .. Len(q) : Append(q, m)[j] = q[j]
  OBVIOUS
<1>2. CASE i \in 1 .. Len(q)
  BY <1>1, <1>2 DEF RefusedFirst
<1>3. CASE i = Len(q) + 1
  <2>1. m = "ACCESS_DENIED" /\ q = <<>> /\ b
    BY <1>1, <1>3
  <2>2. Len(q) = 0
    BY <2>1
  <2> QED
    BY <1>3, <2>1, <2>2
<1> QED
  BY <1>1, <1>2, <1>3

LEMMA ConcatOneTwo ==
    ASSUME NEW T, NEW q \in Seq(T), NEW a \in T, NEW b \in T
    PROVE  q \o <<a>> = Append(q, a) /\ q \o <<a, b>> = Append(Append(q, a), b)
<1>1. q \o <<a>> = Append(q, a)
  OBVIOUS
<1>2. q \o <<a, b>> = Append(Append(q, a), b)
  OBVIOUS
<1> QED
  BY <1>1, <1>2

\* The next message of the test goes to the end of the queue.
LEMMA AnswerOne ==
    ASSUME NEW q \in Seq(ToClient), NEW p \in Nat, NEW m \in ToClient, NEW b,
           Ordered(q, p, 7, DownRank, {}), RefusedFirst(q, b), m \notin Farewells,
           DownRank[m] = p + Len(q) + 1, p + Len(q) + 1 <= 7
    PROVE  LET s == q \o <<m>> IN
           /\ s \in Seq(ToClient) /\ Len(s) = Len(q) + 1
           /\ Ordered(s, p, 7, DownRank, {}) /\ RefusedFirst(s, b)
<1>1. q \o <<m>> = Append(q, m)
  BY ConcatOneTwo
<1>2. Ordered(Append(q, m), p, 7, DownRank, {})
  BY OrderedAppend
<1>3. m # "ACCESS_DENIED"
  BY DEF Farewells
<1>4. RefusedFirst(Append(q, m), b)
  BY <1>3, RefusedAppend
<1>5. Append(q, m) \in Seq(ToClient) /\ Len(Append(q, m)) = Len(q) + 1
  OBVIOUS
<1> QED
  BY <1>1, <1>2, <1>4, <1>5

LEMMA AnswerTwo ==
    ASSUME NEW q \in Seq(ToClient), NEW p \in Nat, NEW m \in ToClient, NEW n \in ToClient, NEW b,
           Ordered(q, p, 7, DownRank, {}), RefusedFirst(q, b),
           m \notin Farewells, n \notin Farewells,
           DownRank[m] = p + Len(q) + 1, DownRank[n] = p + Len(q) + 2, p + Len(q) + 2 <= 7
    PROVE  LET s == q \o <<m, n>> IN
           /\ s \in Seq(ToClient) /\ Len(s) = Len(q) + 2
           /\ Ordered(s, p, 7, DownRank, {}) /\ RefusedFirst(s, b)
<1> DEFINE r == q \o <<m>>
<1>1. /\ r \in Seq(ToClient) /\ Len(r) = Len(q) + 1
      /\ Ordered(r, p, 7, DownRank, {}) /\ RefusedFirst(r, b)
  BY AnswerOne
<1>2. q \o <<m, n>> = r \o <<n>>
  <2>1. r = Append(q, m) /\ q \o <<m, n>> = Append(Append(q, m), n)
    BY ConcatOneTwo
  <2> HIDE DEF r
  <2>2. r \o <<n>> = Append(r, n)
    BY <1>1, ConcatOneTwo
  <2> QED
    BY <2>1, <2>2
<1>3. DownRank[n] = p + Len(r) + 1 /\ p + Len(r) + 1 <= 7
  BY <1>1
<1> HIDE DEF r
<1>4. LET s == r \o <<n>> IN
      /\ s \in Seq(ToClient) /\ Len(s) = Len(r) + 1
      /\ Ordered(s, p, 7, DownRank, {}) /\ RefusedFirst(s, b)
  BY <1>1, <1>3, AnswerOne
<1>5. Len(r) + 1 = Len(q) + 2
  BY <1>1
<1> QED
  BY <1>2, <1>4, <1>5

\* The server writes to open connections of live clients only, and a connection
\* it looks at belongs to a client that has heard nothing.
LEMMA WaitingSilent ==
    ASSUME ProtocolInv, NEW c \in Clients, srv.pc # "exit",
           Ctrl(c) \in InQueue(listenQ) \/ Ctrl(c) = srv.pend
    PROVE  /\ ~ServerGone(Ctrl(c)) /\ srv.ctrl # Ctrl(c) /\ s2c[c] = <<>>
           /\ cl[c].state = "START" /\ Heard(c) = 0
<1>1. ~ServerGone(Ctrl(c)) /\ srv.ctrl # Ctrl(c)
  BY DEF ProtocolInv, ClientInv, Place, ServerGone
<1>2. s2c[c] = <<>> /\ cl[c].state = "START"
  BY <1>1 DEF ProtocolInv, ServedOrDropped, Addressed
<1> QED
  BY <1>1, <1>2 DEF Heard

LEMMA ToldOpen ==
    ASSUME ProtocolInv, srv.pc # "exit", NEW c \in Clients, ServerEffect, s2c'[c] # s2c[c]
    PROVE  /\ srv.ctrl = Ctrl(c) \/ srv.pend = Ctrl(c)
           /\ cl[c].pc # "exit" /\ ~ServerGone(Ctrl(c))
<1>1. ASSUME NEW conn, NEW ms, Tells(conn, ms) PROVE conn = Ctrl(c) /\ cl[c].pc # "exit"
  BY <1>1 DEF Tells
<1>2. (srv.ctrl = Ctrl(c) \/ srv.pend = Ctrl(c)) /\ cl[c].pc # "exit"
  BY <1>1 DEF ServerEffect, Opens, Admits, Looks, Refuses, Greets, AsksStreams, Joins, Starts,
              Transfers, Collects, Reports, Drops
<1> QED
  BY <1>2, ServedOpen, WaitingSilent

LEMMA CourseServer ==
    ASSUME ProtocolInv, srv.pc # "exit", NEW c \in Clients, ServerEffect PROVE Course(c)'
<1>1. UNCHANGED cl /\ Course(c)
  BY DEF ServerEffect, ProtocolInv, ClientInv
<1>2. ServerGone(Ctrl(c)) => ServerGone(Ctrl(c))'
  BY ServerStaysGone
<1>3. cl[c].pc = "exit" \/ ServerGone(Ctrl(c)) => s2c'[c] = s2c[c]
  BY ToldOpen
<1> QED
  BY <1>1, <1>2, <1>3 DEF Course

\* The messages of a client that is told nothing stay as they are.
LEMMA DownUntold ==
    ASSUME ProtocolInv, srv.pc # "exit", NEW c \in Clients, ServerEffect, s2c'[c] = s2c[c],
           srv'.ctrl = Ctrl(c) => Heard(c) <= Sent'
                                  /\ (cl[c].pc # "exit" => Heard(c) + Len(s2c[c]) = Sent')
    PROVE  Down(c)'
<1>1. UNCHANGED cl /\ Down(c)
  BY DEF ServerEffect, ProtocolInv, ClientInv
<1>2. Heard(c)' = Heard(c)
  BY <1>1 DEF Heard
<1> DEFINE E == IF ServerGone(Ctrl(c)) THEN Farewells ELSE {}
<1> DEFINE F == IF ServerGone(Ctrl(c))' THEN Farewells ELSE {}
<1>3. E \subseteq F
  BY ServerStaysGone
<1>4. Ordered(s2c[c], Heard(c), 7, DownRank, E)
  BY <1>1 DEF Down
<1> HIDE DEF E, F
<1>5. Ordered(s2c[c], Heard(c), 7, DownRank, F)
  BY <1>3, <1>4, CountTypes, OrderedWiden
<1>6. Ordered(s2c'[c], Heard(c)', 7, DownRank, IF ServerGone(Ctrl(c))' THEN Farewells ELSE {})
  BY <1>2, <1>5 DEF F
<1>7. RefusedFirst(s2c'[c], cl'[c].state = "START")
  BY <1>1 DEF Down
<1> QED
  BY <1>1, <1>2, <1>6, <1>7 DEF Down

\* A live client that is told the next messages of its test.
LEMMA DownTold ==
    ASSUME ProtocolInv, srv.pc # "exit", NEW c \in Clients, ServerEffect, srv.ctrl = Ctrl(c),
           cl[c].pc # "exit", NEW ms, s2c'[c] = s2c[c] \o ms,
           \/ \E m \in ToClient : /\ ms = <<m>> /\ m \notin Farewells
                                  /\ DownRank[m] = Sent + 1 /\ Sent' = Sent + 1
           \/ \E m, n \in ToClient : /\ ms = <<m, n>> /\ m \notin Farewells /\ n \notin Farewells
                                     /\ DownRank[m] = Sent + 1 /\ DownRank[n] = Sent + 2
                                     /\ Sent' = Sent + 2
    PROVE  Down(c)'
<1>0. UNCHANGED cl /\ ~ServerGone(Ctrl(c)) /\ Down(c)
  BY ServedOpen DEF ServerEffect, ProtocolInv, ClientInv
<1>1. /\ Ordered(s2c[c], Heard(c), 7, DownRank, {})
      /\ RefusedFirst(s2c[c], cl[c].state = "START")
      /\ Heard(c) + Len(s2c[c]) = Sent
  BY <1>0 DEF Down
<1>2. Sent' <= 7
  BY DEF Sent
<1>3. s2c[c] \in Seq(ToClient) /\ Len(s2c[c]) \in Nat /\ Heard(c) \in Nat
  BY ChannelTypes, CountTypes
<1>4. /\ Ordered(s2c'[c], Heard(c), 7, DownRank, {})
      /\ RefusedFirst(s2c'[c], cl[c].state = "START")
      /\ Heard(c) + Len(s2c'[c]) = Sent'
  <2>1. ASSUME NEW m \in ToClient, ms = <<m>>, m \notin Farewells,
               DownRank[m] = Sent + 1, Sent' = Sent + 1
        PROVE  <1>4!:
    <3>1. DownRank[m] = Heard(c) + Len(s2c[c]) + 1 /\ Heard(c) + Len(s2c[c]) + 1 <= 7
      BY <1>1, <1>2, <2>1
    <3>2. LET s == s2c[c] \o <<m>> IN
          /\ s \in Seq(ToClient) /\ Len(s) = Len(s2c[c]) + 1
          /\ Ordered(s, Heard(c), 7, DownRank, {}) /\ RefusedFirst(s, cl[c].state = "START")
      BY <1>1, <1>3, <2>1, <3>1, AnswerOne
    <3>3. Heard(c) + (Len(s2c[c]) + 1) = Sent + 1
      BY <1>1, <1>3
    <3> QED
      BY <2>1, <3>2, <3>3
  <2>2. ASSUME NEW m \in ToClient, NEW n \in ToClient, ms = <<m, n>>,
               m \notin Farewells, n \notin Farewells,
               DownRank[m] = Sent + 1, DownRank[n] = Sent + 2, Sent' = Sent + 2
        PROVE  <1>4!:
    <3>1. /\ DownRank[m] = Heard(c) + Len(s2c[c]) + 1
          /\ DownRank[n] = Heard(c) + Len(s2c[c]) + 2 /\ Heard(c) + Len(s2c[c]) + 2 <= 7
      BY <1>1, <1>2, <2>2
    <3>2. LET s == s2c[c] \o <<m, n>> IN
          /\ s \in Seq(ToClient) /\ Len(s) = Len(s2c[c]) + 2
          /\ Ordered(s, Heard(c), 7, DownRank, {}) /\ RefusedFirst(s, cl[c].state = "START")
      BY <1>1, <1>3, <2>2, <3>1, AnswerTwo
    <3>3. Heard(c) + (Len(s2c[c]) + 2) = Sent + 2
      BY <1>1, <1>3
    <3> QED
      BY <2>2, <3>2, <3>3
  <2> QED
    BY <2>1, <2>2
<1>5. Heard(c)' = Heard(c)
  BY <1>0 DEF Heard
<1> DEFINE F == IF ServerGone(Ctrl(c))' THEN Farewells ELSE {}
<1>6. {} \subseteq F
  OBVIOUS
<1> HIDE DEF F
<1>7. Ordered(s2c'[c], Heard(c), 7, DownRank, F)
  BY <1>3, <1>4, <1>6, OrderedWiden
<1>8. Ordered(s2c'[c], Heard(c)', 7, DownRank, IF ServerGone(Ctrl(c))' THEN Farewells ELSE {})
  BY <1>5, <1>7 DEF F
<1>9. Sent' >= Sent /\ Heard(c) <= Sent
  BY <1>0, CountTypes DEF Down
<1>10. Heard(c) <= Sent' /\ Sent' \in Nat
  BY <1>9, CountTypes DEF Sent
<1> QED
  BY <1>0, <1>4, <1>5, <1>8, <1>10 DEF Down

\* A client told by a server that has dropped it.
LEMMA DownLast ==
    ASSUME ProtocolInv, srv.pc # "exit", NEW c \in Clients, ServerEffect,
           srv.ctrl = Ctrl(c) \/ srv.pend = Ctrl(c), cl[c].pc # "exit",
           NEW m \in Farewells, s2c'[c] = s2c[c] \o <<m>>,
           m = "ACCESS_DENIED" => srv.pend = Ctrl(c),
           ServerGone(Ctrl(c))', srv'.ctrl # Ctrl(c)
    PROVE  Down(c)'
<1>0. UNCHANGED cl /\ ~ServerGone(Ctrl(c)) /\ Down(c)
  BY ServedOpen, WaitingSilent DEF ServerEffect, ProtocolInv, ClientInv
<1>1. /\ Ordered(s2c[c], Heard(c), 7, DownRank, {})
      /\ RefusedFirst(s2c[c], cl[c].state = "START")
  BY <1>0 DEF Down
<1>2. m \in ToClient /\ s2c[c] \in Seq(ToClient) /\ Heard(c) \in Nat
  BY DownRanks, ChannelTypes, CountTypes
<1>3. s2c'[c] = Append(s2c[c], m)
  BY <1>2, ConcatOneTwo
<1>4. Ordered(Append(s2c[c], m), Heard(c), 7, DownRank, Farewells)
  BY <1>1, <1>2, OrderedAppend
<1>5. m # "ACCESS_DENIED" \/ (s2c[c] = <<>> /\ cl[c].state = "START")
  BY WaitingSilent
<1>6. RefusedFirst(Append(s2c[c], m), cl[c].state = "START")
  BY <1>1, <1>2, <1>5, RefusedAppend
<1>7. Heard(c)' = Heard(c)
  BY <1>0 DEF Heard
<1> QED
  BY <1>0, <1>3, <1>4, <1>6, <1>7 DEF Down

\* A client told one more message of its test by a server that drops the test.
LEMMA DownLeft ==
    ASSUME ProtocolInv, srv.pc # "exit", NEW c \in Clients, ServerEffect, srv.ctrl = Ctrl(c),
           cl[c].pc # "exit", NEW m \in ToClient \ Farewells, s2c'[c] = s2c[c] \o <<m>>,
           DownRank[m] = Sent + 1, Sent + 1 <= 7, srv'.ctrl # Ctrl(c)
    PROVE  Down(c)'
<1>0. UNCHANGED cl /\ ~ServerGone(Ctrl(c)) /\ Down(c)
  BY ServedOpen DEF ServerEffect, ProtocolInv, ClientInv
<1>1. /\ Ordered(s2c[c], Heard(c), 7, DownRank, {})
      /\ RefusedFirst(s2c[c], cl[c].state = "START")
      /\ Heard(c) + Len(s2c[c]) = Sent
  BY <1>0 DEF Down
<1>2. s2c[c] \in Seq(ToClient) /\ Len(s2c[c]) \in Nat /\ Heard(c) \in Nat
  BY ChannelTypes, CountTypes
<1>3. /\ Ordered(s2c'[c], Heard(c), 7, DownRank, {})
      /\ RefusedFirst(s2c'[c], cl[c].state = "START")
  <2>1. DownRank[m] = Heard(c) + Len(s2c[c]) + 1 /\ Heard(c) + Len(s2c[c]) + 1 <= 7
    BY <1>1
  <2> QED
    BY <1>1, <1>2, <2>1, AnswerOne
<1>4. Heard(c)' = Heard(c)
  BY <1>0 DEF Heard
<1> DEFINE F == IF ServerGone(Ctrl(c))' THEN Farewells ELSE {}
<1>5. {} \subseteq F
  OBVIOUS
<1> HIDE DEF F
<1>6. Ordered(s2c'[c], Heard(c), 7, DownRank, F)
  BY <1>2, <1>3, <1>5, OrderedWiden
<1>7. Ordered(s2c'[c], Heard(c)', 7, DownRank, IF ServerGone(Ctrl(c))' THEN Farewells ELSE {})
  BY <1>4, <1>6 DEF F
<1> QED
  BY <1>0, <1>3, <1>7 DEF Down

LEMMA DownServer ==
    ASSUME ProtocolInv, srv.pc # "exit", NEW c \in Clients, ServerEffect PROVE Down(c)'
<1>0. /\ Down(c) /\ StageInv /\ srv \in Server /\ Ctrl(c) \in Conns /\ Ctrl(c) # None
      /\ Sent \in Nat /\ Heard(c) \in Nat
  BY ConnFacts, NoneNotConn, CountTypes
  DEF ProtocolInv, ClientInv, TypeInv, TypeOK
<1> USE DEF Becomes
<1>1. CASE Opens \/ Joins \/ Transfers \/ Looks
  <2>1. UNCHANGED s2c /\ srv'.ctrl = srv.ctrl /\ (srv.ctrl = Ctrl(c) => srv'.state = srv.state)
    BY <1>0, <1>1, ServedOpen DEF Opens, Joins, Transfers, Looks
  <2>2. srv.ctrl = Ctrl(c) => Sent' = Sent
    BY <2>1 DEF Sent
  <2> QED
    BY <1>0, <2>1, <2>2, DownUntold DEF Down
<1>2. CASE Admits
  <2>1. UNCHANGED s2c /\ srv'.ctrl = Head(listenQ) /\ srv'.state = "IPERF_START"
    BY <1>0, <1>2 DEF Admits, StageInv
  <2>2. Sent' = 0
    BY <2>1 DEF Sent
  <2>3. Head(listenQ) \in InQueue(listenQ)
    BY <1>2, QueueTail DEF Admits, NextInQueue, ProtocolInv, TypeInv, TypeOK
  <2>4. srv'.ctrl = Ctrl(c) => Heard(c) = 0 /\ Len(s2c[c]) = 0
    BY <2>1, <2>3, WaitingSilent
  <2> QED
    BY <2>1, <2>2, <2>4, DownUntold
<1>3. CASE Refuses
  <2>1. /\ srv'.ctrl = srv.ctrl /\ srv'.state = srv.state /\ closed' = closed \cup {srv.pend}
        /\ Tells(srv.pend, <<"ACCESS_DENIED">>)
    BY <1>3 DEF Refuses
  <2>2. Sent' = Sent
    BY <2>1 DEF Sent
  <2>3. CASE srv.pend = Ctrl(c) /\ cl[c].pc # "exit"
    <3>1. s2c'[c] = s2c[c] \o <<"ACCESS_DENIED">> /\ ServerGone(Ctrl(c))' /\ srv.ctrl # Ctrl(c)
      BY <2>1, <2>3, WaitingSilent DEF Tells, ServerGone
    <3>2. "ACCESS_DENIED" \in Farewells
      BY DEF Farewells
    <3> QED
      BY <2>1, <2>3, <3>1, <3>2, DownLast
  <2>4. CASE ~(srv.pend = Ctrl(c) /\ cl[c].pc # "exit")
    <3>1. s2c'[c] = s2c[c]
      BY <2>1, <2>4 DEF Tells
    <3> QED
      BY <1>0, <2>1, <2>2, <3>1, DownUntold DEF Down
  <2> QED
    BY <2>3, <2>4
<1>4. ASSUME NEW ms, Tells(srv.ctrl, ms), srv'.ctrl = srv.ctrl, srv.ctrl # None => Sent' >= Sent,
             \/ \E m \in ToClient : /\ ms = <<m>> /\ m \notin Farewells
                                    /\ DownRank[m] = Sent + 1 /\ Sent' = Sent + 1
             \/ \E m, n \in ToClient : /\ ms = <<m, n>> /\ m \notin Farewells /\ n \notin Farewells
                                       /\ DownRank[m] = Sent + 1 /\ DownRank[n] = Sent + 2
                                       /\ Sent' = Sent + 2
      PROVE  Down(c)'
  <2>1. CASE srv.ctrl = Ctrl(c) /\ cl[c].pc # "exit"
    <3>1. s2c'[c] = s2c[c] \o ms
      BY <1>4, <2>1 DEF Tells
    <3> QED
      BY <1>4, <2>1, <3>1, DownTold
  <2>2. CASE ~(srv.ctrl = Ctrl(c) /\ cl[c].pc # "exit")
    <3>1. s2c'[c] = s2c[c]
      BY <1>4, <2>2 DEF Tells
    <3>2. srv'.ctrl = Ctrl(c) => Heard(c) <= Sent /\ Sent' >= Sent /\ cl[c].pc = "exit"
      BY <1>0, <1>4, <2>2 DEF Down
    <3>3. Sent' \in Nat
      BY DEF Sent
    <3>4. srv'.ctrl = Ctrl(c) => Heard(c) <= Sent' /\ cl[c].pc = "exit"
      BY <1>0, <3>2, <3>3
    <3> QED
      BY <3>1, <3>4, DownUntold
  <2> QED
    BY <2>1, <2>2
<1>5. CASE Greets
  <2>1. Sent = 0 /\ Sent' = 1
    BY <1>0, <1>5 DEF Greets, StageInv, Stages, Sent, ProtocolInv, TypeInv, Blocked
  <2>2. "PARAM_EXCHANGE" \in ToClient /\ "PARAM_EXCHANGE" \notin Farewells
    BY DEF ToClient, Farewells
  <2> QED
    BY <1>4, <1>5, <2>1, <2>2, DownRanks DEF Greets
<1>6. CASE AsksStreams
  <2>1. Sent = 1 /\ Sent' = 2
    BY <1>0, <1>6 DEF AsksStreams, StageInv, Stages, Sent, ProtocolInv, TypeInv, Blocked
  <2>2. "CREATE_STREAMS" \in ToClient /\ "CREATE_STREAMS" \notin Farewells
    BY DEF ToClient, Farewells
  <2> QED
    BY <1>4, <1>6, <2>1, <2>2, DownRanks DEF AsksStreams
<1>7. CASE Starts
  <2>1. Sent = 2 /\ Sent' = 4
    BY <1>0, <1>7 DEF Starts, StageInv, Stages, Sent, ProtocolInv, TypeInv, Blocked
  <2>2. {"TEST_START", "TEST_RUNNING"} \subseteq ToClient \ Farewells
    BY DEF ToClient, Farewells
  <2> QED
    BY <1>4, <1>7, <2>1, <2>2, DownRanks DEF Starts
<1>8. CASE Collects
  <2>1. srv.state = "TEST_RUNNING"
    BY <1>8, TestEndInTime DEF Collects
  <2>2. Sent = 4 /\ Sent' = 5
    BY <1>8, <2>1 DEF Collects, Sent
  <2>3. "EXCHANGE_RESULTS" \in ToClient /\ "EXCHANGE_RESULTS" \notin Farewells
    BY DEF ToClient, Farewells
  <2> QED
    BY <1>4, <1>8, <2>2, <2>3, DownRanks DEF Collects
<1>9. CASE Reports
  <2>1. Sent = 5 /\ Sent' = 7
    BY <1>0, <1>9 DEF Reports, StageInv, Stages, Sent, ProtocolInv, TypeInv, Blocked
  <2>2. {"RESULTS", "DISPLAY_RESULTS"} \subseteq ToClient \ Farewells
    BY DEF ToClient, Farewells
  <2> QED
    BY <1>4, <1>9, <2>1, <2>2, DownRanks DEF Reports
<1>10. CASE Drops
  <2>1. srv'.ctrl # Ctrl(c) /\ (srv.ctrl = Ctrl(c) => ServerGone(Ctrl(c))')
    BY <1>0, <1>10 DEF Drops, ServerGone
  <2>2. CASE s2c'[c] = s2c[c]
    BY <2>1, <2>2, DownUntold
  <2>3. CASE s2c'[c] # s2c[c]
    <3>1. srv.ctrl = Ctrl(c) /\ cl[c].pc # "exit"
      BY <1>10, <2>3, ToldOpen DEF Drops
    <3>2. ASSUME NEW m \in {"SERVER_ERROR", "SERVER_TERMINATE"}, Tells(srv.ctrl, <<m>>)
          PROVE  Down(c)'
      <4>1. s2c'[c] = s2c[c] \o <<m>>
        BY <3>1, <3>2 DEF Tells
      <4>2. m \in Farewells /\ m # "ACCESS_DENIED"
        BY DEF Farewells
      <4> QED
        BY <2>1, <3>1, <4>1, <4>2, DownLast
    <3>3. ASSUME NEW m \in {"CREATE_STREAMS", "TEST_START"}, Tells(srv.ctrl, <<m>>),
                 srv.pc = IF m = "CREATE_STREAMS" THEN "params" ELSE "stream"
          PROVE  Down(c)'
      <4>1. s2c'[c] = s2c[c] \o <<m>>
        BY <3>1, <3>3 DEF Tells
      <4>2. m \in ToClient \ Farewells
        BY DEF ToClient, Farewells
      <4>3. <<srv.pc, srv.state>> \in Stages
        BY <1>0, <3>1 DEF StageInv
      <4>4. DownRank[m] = Sent + 1 /\ Sent + 1 <= 7
        <5>1. CASE m = "CREATE_STREAMS"
          BY <3>3, <4>3, <5>1, DownRanks DEF Stages, Sent
        <5>2. CASE m = "TEST_START"
          BY <3>3, <4>3, <5>2, DownRanks DEF Stages, Sent
        <5> QED
          BY <5>1, <5>2
      <4> QED
        BY <2>1, <3>1, <4>1, <4>2, <4>4, DownLeft
    <3> QED
      BY <1>10, <2>3, <3>2, <3>3 DEF Drops
  <2> QED
    BY <2>2, <2>3
<1> QED
  BY <1>1, <1>2, <1>3, <1>5, <1>6, <1>7, <1>8, <1>9, <1>10 DEF ServerEffect

-----------------------------------------------------------------------------
(* What the server reads. *)

\* Nothing read, and no other count of messages read.
LEMMA UpUnread ==
    ASSUME ProtocolInv, srv.pc # "exit", NEW c \in Clients, ServerEffect, c2s'[c] = c2s[c],
           Read(c)' = Read(c)
    PROVE  Up(c)'
<1>1. UNCHANGED cl /\ Up(c) /\ (ServerGone(Ctrl(c)) => ServerGone(Ctrl(c))')
  BY ServerStaysGone DEF ServerEffect, ProtocolInv, ClientInv
<1>2. Said(c)' = Said(c)
  BY <1>1 DEF Said
<1> QED
  BY <1>1, <1>2 DEF Up

\* The next message read, or the rest thrown away after the client has died.
LEMMA UpRead ==
    ASSUME ProtocolInv, srv.pc # "exit", NEW c \in Clients, ServerEffect, srv.ctrl = Ctrl(c),
           \/ c2s[c] # <<>> /\ c2s'[c] = Tail(c2s[c])
           \/ cl[c].pc = "exit" /\ c2s'[c] = <<>>,
           Read(c)' = Read(c) + 1
    PROVE  Up(c)'
<1> DEFINE E == IF cl[c].pc = "exit" THEN LastWords ELSE {}
<1>1. /\ UNCHANGED cl /\ ~ServerGone(Ctrl(c))
      /\ Ordered(c2s[c], Read(c), Said(c), UpRank, E)
      /\ cl[c].pc # "exit" => Read(c) + Len(c2s[c]) = Said(c)
  BY ServedOpen DEF ServerEffect, ProtocolInv, ClientInv, Up
<1>2. /\ c2s[c] \in Seq(ToServer) /\ Read(c) \in Nat /\ Said(c) \in Nat
      /\ Len(c2s[c]) \in Nat
  BY ChannelTypes, CountTypes
<1> HIDE DEF E
<1>3. Ordered(c2s'[c], Read(c) + 1, Said(c), UpRank, E)
  BY <1>1, <1>2, OrderedTail, OrderedEmpty
<1>4. cl[c].pc # "exit" => Read(c) + 1 + Len(c2s'[c]) = Said(c)
  <2> SUFFICES ASSUME cl[c].pc # "exit" PROVE Read(c) + 1 + Len(c2s'[c]) = Said(c)
    OBVIOUS
  <2>1. Len(c2s'[c]) = Len(c2s[c]) - 1
    BY <1>2, TailLength
  <2> QED
    BY <1>1, <1>2, <2>1
<1>5. Said(c)' = Said(c)
  BY <1>1 DEF Said
<1>6. E = IF cl'[c].pc = "exit" THEN LastWords ELSE {}
  BY <1>1 DEF E
<1> QED
  BY <1>1, <1>3, <1>4, <1>5, <1>6 DEF Up

LEMMA UpServer ==
    ASSUME ProtocolInv, srv.pc # "exit", NEW c \in Clients, ServerEffect PROVE Up(c)'
<1>0. StageInv /\ Ctrl(c) # None
  BY ConnFacts, NoneNotConn DEF ProtocolInv
<1> USE DEF Becomes
<1>1. CASE Opens \/ Joins \/ Transfers \/ Looks \/ Refuses
  <2>1. UNCHANGED c2s /\ srv'.ctrl = srv.ctrl /\ (srv.ctrl = Ctrl(c) => srv'.state = srv.state)
    BY <1>0, <1>1, ServedOpen DEF Opens, Joins, Transfers, Looks, Refuses
  <2>2. Read(c)' = Read(c)
    BY <2>1 DEF Read
  <2> QED
    BY <2>1, <2>2, UpUnread
<1>2. CASE Admits
  <2>1. UNCHANGED c2s /\ srv.ctrl = None /\ srv'.state = "IPERF_START"
    BY <1>0, <1>2 DEF Admits, StageInv
  <2>2. Read(c) = 0 /\ Read(c)' = 0
    BY <1>0, <2>1 DEF Read
  <2> QED
    BY <2>1, <2>2, UpUnread
<1>3. CASE Greets
  <2>1. UNCHANGED c2s /\ srv'.ctrl = srv.ctrl /\ srv'.state = "PARAM_EXCHANGE"
        /\ srv.state = "IPERF_START"
    BY <1>0, <1>3 DEF Greets, StageInv, Stages, ProtocolInv, TypeInv, Blocked
  <2>2. Read(c)' = Read(c)
    BY <2>1 DEF Read
  <2> QED
    BY <2>1, <2>2, UpUnread
<1>4. CASE Starts
  <2>1. UNCHANGED c2s /\ srv'.ctrl = srv.ctrl /\ srv'.state = "TEST_RUNNING"
        /\ srv.state = "CREATE_STREAMS"
    BY <1>0, <1>4 DEF Starts, StageInv, Stages, ProtocolInv, TypeInv, Blocked
  <2>2. Read(c)' = Read(c)
    BY <2>1 DEF Read
  <2> QED
    BY <2>1, <2>2, UpUnread
<1>5. CASE AsksStreams
  <2>1. Takes("PARAMS") /\ srv'.ctrl = srv.ctrl /\ srv'.state = "CREATE_STREAMS"
        /\ srv.state = "PARAM_EXCHANGE"
    BY <1>0, <1>5 DEF AsksStreams, StageInv, Stages, ProtocolInv, TypeInv, Blocked
  <2>2. IF srv.ctrl = Ctrl(c) THEN Read(c)' = 1 /\ Read(c) = 0 ELSE Read(c)' = Read(c)
    BY <2>1 DEF Read
  <2> QED
    BY <2>1, <2>2, UpUnread, UpRead DEF Takes
<1>6. CASE Reports
  <2>1. Takes("RESULTS") /\ srv'.ctrl = srv.ctrl /\ srv'.state = "DISPLAY_RESULTS"
        /\ srv.state = "EXCHANGE_RESULTS"
    BY <1>0, <1>6 DEF Reports, StageInv, Stages, ProtocolInv, TypeInv, Blocked
  <2>2. IF srv.ctrl = Ctrl(c) THEN Read(c)' = 3 /\ Read(c) = 2 ELSE Read(c)' = Read(c)
    BY <2>1 DEF Read
  <2> QED
    BY <2>1, <2>2, UpUnread, UpRead DEF Takes
<1>7. CASE Collects
  <2>1. PICK d \in Clients : /\ srv.ctrl = Ctrl(d) /\ c2s[d] # <<>> /\ Head(c2s[d]) = "TEST_END"
                             /\ c2s' = [c2s EXCEPT ![d] = Tail(c2s[d])]
    BY <1>7 DEF Collects
  <2>2. srv.state = "TEST_RUNNING"
    BY <2>1, TestEndInTime
  <2>3. srv'.ctrl = srv.ctrl /\ srv'.state = "EXCHANGE_RESULTS"
    BY <1>7 DEF Collects
  <2>4. IF srv.ctrl = Ctrl(c) THEN Read(c)' = 2 /\ Read(c) = 1 ELSE Read(c)' = Read(c)
    BY <2>2, <2>3 DEF Read
  <2>5. c = d <=> srv.ctrl = Ctrl(c)
    BY <2>1 DEF Ctrl
  <2>6. c2s \in [Clients -> Seq(ToServer)]
    BY DEF ProtocolInv, TypeInv, TypeOK
  <2>7. CASE c = d
    <3>1. c2s[c] # <<>> /\ c2s'[c] = Tail(c2s[c]) /\ Read(c)' = Read(c) + 1
      BY <2>1, <2>4, <2>5, <2>6, <2>7
    <3> QED
      BY <2>5, <2>7, <3>1, UpRead
  <2>8. CASE c # d
    <3>1. c2s'[c] = c2s[c] /\ Read(c)' = Read(c)
      BY <2>1, <2>4, <2>5, <2>6, <2>8
    <3> QED
      BY <3>1, UpUnread
  <2> QED
    BY <2>7, <2>8
<1>8. CASE Drops
  <2>1. CASE srv.ctrl = Ctrl(c)
    <3>1. ServerGone(Ctrl(c))'
      BY <1>0, <1>8, <2>1 DEF Drops, ServerGone
    <3> QED
      BY <3>1 DEF Up
  <2>2. CASE srv.ctrl # Ctrl(c)
    <3>1. c2s'[c] = c2s[c] /\ srv'.ctrl # Ctrl(c)
      BY <1>0, <1>8, <2>2 DEF Drops
    <3>2. Read(c)' = Read(c)
      BY <2>2, <3>1 DEF Read
    <3> QED
      BY <3>1, <3>2, UpUnread
  <2> QED
    BY <2>1, <2>2
<1> QED
  BY <1>1, <1>2, <1>3, <1>4, <1>5, <1>6, <1>7, <1>8 DEF ServerEffect

-----------------------------------------------------------------------------
(* A client's own steps. *)

\* A client's step says nothing about the other clients.
LEMMA OthersKeep ==
    ASSUME ProtocolInv, NEW c \in Clients, ClientEffect(c), NEW d \in Clients, d # c
    PROVE  Course(d)' /\ Down(d)' /\ Up(d)'
<1>1. /\ UNCHANGED <<srv, closed>> /\ cl'[d] = cl[d] /\ s2c'[d] = s2c[d] /\ c2s'[d] = c2s[d]
      /\ Course(d) /\ Down(d) /\ Up(d)
  BY DEF ClientEffect, OthersSame, ProtocolInv, ClientInv
<1>2. /\ ServerGone(Ctrl(d))' = ServerGone(Ctrl(d)) /\ Heard(d)' = Heard(d)
      /\ Said(d)' = Said(d) /\ Read(d)' = Read(d) /\ Sent' = Sent
  BY <1>1 DEF ServerGone, Heard, Said, Read, Sent
<1> QED
  BY <1>1, <1>2 DEF Course, Down, Up

\* Where a client is that has heard so many messages.
LEMMA HeardStates ==
    ASSUME ProtocolInv, NEW c \in Clients
    PROVE  /\ Heard(c) = 0 => cl[c].state = "START"
           /\ Heard(c) = 1 => cl[c].state = "PARAM_EXCHANGE"
           /\ Heard(c) = 2 => cl[c].state = "CREATE_STREAMS"
           /\ Heard(c) = 3 => cl[c].state = "TEST_START"
           /\ Heard(c) = 4 => cl[c].state \in {"TEST_RUNNING", "TEST_END"}
           /\ Heard(c) = 6 => cl[c].state = "EXCHANGE_RESULTS" /\ cl[c].got # "none"
           /\ cl[c].state \in ClientStates \ {"IPERF_DONE"}
<1>1. cl[c].state \in ClientStates \ {"IPERF_DONE"}
  BY ChannelTypes DEF ClientInv, Course, Client
<1> QED
  BY <1>1 DEF Heard, ClientStates

\* The states in which each message finds the client.
LEMMA HeardBefore ==
    ASSUME ProtocolInv, NEW c \in Clients
    PROVE  /\ Arrived(c, "PARAM_EXCHANGE") => Heard(c) = 0 /\ cl[c].state = "START"
           /\ Arrived(c, "CREATE_STREAMS") => Heard(c) = 1 /\ cl[c].state = "PARAM_EXCHANGE"
           /\ Arrived(c, "TEST_START") => Heard(c) = 2 /\ cl[c].state = "CREATE_STREAMS"
           /\ Arrived(c, "TEST_RUNNING") => Heard(c) = 3 /\ cl[c].state = "TEST_START"
           /\ Arrived(c, "EXCHANGE_RESULTS") => Heard(c) = 4
                                                /\ cl[c].state \in {"TEST_RUNNING", "TEST_END"}
           /\ Arrived(c, "RESULTS") => Heard(c) = 5
           /\ Arrived(c, "DISPLAY_RESULTS") => Heard(c) = 6 /\ cl[c].got = "peer"
<1>1. {"PARAM_EXCHANGE", "CREATE_STREAMS", "TEST_START", "TEST_RUNNING", "EXCHANGE_RESULTS",
       "RESULTS", "DISPLAY_RESULTS"} \subseteq ToClient \ Farewells
  BY DEF ToClient, Farewells
<1>2. Heard(c) \in Nat
  BY CountTypes
<1>3. /\ Arrived(c, "PARAM_EXCHANGE") => Heard(c) = 0
      /\ Arrived(c, "CREATE_STREAMS") => Heard(c) = 1
      /\ Arrived(c, "TEST_START") => Heard(c) = 2
      /\ Arrived(c, "TEST_RUNNING") => Heard(c) = 3
      /\ Arrived(c, "EXCHANGE_RESULTS") => Heard(c) = 4
      /\ Arrived(c, "RESULTS") => Heard(c) = 5
      /\ Arrived(c, "DISPLAY_RESULTS") => Heard(c) = 6
  <2>1. \A m \in ToClient \ Farewells : Arrived(c, m) => DownRank[m] = Heard(c) + 1
    BY NextHeard
  <2> QED
    BY <1>1, <1>2, <2>1, DownRanks
<1>4. Arrived(c, "DISPLAY_RESULTS") => cl[c].got = "peer"
  <2> SUFFICES ASSUME Arrived(c, "DISPLAY_RESULTS") PROVE cl[c].got = "peer"
    OBVIOUS
  <2>1. cl[c].got # "none"
    BY <1>3, HeardStates
  <2>2. cl[c].got # "memory"
    BY DEF ProtocolInv, ClientInv, Course, Arrived
  <2>3. cl[c].got \in Sources
    BY ChannelTypes DEF Client
  <2> QED
    BY <2>1, <2>2, <2>3 DEF Sources
<1> QED
  BY <1>3, <1>4, HeardStates

LEMMA CourseClient ==
    ASSUME ProtocolInv, NEW c \in Clients, ClientEffect(c) PROVE Course(c)'
<1>0. /\ Course(c) /\ UNCHANGED <<srv, closed>>
      /\ (ServerGone(Ctrl(c)) <=> ServerGone(Ctrl(c))')
  BY DEF ProtocolInv, ClientInv, ClientEffect, OthersSame, ServerGone
<1> USE DEF Turns
<1>1. CASE Quits(c)
  <2>1. Arrived(c, "ACCESS_DENIED") => cl[c].state = "START"
    <3> SUFFICES ASSUME Arrived(c, "ACCESS_DENIED") PROVE cl[c].state = "START"
      OBVIOUS
    <3>1. 1 \in 1 .. Len(s2c[c]) /\ s2c[c][1] = "ACCESS_DENIED"
      BY ChannelTypes DEF Arrived
    <3> QED
      BY <3>1 DEF ProtocolInv, ClientInv, Down, RefusedFirst
  <2> QED
    BY <1>0, <1>1, <2>1, HeardBefore DEF Quits, Course
<1>2. CASE Connects(c) \/ Dials(c)
  BY <1>0, <1>2 DEF Connects, Dials, Keeps, Course
<1>3. CASE Works(c)
  BY <1>0, <1>3 DEF Works, Keeps, Course
<1>4. CASE Agrees(c)
  BY <1>0, <1>4, HeardBefore DEF Agrees, Hears, Course
<1>5. CASE Creates(c)
  BY <1>0, <1>5, HeardBefore DEF Creates, Hears, Course
<1>6. CASE Runs(c)
  BY <1>0, <1>6, HeardBefore DEF Runs, Hears, Course
<1>7. CASE Finishes(c)
  BY <1>0, <1>7 DEF Finishes, Course
<1>8. CASE SendsResults(c)
  BY <1>0, <1>8, HeardBefore DEF SendsResults, Hears, Course
<1>9. CASE GetsResults(c)
  BY <1>0, <1>9 DEF GetsResults, Course
<1> QED
  BY <1>1, <1>2, <1>3, <1>4, <1>5, <1>6, <1>7, <1>8, <1>9 DEF ClientEffect

\* A message heard leaves the rest in order.
LEMMA DownHeard ==
    ASSUME ProtocolInv, NEW c \in Clients, ClientEffect(c), cl[c].pc # "exit",
           s2c[c] # <<>>, s2c'[c] = Tail(s2c[c]), Heard(c)' = Heard(c) + 1
    PROVE  Down(c)'
<1>0. /\ Down(c) /\ UNCHANGED <<srv, closed>>
      /\ (ServerGone(Ctrl(c)) <=> ServerGone(Ctrl(c))') /\ Sent' = Sent
  BY DEF ProtocolInv, ClientInv, ClientEffect, OthersSame, ServerGone, Sent
<1> DEFINE E == IF ServerGone(Ctrl(c)) THEN Farewells ELSE {}
<1>1. /\ Ordered(s2c[c], Heard(c), 7, DownRank, E)
      /\ RefusedFirst(s2c[c], cl[c].state = "START")
  BY <1>0 DEF Down
<1>2. s2c[c] \in Seq(ToClient) /\ Heard(c) \in Nat /\ Sent \in Nat
  BY ChannelTypes, CountTypes
<1> HIDE DEF E
<1>3. Ordered(s2c'[c], Heard(c)', 7, DownRank, E)
  BY <1>1, <1>2, OrderedTail
<1>4. RefusedFirst(s2c'[c], cl'[c].state = "START")
  BY <1>1, <1>2, RefusedTail
<1>5. srv.ctrl = Ctrl(c) => Heard(c)' + Len(s2c'[c]) = Sent /\ Heard(c)' <= Sent
  <2>1. Len(s2c'[c]) = Len(s2c[c]) - 1 /\ Len(s2c[c]) \in Nat /\ Len(s2c[c]) >= 1
    BY <1>2, TailLength
  <2>2. srv.ctrl = Ctrl(c) => Heard(c) + Len(s2c[c]) = Sent
    BY <1>0 DEF Down
  <2> QED
    BY <1>2, <2>1, <2>2
<1> QED
  BY <1>0, <1>3, <1>4, <1>5 DEF Down, E

LEMMA DownClient ==
    ASSUME ProtocolInv, NEW c \in Clients, ClientEffect(c) PROVE Down(c)'
<1>0. /\ Down(c) /\ Course(c) /\ UNCHANGED <<srv, closed>>
      /\ (ServerGone(Ctrl(c)) <=> ServerGone(Ctrl(c))') /\ Sent' = Sent
  BY DEF ProtocolInv, ClientInv, ClientEffect, OthersSame, ServerGone, Sent
<1> USE DEF Turns
<1>1. CASE Quits(c)
  <2>1. s2c'[c] = <<>> /\ cl'[c].pc = "exit" /\ Heard(c)' = Heard(c)
    BY <1>1 DEF Quits, Heard
  <2>2. RefusedFirst(<<>>, cl'[c].state = "START")
    BY DEF RefusedFirst
  <2> QED
    BY <1>0, <2>1, <2>2, OrderedEmpty DEF Down
<1>2. ASSUME s2c'[c] = s2c[c], Heard(c)' = Heard(c), cl[c].pc # "exit",
             (cl'[c].state = "START") = (cl[c].state = "START")
      PROVE  Down(c)'
  BY <1>0, <1>2 DEF Down
<1>3. CASE Connects(c) \/ Dials(c) \/ Works(c)
  <2>1. /\ s2c'[c] = s2c[c] /\ cl'[c].state = cl[c].state /\ cl'[c].got = cl[c].got
        /\ cl[c].pc # "exit"
    BY <1>3 DEF Connects, Dials, Works, Keeps
  <2>2. Heard(c)' = Heard(c)
    BY <2>1 DEF Heard
  <2> QED
    BY <1>2, <2>1, <2>2
<1>4. CASE Finishes(c)
  <2>1. s2c'[c] = s2c[c] /\ cl[c].state = "TEST_RUNNING" /\ cl'[c].state = "TEST_END"
    BY <1>0, <1>4 DEF Finishes, Course
  <2>2. Heard(c)' = Heard(c)
    BY <2>1 DEF Heard
  <2>3. cl[c].pc # "exit"
    BY <1>4 DEF Finishes
  <2> QED
    BY <1>2, <2>1, <2>2, <2>3
<1>5. CASE Agrees(c) \/ Creates(c) \/ Runs(c) \/ SendsResults(c)
  <2>1. cl[c].pc # "exit" /\ s2c[c] # <<>> /\ s2c'[c] = Tail(s2c[c])
    BY <1>5 DEF Agrees, Creates, Runs, SendsResults, Hears, Arrived
  <2>2. PICK m \in {"PARAM_EXCHANGE", "CREATE_STREAMS", "TEST_START", "TEST_RUNNING",
                    "EXCHANGE_RESULTS"} :
          Arrived(c, m) /\ cl'[c].state = m /\ cl'[c].got = cl[c].got
    BY <1>5 DEF Agrees, Creates, Runs, SendsResults, Hears
  <2>3. cl[c].state # "EXCHANGE_RESULTS"
    BY <2>2, HeardBefore
  <2>4. cl'[c].got = "none"
    BY <1>0, <2>2, <2>3 DEF Course
  <2>5. Heard(c)' = Heard(c) + 1
    <3>1. /\ m = "PARAM_EXCHANGE" => Heard(c) = 0 /\ Heard(c)' = 1
          /\ m = "CREATE_STREAMS" => Heard(c) = 1 /\ Heard(c)' = 2
          /\ m = "TEST_START" => Heard(c) = 2 /\ Heard(c)' = 3
          /\ m = "TEST_RUNNING" => Heard(c) = 3 /\ Heard(c)' = 4
          /\ m = "EXCHANGE_RESULTS" => Heard(c) = 4 /\ Heard(c)' = 5
      <4>1. /\ m = "PARAM_EXCHANGE" => Heard(c) = 0
            /\ m = "CREATE_STREAMS" => Heard(c) = 1
            /\ m = "TEST_START" => Heard(c) = 2
            /\ m = "TEST_RUNNING" => Heard(c) = 3
            /\ m = "EXCHANGE_RESULTS" => Heard(c) = 4
        BY <2>2, HeardBefore
      <4>2. /\ m = "PARAM_EXCHANGE" => Heard(c)' = 1
            /\ m = "CREATE_STREAMS" => Heard(c)' = 2
            /\ m = "TEST_START" => Heard(c)' = 3
            /\ m = "TEST_RUNNING" => Heard(c)' = 4
            /\ m = "EXCHANGE_RESULTS" => Heard(c)' = 5
        BY <2>2, <2>4 DEF Heard
      <4> QED
        BY <4>1, <4>2
    <3> QED
      BY <3>1
  <2> QED
    BY <2>1, <2>5, DownHeard
<1>6. CASE GetsResults(c)
  <2>1. cl[c].state = "EXCHANGE_RESULTS" /\ cl[c].got = "none" /\ cl[c].pc # "exit"
    BY <1>0, <1>6 DEF GetsResults, Course
  <2>2. cl'[c].state = "EXCHANGE_RESULTS" /\ cl'[c].got # "none"
    BY <1>6, <2>1 DEF GetsResults
  <2>3. Heard(c) = 5 /\ Heard(c)' = 6
    BY <2>1, <2>2 DEF Heard
  <2>4. CASE Hears(c, "RESULTS")
    <3>1. s2c[c] # <<>> /\ s2c'[c] = Tail(s2c[c]) /\ Heard(c)' = Heard(c) + 1
      BY <2>3, <2>4 DEF Hears, Arrived
    <3> QED
      BY <2>1, <3>1, DownHeard
  <2>5. CASE ServerGone(Ctrl(c)) /\ s2c'[c] = <<>>
    <3>1. srv.ctrl # Ctrl(c)
      BY <2>5, ServedOpen
    <3>2. RefusedFirst(<<>>, cl'[c].state = "START")
      BY DEF RefusedFirst
    <3> QED
      BY <1>0, <2>5, <3>1, <3>2, OrderedEmpty DEF Down
  <2> QED
    BY <1>6, <2>4, <2>5 DEF GetsResults
<1> QED
  BY <1>1, <1>3, <1>4, <1>5, <1>6 DEF ClientEffect

\* A live client that says the next message of its test.
LEMMA UpSaid ==
    ASSUME ProtocolInv, NEW c \in Clients, ClientEffect(c), cl[c].pc # "exit",
           cl'[c].pc # "exit", NEW m \in ToServer, Says(c, m),
           UpRank[m] = Said(c) + 1, Said(c)' = Said(c) + 1
    PROVE  Up(c)'
<1>0. /\ Up(c) /\ UNCHANGED <<srv, closed>> /\ Read(c)' = Read(c)
      /\ (ServerGone(Ctrl(c)) <=> ServerGone(Ctrl(c))')
  BY DEF ProtocolInv, ClientInv, ClientEffect, OthersSame, ServerGone, Read
<1>1. CASE ServerGone(Ctrl(c))
  BY <1>0, <1>1 DEF Up
<1>2. CASE ~ServerGone(Ctrl(c))
  <2>1. /\ Ordered(c2s[c], Read(c), Said(c), UpRank, {}) /\ Read(c) + Len(c2s[c]) = Said(c)
        /\ c2s'[c] = Append(c2s[c], m)
    BY <1>0, <1>2 DEF Up, Says
  <2>2. /\ c2s[c] \in Seq(ToServer) /\ Read(c) \in Nat /\ Said(c) \in Nat /\ Said(c) + 1 \in Nat
        /\ Len(c2s[c]) \in Nat
    BY ChannelTypes, CountTypes
  <2>3. /\ UpRank[m] = Read(c) + Len(c2s[c]) + 1
        /\ Read(c) + Len(c2s[c]) + 1 <= Said(c) + 1 /\ Said(c) <= Said(c) + 1
    BY <2>1, <2>2
  <2>4. Ordered(c2s'[c], Read(c), Said(c) + 1, UpRank, {})
    BY <2>1, <2>2, <2>3, OrderedAppend
  <2>5. Read(c) + Len(c2s'[c]) = Said(c) + 1
    <3>1. Len(c2s'[c]) = Len(c2s[c]) + 1
      BY <2>1, <2>2
    <3> QED
      BY <2>1, <2>2, <3>1
  <2> QED
    BY <1>0, <1>2, <2>4, <2>5 DEF Up
<1> QED
  BY <1>1, <1>2

LEMMA UpClient ==
    ASSUME ProtocolInv, NEW c \in Clients, ClientEffect(c) PROVE Up(c)'
<1>0. /\ Up(c) /\ Course(c) /\ UNCHANGED <<srv, closed>> /\ Read(c)' = Read(c)
      /\ (ServerGone(Ctrl(c)) <=> ServerGone(Ctrl(c))')
  BY DEF ProtocolInv, ClientInv, ClientEffect, OthersSame, ServerGone, Read
<1> USE DEF Turns
<1>1. CASE Quits(c)
  <2>1. Said(c)' = Said(c) /\ cl'[c].pc = "exit" /\ cl[c].pc # "exit"
    BY <1>1 DEF Quits, Said
  <2>2. /\ c2s[c] \in Seq(ToServer) /\ Read(c) \in Nat /\ Said(c) \in Nat
        /\ LastWords \subseteq ToServer
    BY ChannelTypes, CountTypes, UpRanks
  <2> SUFFICES ASSUME ~ServerGone(Ctrl(c))
               PROVE  Ordered(c2s'[c], Read(c), Said(c), UpRank, LastWords)
    BY <1>0, <2>1 DEF Up
  <2>3. Ordered(c2s[c], Read(c), Said(c), UpRank, {})
    BY <1>0, <2>1 DEF Up
  <2>4. CASE c2s'[c] = c2s[c]
    BY <2>2, <2>3, <2>4, OrderedWiden
  <2>5. CASE \E m \in LastWords : c2s'[c] = Append(c2s[c], m)
    BY <2>2, <2>3, <2>5, OrderedAppend
  <2> QED
    BY <1>1, <2>4, <2>5 DEF Quits, Says
<1>2. ASSUME c2s'[c] = c2s[c], Said(c)' = Said(c), cl[c].pc # "exit", cl'[c].pc # "exit"
      PROVE  Up(c)'
  BY <1>0, <1>2 DEF Up
<1>3. CASE Connects(c) \/ Dials(c) \/ Works(c) \/ GetsResults(c)
  <2>1. /\ c2s'[c] = c2s[c] /\ cl'[c].state = cl[c].state /\ cl[c].pc # "exit"
        /\ cl'[c].pc # "exit"
    BY <1>3 DEF Connects, Dials, Works, GetsResults, Keeps
  <2>2. Said(c)' = Said(c)
    BY <2>1 DEF Said
  <2> QED
    BY <1>2, <2>1, <2>2
<1>4. CASE Creates(c) \/ Runs(c)
  <2>1. c2s'[c] = c2s[c] /\ cl[c].pc # "exit" /\ cl'[c].pc # "exit"
    BY <1>4 DEF Creates, Runs
  <2>2. cl[c].state \in {"PARAM_EXCHANGE", "CREATE_STREAMS", "TEST_START"}
    BY <1>4, HeardBefore DEF Creates, Runs, Hears
  <2>3. cl'[c].state \in {"CREATE_STREAMS", "TEST_START", "TEST_RUNNING"}
    BY <1>4 DEF Creates, Runs
  <2>4. Said(c)' = Said(c)
    BY <2>2, <2>3 DEF Said
  <2> QED
    BY <1>2, <2>1, <2>4
<1>5. CASE Agrees(c)
  <2>1. /\ cl[c].pc # "exit" /\ cl'[c].pc # "exit" /\ Says(c, "PARAMS")
        /\ cl[c].state = "START" /\ cl'[c].state = "PARAM_EXCHANGE"
    BY <1>5, HeardBefore DEF Agrees, Hears
  <2>2. Said(c) = 0 /\ Said(c)' = 1 /\ "PARAMS" \in ToServer
    BY <2>1 DEF Said, ToServer
  <2>3. UpRank["PARAMS"] = Said(c) + 1 /\ Said(c)' = Said(c) + 1
    BY <2>2, UpRanks
  <2> QED
    BY <2>1, <2>2, <2>3, UpSaid
<1>6. CASE Finishes(c)
  <2>1. /\ cl[c].pc # "exit" /\ cl'[c].pc # "exit" /\ Says(c, "TEST_END")
        /\ cl[c].state = "TEST_RUNNING" /\ cl'[c].state = "TEST_END"
    BY <1>0, <1>6 DEF Finishes, Course
  <2>2. Said(c) = 1 /\ Said(c)' = 2 /\ "TEST_END" \in ToServer
    BY <2>1 DEF Said, ToServer
  <2>3. UpRank["TEST_END"] = Said(c) + 1 /\ Said(c)' = Said(c) + 1
    BY <2>2, UpRanks
  <2> QED
    BY <2>1, <2>2, <2>3, UpSaid
<1>7. CASE SendsResults(c)
  <2>1. /\ cl[c].pc # "exit" /\ cl'[c].pc # "exit" /\ Says(c, "RESULTS")
        /\ cl[c].state \in {"TEST_RUNNING", "TEST_END"} /\ cl'[c].state = "EXCHANGE_RESULTS"
        /\ s2c[c] # <<>>
    BY <1>7, HeardBefore DEF SendsResults, Hears, Arrived
  <2>2. CASE ServerGone(Ctrl(c))
    BY <1>0, <2>2 DEF Up
  <2>3. CASE ~ServerGone(Ctrl(c))
    <3>1. cl[c].state = "TEST_END"
      BY <2>1, <2>3, RunsTogether
    <3>2. Said(c) = 2 /\ Said(c)' = 3 /\ "RESULTS" \in ToServer
      BY <2>1, <3>1 DEF Said, ToServer
    <3>3. UpRank["RESULTS"] = Said(c) + 1 /\ Said(c)' = Said(c) + 1
      BY <3>2, UpRanks
    <3> QED
      BY <2>1, <3>2, <3>3, UpSaid
  <2> QED
    BY <2>2, <2>3
<1> QED
  BY <1>1, <1>3, <1>4, <1>5, <1>6, <1>7 DEF ClientEffect

-----------------------------------------------------------------------------
(* The invariant holds. *)

LEMMA ProtocolInit == Init => ProtocolInv
<1> SUFFICES ASSUME Init PROVE ProtocolInv
  OBVIOUS
<1>1. TypeInv /\ ServedOrDropped
  BY TypeInit, ServedInit
<1>2. StageInv
  BY DEF Init, StageInv
<1>3. ASSUME NEW c \in Clients PROVE ClientInv(c)
  <2>1. /\ cl[c].pc = "init" /\ cl[c].state = "START" /\ cl[c].dialed = 0 /\ cl[c].got = "none"
        /\ cl[c].out = "none" /\ s2c[c] = <<>> /\ c2s[c] = <<>> /\ Ctrl(c) # None
        /\ srv.ctrl = None /\ srv.pend = None /\ srv.streams = {} /\ closed = {}
        /\ listenQ = <<>>
    BY ConnFacts, NoneNotConn DEF Init
  <2>2. Place(c)
    BY <2>1 DEF Place, Once, InQueue
  <2>3. Course(c)
    BY <2>1 DEF Course
  <2>4. Down(c)
    BY <2>1, OrderedEmpty DEF Down, RefusedFirst
  <2>5. Said(c) = 0 /\ Read(c) = 0
    BY <2>1 DEF Said, Read
  <2>6. Up(c)
    BY <2>1, <2>5, OrderedEmpty DEF Up
  <2>7. Kept(c)
    BY <2>1 DEF Kept
  <2> QED
    BY <2>2, <2>3, <2>4, <2>6, <2>7 DEF ClientInv
<1> QED
  BY <1>1, <1>2, <1>3 DEF ProtocolInv

LEMMA ProtocolNext == ProtocolInv /\ [Next]_vars => ProtocolInv'
<1> SUFFICES ASSUME ProtocolInv, [Next]_vars PROVE ProtocolInv'
  OBVIOUS
<1>1. TypeInv' /\ ServedOrDropped' /\ TypeInv
  BY TypeNext, ServedNext DEF ProtocolInv
<1>2. CASE ServerStep \/ ServerSigend
  <2>1. ServerEffect /\ srv.pc # "exit"
    BY <1>1, <1>2, ServerCases, ServerShape DEF ServerMoves
  <2>2. \A c \in Clients : ClientInv(c)'
    BY <2>1, PlaceServer, CourseServer, DownServer, UpServer, KeptServer DEF ClientInv
  <2> QED
    BY <1>1, <2>1, <2>2, StageServer DEF ProtocolInv
<1>3. ASSUME NEW c \in Clients,
             Connect(c) \/ ClientStep(c) \/ ClientSigend(c) \/ ClientKilled(c)
      PROVE  ProtocolInv'
  <2>1. ClientEffect(c)
    BY <1>1, <1>3, ClientCases
  <2>2. ASSUME NEW d \in Clients PROVE ClientInv(d)'
    <3>1. Place(d)' /\ Kept(d)'
      BY <2>1, PlaceClient, KeptClient
    <3>2. Course(d)' /\ Down(d)' /\ Up(d)'
      BY <2>1, OthersKeep, CourseClient, DownClient, UpClient
    <3> QED
      BY <3>1, <3>2 DEF ClientInv
  <2>3. StageInv'
    BY <2>1, StageClient
  <2> QED
    BY <1>1, <2>2, <2>3 DEF ProtocolInv
<1>4. CASE UNCHANGED vars
  <2>1. StageInv'
    BY <1>4 DEF vars, ProtocolInv, StageInv, StreamsSoFar, PeerGone
  <2>2. ASSUME NEW c \in Clients PROVE ClientInv(c)'
    <3>1. ClientInv(c)
      BY DEF ProtocolInv
    <3>2. /\ UNCHANGED <<cl, srv, listenQ, closed, c2s, s2c>>
          /\ ServerGone(Ctrl(c))' = ServerGone(Ctrl(c))
      BY <1>4 DEF vars, ServerGone
    <3>3. Heard(c)' = Heard(c) /\ Sent' = Sent
      BY <3>2 DEF Heard, Sent
    <3>4. Said(c)' = Said(c) /\ Read(c)' = Read(c)
      BY <3>2 DEF Said, Read
    <3>5. Place(c)' /\ Course(c)'
      BY <3>1, <3>2 DEF ClientInv, Place, Course
    <3>6. Down(c)'
      BY <3>1, <3>2, <3>3 DEF ClientInv, Down
    <3>7. Up(c)'
      BY <3>1, <3>2, <3>4 DEF ClientInv, Up
    <3>8. Kept(c)'
      BY <3>1, <3>2 DEF ClientInv, Kept, Served
    <3> QED
      BY <3>5, <3>6, <3>7, <3>8 DEF ClientInv
  <2> QED
    BY <1>1, <2>1, <2>2 DEF ProtocolInv
<1> QED
  BY <1>2, <1>3, <1>4 DEF Next

\* For any number of clients and streams, and however the messages of a test are
\* delayed: a client that transfers data, and that the server has not dropped,
\* has a server that is in the same test with all the streams asked for.
THEOREM TransfersAreShared == Spec => []RunningTogether
<1>1. ProtocolInv => RunningTogether
  <2> SUFFICES ASSUME ProtocolInv, NEW c \in Clients, cl[c].pc # "exit", Running(c),
                      ~ServerGone(Ctrl(c))
               PROVE  /\ srv.ctrl = Ctrl(c) /\ srv.state = "TEST_RUNNING"
                      /\ Cardinality(srv.streams) = NumStreams
    BY DEF RunningTogether
  <2>1. srv.ctrl = Ctrl(c) /\ srv.state = "TEST_RUNNING"
    BY RunsTogether DEF Running
  <2>2. srv.ctrl # None
    BY <2>1, ServedOpen
  <2> QED
    BY <2>1, <2>2 DEF ProtocolInv, StageInv, StreamsSoFar
<1> QED
  BY <1>1, ProtocolInit, ProtocolNext, PTL DEF Spec

\* A client that ends well has its server's results, and a server that displays
\* results has its client's, unless the client has died: whatever JSON_read makes
\* of a document cut short is never reported to anybody.
THEOREM ResultsAreReal == Spec => []ResultsExchanged
<1>1. ProtocolInv => ResultsExchanged
  BY DEF ProtocolInv, ClientInv, Course, StageInv, ResultsExchanged
<1> QED
  BY <1>1, ProtocolInit, ProtocolNext, PTL DEF Spec

\* ACCESS_DENIED reaches only clients that have not heard anything else.
THEOREM RefusalsComeFirst == Spec => []DeniedNeverAdmitted
<1>1. ProtocolInv => DeniedNeverAdmitted
  BY DEF ProtocolInv, ClientInv, Course, DeniedNeverAdmitted
<1> QED
  BY <1>1, ProtocolInit, ProtocolNext, PTL DEF Spec

\* A live client one of whose streams was dropped without being closed has had
\* its control connection closed, so that it can find out.
THEOREM OrphansCanTell == Spec => []OrphansAreNotified
<1>1. ProtocolInv => OrphansAreNotified
  <2> SUFFICES ASSUME ProtocolInv, NEW c \in Clients, cl[c].pc # "exit",
                      NEW conn \in StreamsOf(c), Orphaned(conn)
               PROVE  ServerGone(Ctrl(c))
    BY DEF OrphansAreNotified
  <2>1. PICK i \in 1 .. NumStreams : conn = <<c, i>>
    BY DEF StreamsOf
  <2>2. i <= cl[c].dialed /\ conn \notin closed /\ ~Served(conn)
    BY <2>1 DEF Orphaned, ServerGone
  <2>3. cl[c].dialed \in Nat
    BY ChannelTypes, Numbers DEF Client
  <2>4. i \in 1 .. cl[c].dialed
    BY <2>2, <2>3, Numbers
  <2> QED
    BY <2>1, <2>2, <2>4 DEF ProtocolInv, ClientInv, Kept
<1> QED
  BY <1>1, ProtocolInit, ProtocolNext, PTL DEF Spec

-----------------------------------------------------------------------------
(* The server implements TestSession. *)

\* The phase of a test from its state.
LEMMA PhaseOf ==
    /\ srv.ctrl = None => Phase = "free"
    /\ srv.ctrl # None =>
        /\ srv.state \in {"IPERF_START", "PARAM_EXCHANGE"} => Phase = "setup"
        /\ srv.state = "CREATE_STREAMS" => Phase = "streams"
        /\ srv.state = "TEST_RUNNING" => Phase = "transfer"
        /\ srv.state = "EXCHANGE_RESULTS" => Phase = "results"
        /\ srv.state = "DISPLAY_RESULTS" => Phase = "report"
<1>1. srv.ctrl = None => Phase = "free"
  BY DEF Phase
<1>2. ASSUME srv.ctrl # None, srv.state \in {"IPERF_START", "PARAM_EXCHANGE"} PROVE Phase = "setup"
  BY <1>2 DEF Phase
<1>3. ASSUME srv.ctrl # None, srv.state = "CREATE_STREAMS" PROVE Phase = "streams"
  BY <1>3 DEF Phase
<1>4. ASSUME srv.ctrl # None, srv.state = "TEST_RUNNING" PROVE Phase = "transfer"
  BY <1>4 DEF Phase
<1>5. ASSUME srv.ctrl # None, srv.state = "EXCHANGE_RESULTS" PROVE Phase = "results"
  BY <1>5 DEF Phase
<1>6. ASSUME srv.ctrl # None, srv.state = "DISPLAY_RESULTS" PROVE Phase = "report"
  BY <1>6 DEF Phase
<1> QED
  BY <1>1, <1>2, <1>3, <1>4, <1>5, <1>6

LEMMA PhaseOfNext ==
    /\ srv'.ctrl = None => Phase' = "free"
    /\ srv'.ctrl # None =>
        /\ srv'.state \in {"IPERF_START", "PARAM_EXCHANGE"} => Phase' = "setup"
        /\ srv'.state = "CREATE_STREAMS" => Phase' = "streams"
        /\ srv'.state = "TEST_RUNNING" => Phase' = "transfer"
        /\ srv'.state = "EXCHANGE_RESULTS" => Phase' = "results"
        /\ srv'.state = "DISPLAY_RESULTS" => Phase' = "report"
<1>1. srv'.ctrl = None => Phase' = "free"
  BY DEF Phase
<1>2. ASSUME srv'.ctrl # None, srv'.state \in {"IPERF_START", "PARAM_EXCHANGE"} PROVE Phase' = "setup"
  BY <1>2 DEF Phase
<1>3. ASSUME srv'.ctrl # None, srv'.state = "CREATE_STREAMS" PROVE Phase' = "streams"
  BY <1>3 DEF Phase
<1>4. ASSUME srv'.ctrl # None, srv'.state = "TEST_RUNNING" PROVE Phase' = "transfer"
  BY <1>4 DEF Phase
<1>5. ASSUME srv'.ctrl # None, srv'.state = "EXCHANGE_RESULTS" PROVE Phase' = "results"
  BY <1>5 DEF Phase
<1>6. ASSUME srv'.ctrl # None, srv'.state = "DISPLAY_RESULTS" PROVE Phase' = "report"
  BY <1>6 DEF Phase
<1> QED
  BY <1>1, <1>2, <1>3, <1>4, <1>5, <1>6

\* What TestSession sees of a step of the server.
SessionStep ==
    \/ srv'.ctrl = srv.ctrl /\ Phase' = Phase
       /\ Cardinality(srv'.streams) = Cardinality(srv.streams)
    \/ Abstract!SessionNext

LEMMA SessionServer ==
    ASSUME ProtocolInv, ServerEffect PROVE SessionStep
<1>0. StageInv /\ srv \in Server /\ TypeInv
  BY DEF ProtocolInv, TypeInv, TypeOK
<1>1. Cardinality({}) = 0
  BY FS_EmptySet
<1> USE DEF Becomes
<1>2. CASE Opens
  <2>1. srv.ctrl = None /\ srv'.ctrl = None /\ srv'.streams = srv.streams
    BY <1>0, <1>2 DEF Opens, StageInv, Stages
  <2> QED
    BY <2>1, PhaseOf, PhaseOfNext DEF SessionStep
<1>3. CASE Admits
  <2>1. /\ srv.ctrl = None /\ srv'.ctrl \in Conns /\ srv'.ctrl # None
        /\ srv'.state = "IPERF_START" /\ srv'.streams = srv.streams
    BY <1>0, <1>3, QueueTail, NoneNotConn DEF Admits, NextInQueue, StageInv, TypeInv, TypeOK
  <2>2. Phase' = "setup"
    BY <2>1, PhaseOfNext
  <2>3. Abstract!Admit
    BY <2>1, <2>2 DEF Abstract!Admit
  <2> QED
    BY <2>3 DEF SessionStep, Abstract!SessionNext
<1>4. CASE Looks \/ Refuses \/ Transfers
  <2>1. srv'.ctrl = srv.ctrl /\ srv'.state = srv.state /\ srv'.streams = srv.streams
    BY <1>4 DEF Looks, Refuses, Transfers
  <2>2. Phase' = Phase
    BY <2>1 DEF Phase
  <2> QED
    BY <2>1, <2>2 DEF SessionStep
<1>5. CASE Greets
  <2>1. /\ srv'.ctrl = srv.ctrl /\ srv.ctrl # None /\ srv'.streams = srv.streams
        /\ srv.state = "IPERF_START" /\ srv'.state = "PARAM_EXCHANGE"
    BY <1>0, <1>5 DEF Greets, StageInv, Stages, TypeInv, Blocked
  <2> QED
    BY <2>1, PhaseOf, PhaseOfNext DEF SessionStep
<1>6. CASE AsksStreams
  <2>1. /\ srv'.ctrl = srv.ctrl /\ srv.ctrl # None /\ srv'.streams = srv.streams
        /\ srv.state = "PARAM_EXCHANGE" /\ srv'.state = "CREATE_STREAMS"
    BY <1>0, <1>6 DEF AsksStreams, StageInv, Stages, TypeInv, Blocked
  <2>2. Abstract!Open
    BY <2>1, PhaseOf, PhaseOfNext DEF Abstract!Open
  <2> QED
    BY <2>2 DEF SessionStep, Abstract!SessionNext
<1>7. CASE Joins \/ Starts
  <2>1. /\ srv'.ctrl = srv.ctrl /\ srv.ctrl # None /\ srv.state = "CREATE_STREAMS"
        /\ srv'.streams = srv.streams \cup {srv.pend}
        /\ IsFiniteSet(srv.streams) /\ Cardinality(srv.streams) < NumStreams
    BY <1>0, <1>7 DEF Joins, Starts, StageInv, Stages, StreamsSoFar, TypeInv, Blocked
  <2>2. /\ Cardinality(srv.streams) \in Nat
        /\ \/ Cardinality(srv'.streams) = Cardinality(srv.streams) + 1
           \/ Cardinality(srv'.streams) = Cardinality(srv.streams)
    <3> DEFINE joined == srv.streams \cup {srv.pend}
    <3>1. /\ Cardinality(srv.streams) \in Nat
          /\ \/ Cardinality(joined) = Cardinality(srv.streams) + 1
             \/ Cardinality(joined) = Cardinality(srv.streams)
      BY <2>1, JoinedStreams
    <3> HIDE DEF joined
    <3>2. srv'.streams = joined
      BY <2>1 DEF joined
    <3> QED
      BY <3>1, <3>2
  <2>3. CASE Joins
    <3>1. srv'.state = "CREATE_STREAMS" /\ Cardinality(srv'.streams) < NumStreams
      BY <2>1, <2>3 DEF Joins
    <3>2. Phase = "streams" /\ Phase' = "streams"
      BY <2>1, <3>1, PhaseOf, PhaseOfNext
    <3>3. CASE Cardinality(srv'.streams) = Cardinality(srv.streams) + 1
      <4>1. Abstract!Join
        BY <2>1, <3>1, <3>2, <3>3 DEF Abstract!Join
      <4> QED
        BY <4>1 DEF SessionStep, Abstract!SessionNext
    <3> QED
      BY <2>1, <2>2, <3>2, <3>3 DEF SessionStep
  <2>4. CASE Starts
    <3>1. srv'.state = "TEST_RUNNING" /\ Cardinality(srv'.streams) = NumStreams
      BY <2>1, <2>4 DEF Starts
    <3>2. Phase = "streams" /\ Phase' = "transfer"
      BY <2>1, <3>1, PhaseOf, PhaseOfNext
    <3>3. Cardinality(srv'.streams) = Cardinality(srv.streams) + 1
      BY <2>1, <2>2, <3>1, Numbers
    <3>4. Abstract!Start
      BY <2>1, <3>1, <3>2, <3>3 DEF Abstract!Start
    <3> QED
      BY <3>4 DEF SessionStep, Abstract!SessionNext
  <2> QED
    BY <1>7, <2>3, <2>4
<1>8. CASE Collects
  <2>1. /\ srv'.ctrl = srv.ctrl /\ srv.ctrl # None /\ srv'.streams = srv.streams
        /\ srv.state = "TEST_RUNNING" /\ srv'.state = "EXCHANGE_RESULTS"
    BY <1>8, TestEndInTime DEF Collects
  <2>2. Abstract!Finish
    BY <2>1, PhaseOf, PhaseOfNext DEF Abstract!Finish
  <2> QED
    BY <2>2 DEF SessionStep, Abstract!SessionNext
<1>9. CASE Reports
  <2>1. /\ srv'.ctrl = srv.ctrl /\ srv.ctrl # None /\ srv'.streams = srv.streams
        /\ srv.state = "EXCHANGE_RESULTS" /\ srv'.state = "DISPLAY_RESULTS"
    BY <1>0, <1>9 DEF Reports, StageInv, Stages, TypeInv, Blocked
  <2>2. Abstract!Report
    BY <2>1, PhaseOf, PhaseOfNext DEF Abstract!Report
  <2> QED
    BY <2>2 DEF SessionStep, Abstract!SessionNext
<1>10. CASE Drops
  <2>1. srv'.ctrl = None /\ srv'.streams = {}
    BY <1>10 DEF Drops
  <2>2. CASE srv.ctrl = None
    <3>1. srv.streams = {}
      BY <1>0, <2>2 DEF StageInv
    <3> QED
      BY <2>1, <2>2, <3>1, PhaseOf, PhaseOfNext DEF SessionStep
  <2>3. CASE srv.ctrl # None
    <3>1. Abstract!Release
      BY <1>1, <2>1, <2>3, PhaseOfNext DEF Abstract!Release
    <3> QED
      BY <3>1 DEF SessionStep, Abstract!SessionNext
  <2> QED
    BY <2>2, <2>3
<1> QED
  BY <1>2, <1>3, <1>4, <1>5, <1>6, <1>7, <1>8, <1>9, <1>10 DEF ServerEffect

\* The refinement, for any number of clients and streams: seen from outside, the
\* server serves one connection at a time, takes each test through its phases in
\* order, and starts the transfer with exactly the streams asked for, although
\* it checks neither the order of the messages it reads nor who is alive.
THEOREM ServerImplementsSession == Spec => ImplementsSession
<1>1. Init => Abstract!SessionInit
  <2> SUFFICES ASSUME Init PROVE Abstract!SessionInit
    OBVIOUS
  <2>1. srv.ctrl = None /\ srv.streams = {}
    BY DEF Init
  <2>2. Cardinality({}) = 0
    BY FS_EmptySet
  <2> QED
    BY <2>1, <2>2, PhaseOf DEF Abstract!SessionInit
<1>2. ProtocolInv /\ [Next]_vars => [Abstract!SessionNext]_Abstract!sessionVars
  <2> SUFFICES ASSUME ProtocolInv, [Next]_vars
               PROVE  [Abstract!SessionNext]_Abstract!sessionVars
    OBVIOUS
  <2>1. CASE ServerStep \/ ServerSigend
    <3>1. ServerEffect
      BY <2>1, ServerCases DEF ProtocolInv
    <3> QED
      BY <3>1, SessionServer DEF SessionStep, Abstract!sessionVars
  <2>2. CASE UNCHANGED srv
    <3>1. Phase' = Phase
      BY <2>2 DEF Phase
    <3> QED
      BY <2>2, <3>1 DEF Abstract!sessionVars
  <2>3. ASSUME NEW c \in Clients,
               Connect(c) \/ ClientStep(c) \/ ClientSigend(c) \/ ClientKilled(c)
        PROVE  UNCHANGED srv
    BY <2>3, ClientCases DEF ProtocolInv, ClientEffect, OthersSame
  <2> QED
    BY <2>1, <2>2, <2>3 DEF Next, vars
<1> QED
  BY <1>1, <1>2, ProtocolInit, ProtocolNext, PTL DEF Spec, ImplementsSession, Abstract!Session
=============================================================================
