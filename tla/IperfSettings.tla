--------------------------- MODULE IperfSettings ---------------------------
(***************************************************************************)
(* The settings of iperf3's tests: what iperf_parse_arguments makes of a   *)
(* command line, what send_parameters tells the server of it, what         *)
(* get_parameters leaves in the server's test and what iperf_reset_test    *)
(* takes out again before the next client (iperf_api.c, main.c).           *)
(*                                                                         *)
(* One server serves clients one after the other; each process parses its  *)
(* command line option by option, in any order. A test is what the code    *)
(* keeps in struct iperf_test and its settings: the role, whether this     *)
(* side sends, whether it counts retransmits, and one value per setting.   *)
(* A setting that is a string or a switch has a few values that stand for  *)
(* all others; numbers are those of the code.                              *)
(***************************************************************************)
EXTENDS Integers

CONSTANTS
    ServerOptions,  \* options the server may be started with
    ClientOptions,  \* options a client may be started with
    MaxOptions,     \* bound: options on one command line
    RepeatR,        \* may -R be given twice
    HasTcpInfo,     \* has_tcpinfo_retransmits()
    HasSendfile,    \* has_sendfile()
    None            \* "no second number" in an argument, "no document"

VARIABLES
    srv,    \* the server process: its phase, its test, the locals of its parser
    cli,    \* the client being served, likewise
    link,   \* idle, sent (parameters on their way), agreed
    doc     \* the JSON object of the parameters

vars == <<srv, cli, link, doc>>

-----------------------------------------------------------------------------
(* Settings and their defaults: iperf_new_test and iperf_defaults. *)

MB == 1024 * 1024
DEFAULT_TCP_BLKSIZE == 128 * 1024
MAX_BLOCKSIZE == MB
UDP_RATE == MB

Default ==
    [protocol |-> "tcp", omit |-> 0, server_affinity |-> -1, duration |-> 10,
     bytes |-> 0, blocks |-> 0, mss |-> 0, no_delay |-> 0, num_streams |-> 1,
     reverse |-> 0, socket_bufsize |-> 0, blksize |-> DEFAULT_TCP_BLKSIZE,
     rate |-> 0, burst |-> 0, tos |-> 0, flowlabel |-> 0, title |-> 0,
     congestion |-> 0,
     bind_address |-> 0, affinity |-> -1, server_port |-> 5201, unit_format |-> "a",
     interval |-> 100, daemon |-> 0, verbose |-> 0, json_output |-> 0,
     domain |-> 0, zerocopy |-> 0, diskfile_name |-> 0, debug |-> 0, pidfile |-> 0]

Settings == DOMAIN Default

\* Settings that never leave their process.
Local == {"bind_address", "affinity", "server_port", "unit_format", "interval",
          "daemon", "verbose", "json_output", "domain", "zerocopy",
          "diskfile_name", "debug", "pidfile"}
Exchanged == Settings \ Local

NewTest == [role |-> "none", sender |-> FALSE, retransmits |-> FALSE, val |-> Default]

\* check_sender_has_retransmits
Recheck(t) ==
    [t EXCEPT !.retransmits = t.sender /\ t.val.protocol = "tcp" /\ HasTcpInfo]

SetProtocol(t, p) == Recheck([t EXCEPT !.val.protocol = p])

\* Mutant: iperf_set_test_role does not look at -R given before it.
SetRoleForgetsReverse(t, r) ==
    Recheck([t EXCEPT !.role = r, !.sender = (r = "c")])

\* iperf_set_test_role
SetRole(t, r) ==
    Recheck([t EXCEPT !.role = r, !.sender = ((r = "c") # (t.val.reverse = 1))])

\* Mutant: iperf_set_test_reverse leaves the retransmit flag alone.
SetReverseOnly(t) == [t EXCEPT !.val.reverse = 1, !.sender = ~t.sender]

\* iperf_set_test_reverse: each call turns the direction round.
SetReverse(t) == Recheck([t EXCEPT !.val.reverse = 1, !.sender = ~t.sender])

Set(t, s, v) == [t EXCEPT !.val = [@ EXCEPT ![s] = v]]

-----------------------------------------------------------------------------
(* iperf_parse_arguments. An option is a flag, its argument and the number *)
(* after a slash (-b) or a comma (-A), or None.                            *)

Opt(flag, arg, more) == [flag |-> flag, arg |-> arg, more |-> more]

SettingOf ==
    [p |-> "server_port", f |-> "unit_format", i |-> "interval", D |-> "daemon",
     V |-> "verbose", J |-> "json_output", b |-> "rate", t |-> "duration",
     n |-> "bytes", k |-> "blocks", P |-> "num_streams", w |-> "socket_bufsize",
     B |-> "bind_address", M |-> "mss", N |-> "no_delay", v4 |-> "domain",
     S |-> "tos", L |-> "flowlabel", Z |-> "zerocopy", O |-> "omit",
     F |-> "diskfile_name", A |-> "affinity", T |-> "title", C |-> "congestion",
     d |-> "debug", I |-> "pidfile"]

\* What the second number of an argument sets.
SecondOf == [b |-> "burst", A |-> "server_affinity"]

Most == [i |-> 6000, t |-> 3600, P |-> 128, w |-> 512 * MB, M |-> 9 * 1024,
         L |-> 1048575, O |-> 60, A |-> 1024]
Least == [i |-> 10, L |-> 1, O |-> 0, A |-> 0]
SecondRange == [b |-> 1 .. 1000, A |-> 0 .. 1024]

ServerFlags == {"D", "I"}
ClientFlags == {"u", "sctp", "b", "t", "n", "k", "l", "P", "R", "w", "M", "N", "S",
                "L", "Z", "O", "T", "C"}

\* An option is one of getopt_long's, and only -b and -A have a second number.
ASSUME OptionsAssumption ==
    \A o \in ServerOptions \cup ClientOptions :
        /\ o.flag \in DOMAIN SettingOf \cup {"s", "c", "u", "sctp", "R", "l", "v", "h"}
        /\ o.more # None => o.flag \in DOMAIN SecondOf

\* The option is refused at once: out of range, not in this build, both roles, or -v
\* and -h.
Refused(t, o) ==
    \/ o.flag \in {"v", "h"}
    \/ o.flag \in DOMAIN Most /\ o.arg > Most[o.flag]
    \/ /\ o.flag \in DOMAIN Least /\ o.arg < Least[o.flag]
       /\ ~(o.flag = "i" /\ o.arg = 0)
    \/ o.more # None /\ o.more \notin SecondRange[o.flag]
    \/ o.flag = "Z" /\ ~HasSendfile
    \/ o.flag = "s" /\ t.role = "c"
    \/ o.flag = "c" /\ t.role = "s"

\* The option's effect on the test.
Applied(t, o) ==
    CASE o.flag = "s"    -> SetRole(t, "s")
      [] o.flag = "c"    -> SetRole(t, "c")
      [] o.flag = "u"    -> SetProtocol(t, "udp")
      [] o.flag = "sctp" -> SetProtocol(t, "sctp")
      [] o.flag = "R"    -> SetReverse(t)
      [] o.flag = "l"    -> t
      [] OTHER           ->
           LET one == Set(t, SettingOf[o.flag], o.arg)
           IN  IF o.more = None THEN one ELSE Set(one, SecondOf[o.flag], o.more)

\* The locals of the parser, and a process before it has looked at its first option.
NoFlags == [server |-> FALSE, client |-> FALSE, rate |-> FALSE, duration |-> FALSE,
            blksize |-> 0]
Started == [phase |-> "parsing", left |-> MaxOptions, test |-> NewTest, flag |-> NoFlags]
Gone == [phase |-> "gone", left |-> 0, test |-> NewTest, flag |-> NoFlags]

\* One turn of the getopt_long loop.
Parsed(p, o) ==
    IF Refused(p.test, o) THEN Gone
    ELSE [p EXCEPT
            !.left = p.left - 1,
            !.test = Applied(p.test, o),
            !.flag = [server   |-> @.server \/ o.flag \in ServerFlags,
                      client   |-> \/ @.client \/ o.flag \in ClientFlags
                                   \/ o.flag = "A" /\ o.more # None,
                      rate     |-> @.rate \/ o.flag = "b",
                      duration |-> @.duration \/ o.flag = "t",
                      blksize  |-> IF o.flag = "l" THEN o.arg ELSE @.blksize]]

BlockSize(p) ==
    IF p.flag.blksize # 0 THEN p.flag.blksize
    ELSE CASE p.test.val.protocol = "udp"  -> 8 * 1024
           [] p.test.val.protocol = "sctp" -> 64 * 1024
           [] OTHER                        -> DEFAULT_TCP_BLKSIZE

\* Mutant: an end condition given twice is not refused.
RejectedButForEnds(p) ==
    \/ p.test.role = "c" /\ p.flag.server
    \/ p.test.role = "s" /\ p.flag.client
    \/ BlockSize(p) <= 0 \/ BlockSize(p) > MAX_BLOCKSIZE
    \/ p.test.role = "none"

\* The checks after the loop: the command line as a whole is refused.
Rejected(p) ==
    \/ p.test.role = "c" /\ p.flag.server
    \/ p.test.role = "s" /\ p.flag.client
    \/ BlockSize(p) <= 0 \/ BlockSize(p) > MAX_BLOCKSIZE
    \/ p.flag.duration /\ p.test.val.bytes # 0
    \/ p.flag.duration /\ p.test.val.blocks # 0
    \/ p.test.val.bytes # 0 /\ p.test.val.blocks # 0
    \/ p.test.role = "none"

\* What the code after the loop fills in.
Completed(p) ==
    LET v    == p.test.val
        rate == IF p.flag.rate THEN v.rate
                ELSE IF v.protocol = "udp" THEN UDP_RATE ELSE 0
        ends == v.bytes # 0 \/ v.blocks # 0
    IN  [p EXCEPT !.phase = "running", !.left = 0, !.flag = NoFlags,
                  !.test.val = [v EXCEPT !.blksize = BlockSize(p), !.rate = rate,
                                         !.duration = IF ends /\ ~p.flag.duration
                                                      THEN 0 ELSE @]]

Finished(p) == IF Rejected(p) THEN Gone ELSE Completed(p)

-----------------------------------------------------------------------------
(* send_parameters, get_parameters and iperf_reset_test. *)

\* The value for which send_parameters leaves a setting out.
Unset == [server_affinity |-> -1, duration |-> 0, bytes |-> 0, blocks |-> 0,
          mss |-> 0, no_delay |-> 0, reverse |-> 0, socket_bufsize |-> 0,
          blksize |-> 0, rate |-> 0, burst |-> 0, tos |-> 0, flowlabel |-> 0,
          title |-> 0, congestion |-> 0]

SendsAlways == {"protocol", "omit", "num_streams"}

Parameters(t) ==
    [s \in {x \in Exchanged : x \in SendsAlways \/ t.val[x] # Unset[x]} |-> t.val[s]]

\* get_parameters. What is not in the document stays as it is.
Taken(t, d) ==
    LET t1 == SetProtocol(t, d.protocol)
        t2 == [t1 EXCEPT !.val = [s \in Settings |->
                    IF s \in DOMAIN d \ {"reverse"} THEN d[s] ELSE t1.val[s]]]
        t3 == IF "reverse" \in DOMAIN d THEN SetReverse(t2) ELSE t2
    IN  [t3 EXCEPT !.retransmits =
            @ \/ (t3.sender /\ t3.val.protocol = "tcp" /\ HasTcpInfo)]

\* What iperf_reset_test puts back to its default between two tests.
ResetSettings ==
    (Exchanged \ {"bytes", "blocks", "tos", "flowlabel"}) \cup {"bind_address"}

\* Mutant: the segment size survives the reset.
ResetKeepsMss(t) ==
    [t EXCEPT !.role = "s", !.sender = FALSE, !.retransmits = FALSE,
              !.val = [s \in Settings |->
                  IF s \in ResetSettings \ {"mss"} THEN Default[s] ELSE t.val[s]]]

\* iperf_reset_test
Reset(t) ==
    [t EXCEPT !.role = "s", !.sender = FALSE, !.retransmits = FALSE,
              !.val = [s \in Settings |->
                  IF s \in ResetSettings THEN Default[s] ELSE t.val[s]]]

-----------------------------------------------------------------------------
Init ==
    /\ srv = Started
    /\ cli = Gone
    /\ link = "idle"
    /\ doc = None

\* -R given once only, where RepeatR is FALSE.
Once(t, o) == RepeatR \/ o.flag # "R" \/ t.val.reverse = 0

ParseServerOption ==
    /\ srv.phase = "parsing" /\ srv.left > 0
    /\ \E o \in ServerOptions : Once(srv.test, o) /\ srv' = Parsed(srv, o)
    /\ UNCHANGED <<cli, link, doc>>

\* main: the server's arguments end.
ServerStarts ==
    /\ srv.phase = "parsing"
    /\ srv' = Finished(srv)
    /\ UNCHANGED <<cli, link, doc>>

Serving == srv.phase = "running" /\ srv.test.role = "s"

LaunchClient ==
    /\ Serving /\ cli.phase = "gone"
    /\ cli' = Started
    /\ UNCHANGED <<srv, link, doc>>

ParseClientOption ==
    /\ cli.phase = "parsing" /\ cli.left > 0
    /\ \E o \in ClientOptions : Once(cli.test, o) /\ cli' = Parsed(cli, o)
    /\ UNCHANGED <<srv, link, doc>>

\* A command line that makes a second server ends up outside this model.
ClientStarts ==
    /\ cli.phase = "parsing"
    /\ cli' = IF cli.test.role = "s" THEN Gone ELSE Finished(cli)
    /\ UNCHANGED <<srv, link, doc>>

SendParameters ==
    /\ cli.phase = "running" /\ link = "idle"
    /\ doc' = Parameters(cli.test)
    /\ link' = "sent"
    /\ UNCHANGED <<srv, cli>>

GetParameters ==
    /\ link = "sent"
    /\ srv' = [srv EXCEPT !.test = Taken(srv.test, doc)]
    /\ link' = "agreed"
    /\ UNCHANGED <<cli, doc>>

\* iperf_run_server returns, after the test or because the parameters did not
\* arrive; main resets the test and the next turn listens again.
NextTest ==
    /\ cli.phase = "running"
    /\ srv' = [srv EXCEPT !.test = Reset(srv.test)]
    /\ cli' = Gone
    /\ link' = "idle"
    /\ doc' = None

Next ==
    \/ ParseServerOption \/ ServerStarts \/ LaunchClient \/ ParseClientOption
    \/ ClientStarts \/ SendParameters \/ GetParameters \/ NextTest

Spec == Init /\ [][Next]_vars

-----------------------------------------------------------------------------
(* Properties. *)

Running(p) == p.phase = "running"

\* Settings whose absence from the document means their default.
Resettable == (Exchanged \cap ResetSettings) \ {"duration"}

\* When the server has taken a client's parameters, it runs the test with that
\* client's settings and with nothing of the tests before: every setting that
\* iperf_reset_test clears has the client's value, given or not. -n, -k, -S and
\* -L are not cleared, and are the client's where the client gave them; the
\* duration, which is not sent when it is zero, is then the default.
SettingsAgree ==
    link = "agreed" =>
        LET c == cli.test.val
            s == srv.test.val
        IN  /\ \A x \in Resettable : s[x] = c[x]
            /\ \A x \in Exchanged \ ResetSettings : c[x] # Unset[x] => s[x] = c[x]
            /\ s.duration = IF c.duration = 0 THEN Default.duration ELSE c.duration

\* Once the two sides have agreed, exactly one of them sends, in whatever order
\* -c and -R were given ("client & !reverse or server & reverse", iperf.h).
OneSender ==
    link = "agreed" => cli.test.sender # srv.test.sender

\* A side counts retransmits exactly when it sends over TCP and the kernel tells,
\* whatever the order in which role, direction and protocol were set.
RetransmitsKnown ==
    \A p \in {cli, srv} :
        Running(p) => p.test.retransmits =
                        (p.test.sender /\ p.test.val.protocol = "tcp" /\ HasTcpInfo)

\* A client that starts has at most one condition that ends its test, and the
\* default duration gives way to -n and -k.
OneEnd ==
    Running(cli) =>
        LET v == cli.test.val
        IN  \A x, y \in {"duration", "bytes", "blocks"} :
                v[x] # 0 /\ v[y] # 0 => x = y
=============================================================================
