------------------------ MODULE IperfSettingsProofs ------------------------
(***************************************************************************)
(* What IperfSettings promises holds for every set of options, command     *)
(* lines of any length and any number of clients.                          *)
(***************************************************************************)
EXTENDS IperfSettings, TLAPS

-----------------------------------------------------------------------------
(* The tables. *)

\* The settings the proofs name, and where they belong.
LEMMA Named ==
    /\ Exchanged \subseteq Settings /\ ResetSettings \subseteq Settings
    /\ {"protocol", "reverse", "blksize", "rate", "duration"}
           \subseteq Exchanged \cap ResetSettings
    /\ {"bytes", "blocks"} \subseteq Exchanged
    /\ SendsAlways \subseteq Exchanged
    /\ "reverse" \notin SendsAlways /\ "blksize" \notin SendsAlways
    /\ "duration" \notin SendsAlways /\ "protocol" \in SendsAlways
<1>1. Settings = {"protocol", "omit", "server_affinity", "duration", "bytes", "blocks", "mss",
                  "no_delay", "num_streams", "reverse", "socket_bufsize", "blksize", "rate",
                  "burst", "tos", "flowlabel", "title", "congestion", "bind_address",
                  "affinity", "server_port", "unit_format", "interval", "daemon", "verbose",
                  "json_output", "domain", "zerocopy", "diskfile_name", "debug", "pidfile"}
  BY DEF Settings, Default
<1>2. Exchanged = {"protocol", "omit", "server_affinity", "duration", "bytes", "blocks", "mss",
                   "no_delay", "num_streams", "reverse", "socket_bufsize", "blksize", "rate",
                   "burst", "tos", "flowlabel", "title", "congestion"}
  BY <1>1 DEF Exchanged, Local
<1> QED  BY <1>1, <1>2 DEF ResetSettings, SendsAlways

LEMMA Defaults ==
    /\ DOMAIN Default = Settings
    /\ Default.protocol = "tcp" /\ Default.reverse = 0 /\ Default.rate = 0
    /\ Default.duration = 10 /\ Default.blksize = DEFAULT_TCP_BLKSIZE
    /\ Default.bytes = 0 /\ Default.blocks = 0
BY DEF Default, Settings

\* A setting that is not sent has its default, but for the block size.
LEMMA UnsetIsDefault ==
    ASSUME NEW x \in Resettable \ SendsAlways, x # "blksize"
    PROVE  Unset[x] = Default[x]
<1>1. x \in {"server_affinity", "mss", "no_delay", "reverse", "socket_bufsize", "rate", "burst",
             "title", "congestion"}
  <2>1. Resettable \subseteq {"protocol", "omit", "server_affinity", "mss", "no_delay",
                              "num_streams", "reverse", "socket_bufsize", "blksize", "rate",
                              "burst", "title", "congestion"}
    BY DEF Resettable, ResetSettings, Exchanged, Settings, Local, Default
  <2> QED  BY <2>1 DEF SendsAlways
<1> QED  BY <1>1 DEF Unset, Default

LEMMA UnsetValues ==
    Unset["reverse"] = 0 /\ Unset["blksize"] = 0 /\ Unset["duration"] = 0
BY DEF Unset

\* What an option sets; without a client's option nothing that is exchanged.
LEMMA OptionSets ==
    ASSUME NEW f \in DOMAIN SettingOf
    PROVE  /\ SettingOf[f] \in Settings \ {"reverse", "protocol"}
           /\ f \notin ClientFlags => SettingOf[f] \notin Exchanged
<1>1. f \in {"p", "f", "i", "D", "V", "J", "b", "t", "n", "k", "P", "w", "B", "M", "N", "v4",
             "S", "L", "Z", "O", "F", "A", "T", "C", "d", "I"}
  BY DEF SettingOf
<1>2. CASE f \in {"b", "t", "n", "k", "P", "w", "M", "N", "S", "L", "Z", "O", "T", "C"}
  <2>1. f \in ClientFlags
    BY <1>2 DEF ClientFlags
  <2>2. SettingOf[f] \in {"rate", "duration", "bytes", "blocks", "num_streams",
                          "socket_bufsize", "mss", "no_delay", "tos", "flowlabel",
                          "zerocopy", "omit", "title", "congestion"}
    BY <1>2 DEF SettingOf
  <2> QED  BY <2>1, <2>2 DEF Settings, Default
<1>3. CASE f \in {"p", "f", "i", "D", "V", "J", "B", "v4", "F", "A", "d", "I"}
  <2>1. SettingOf[f] \in {"server_port", "unit_format", "interval", "daemon", "verbose",
                          "json_output", "bind_address", "domain", "diskfile_name",
                          "affinity", "debug", "pidfile"}
    BY <1>3 DEF SettingOf
  <2> QED  BY <2>1 DEF Settings, Default, Exchanged, Local
<1> QED  BY <1>1, <1>2, <1>3

LEMMA SecondSets ==
    ASSUME NEW f \in DOMAIN SecondOf
    PROVE  SecondOf[f] \in Settings \ {"reverse", "protocol"} /\ f \in {"b", "A"}
<1>1. f \in {"b", "A"}
  BY DEF SecondOf
<1>2. SecondOf[f] \in {"burst", "server_affinity"}
  BY <1>1 DEF SecondOf
<1> QED  BY <1>1, <1>2 DEF Settings, Default

-----------------------------------------------------------------------------
(* The operations on a test. *)

Roles == {"none", "c", "s"}

\* A test in memory: its retransmit flag follows from the rest, and so does its
\* direction if -R is never repeated.
IsTest(t) ==
    /\ DOMAIN t = {"role", "sender", "retransmits", "val"}
    /\ DOMAIN t.val = Settings
    /\ t.role \in Roles /\ t.sender \in BOOLEAN /\ t.val.reverse \in {0, 1}
    /\ t.retransmits = (t.sender /\ t.val.protocol = "tcp" /\ HasTcpInfo)
    /\ ~RepeatR => t.sender = ((t.role = "c") # (t.val.reverse = 1))

LEMMA NewIsTest == IsTest(NewTest)
<1>1. /\ DOMAIN NewTest = {"role", "sender", "retransmits", "val"} /\ NewTest.val = Default
      /\ NewTest.role = "none" /\ NewTest.sender = FALSE /\ NewTest.retransmits = FALSE
  BY DEF NewTest
<1>2. DOMAIN NewTest.val = Settings /\ NewTest.val.reverse = 0
  BY <1>1, Defaults
<1>3. NewTest.role # "c" /\ NewTest.val.reverse # 1
  BY <1>1, <1>2
<1>4. NewTest.sender = ((NewTest.role = "c") # (NewTest.val.reverse = 1))
  BY <1>1, <1>3
<1>5. NewTest.retransmits = (NewTest.sender /\ NewTest.val.protocol = "tcp" /\ HasTcpInfo)
  BY <1>1
<1> QED  BY <1>1, <1>2, <1>4, <1>5 DEF IsTest, Roles

LEMMA SetProtocolIsTest ==
    ASSUME NEW t, IsTest(t), NEW p
    PROVE  /\ IsTest(SetProtocol(t, p))
           /\ SetProtocol(t, p).role = t.role /\ SetProtocol(t, p).sender = t.sender
           /\ SetProtocol(t, p).val = [t.val EXCEPT !.protocol = p]
<1> DEFINE u == [t EXCEPT !.val.protocol = p]
<1>1. /\ DOMAIN u = DOMAIN t /\ u.role = t.role /\ u.sender = t.sender
      /\ u.val = [t.val EXCEPT !.protocol = p]
  BY DEF IsTest
<1>2. DOMAIN u.val = Settings /\ u.val.reverse = t.val.reverse
  BY <1>1, Named DEF IsTest
<1>3. SetProtocol(t, p) = [u EXCEPT !.retransmits =
          u.sender /\ u.val.protocol = "tcp" /\ HasTcpInfo]
  BY DEF SetProtocol, Recheck
<1> HIDE DEF u
<1> QED  BY <1>1, <1>2, <1>3 DEF IsTest

LEMMA SetRoleIsTest ==
    ASSUME NEW t, IsTest(t), NEW r \in {"c", "s"}
    PROVE  /\ IsTest(SetRole(t, r))
           /\ SetRole(t, r).role = r /\ SetRole(t, r).val = t.val
<1> DEFINE u == [t EXCEPT !.role = r, !.sender = ((r = "c") # (t.val.reverse = 1))]
<1>1. /\ DOMAIN u = DOMAIN t /\ u.role = r /\ u.val = t.val
      /\ u.sender = ((r = "c") # (t.val.reverse = 1))
  BY DEF IsTest
<1>2. SetRole(t, r) = [u EXCEPT !.retransmits =
          u.sender /\ u.val.protocol = "tcp" /\ HasTcpInfo]
  BY DEF SetRole, Recheck
<1> HIDE DEF u
<1> QED  BY <1>1, <1>2 DEF IsTest, Roles

\* The direction turns; that is right if it was not turned before.
LEMMA SetReverseIsTest ==
    ASSUME NEW t, IsTest(t), RepeatR \/ t.val.reverse = 0
    PROVE  /\ IsTest(SetReverse(t)) /\ SetReverse(t).role = t.role
           /\ SetReverse(t).val = [t.val EXCEPT !.reverse = 1]
<1> DEFINE u == [t EXCEPT !.val.reverse = 1, !.sender = ~t.sender]
<1>1. /\ DOMAIN u = DOMAIN t /\ u.role = t.role /\ u.sender = ~t.sender
      /\ u.val = [t.val EXCEPT !.reverse = 1]
  BY DEF IsTest
<1>2. DOMAIN u.val = Settings /\ u.val.reverse = 1
  BY <1>1, Named DEF IsTest
<1>3. SetReverse(t) = [u EXCEPT !.retransmits =
          u.sender /\ u.val.protocol = "tcp" /\ HasTcpInfo]
  BY DEF SetReverse, Recheck
<1>4. ~RepeatR => u.sender = ((u.role = "c") # (u.val.reverse = 1))
  BY <1>1, <1>2 DEF IsTest
<1> HIDE DEF u
<1> QED  BY <1>1, <1>2, <1>3, <1>4 DEF IsTest

LEMMA SetIsTest ==
    ASSUME NEW t, IsTest(t), NEW x \in Settings \ {"reverse", "protocol"}, NEW v
    PROVE  /\ IsTest(Set(t, x, v)) /\ Set(t, x, v).role = t.role
           /\ Set(t, x, v).val = [t.val EXCEPT ![x] = v]
<1> DEFINE u == Set(t, x, v)
<1>1. /\ DOMAIN u = DOMAIN t /\ u.role = t.role /\ u.sender = t.sender
      /\ u.retransmits = t.retransmits /\ u.val = [t.val EXCEPT ![x] = v]
  BY DEF Set, IsTest
<1>2. DOMAIN u.val = Settings /\ u.val.reverse = t.val.reverse
      /\ u.val.protocol = t.val.protocol
  BY <1>1, Named DEF IsTest
<1>3. IsTest(u)
  <2> HIDE DEF u
  <2> QED  BY <1>1, <1>2 DEF IsTest
<1> QED  BY <1>1, <1>3

-----------------------------------------------------------------------------
(* The parser. *)

Options == ServerOptions \cup ClientOptions

\* The option sets client_flag.
ForClients(o) == o.flag \in ClientFlags \/ (o.flag = "A" /\ o.more # None)

LEMMA AppliedIsTest ==
    ASSUME NEW o \in Options, NEW t, IsTest(t), Once(t, o), ~Refused(t, o)
    PROVE  /\ IsTest(Applied(t, o))
           /\ ~ForClients(o) => \A x \in Exchanged : Applied(t, o).val[x] = t.val[x]
<1>1. /\ o.flag \in DOMAIN SettingOf \cup {"s", "c", "u", "sctp", "R", "l"}
      /\ o.more # None => o.flag \in DOMAIN SecondOf
  BY OptionsAssumption DEF Options, Refused
<1>2. CASE o.flag = "s" \/ o.flag = "c"
  <2>1. PICK r \in {"c", "s"} : Applied(t, o) = SetRole(t, r)
    BY <1>2 DEF Applied
  <2>2. IsTest(SetRole(t, r)) /\ SetRole(t, r).val = t.val
    BY SetRoleIsTest
  <2> QED  BY <2>1, <2>2
<1>3. CASE o.flag = "u" \/ o.flag = "sctp"
  <2>1. PICK p \in {"udp", "sctp"} : Applied(t, o) = SetProtocol(t, p)
    BY <1>3 DEF Applied
  <2>2. ForClients(o)
    BY <1>3 DEF ForClients, ClientFlags
  <2>3. IsTest(SetProtocol(t, p))
    BY SetProtocolIsTest
  <2> QED  BY <2>1, <2>2, <2>3
<1>4. CASE o.flag = "R"
  <2>1. Applied(t, o) = SetReverse(t) /\ (RepeatR \/ t.val.reverse = 0)
    BY <1>4 DEF Applied, Once
  <2>2. ForClients(o)
    BY <1>4 DEF ForClients, ClientFlags
  <2> QED  BY <2>1, <2>2, SetReverseIsTest
<1>5. CASE o.flag = "l"
  BY <1>5 DEF Applied
<1>6. CASE o.flag \notin {"s", "c", "u", "sctp", "R", "l"}
  <2> DEFINE x == SettingOf[o.flag]
             one == Set(t, x, o.arg)
  <2>1. /\ x \in Settings \ {"reverse", "protocol"}
        /\ o.flag \notin ClientFlags => x \notin Exchanged
    BY <1>1, <1>6, OptionSets
  <2>2. Applied(t, o) = IF o.more = None THEN one ELSE Set(one, SecondOf[o.flag], o.more)
    BY <1>6 DEF Applied
  <2> HIDE DEF x
  <2>3. IsTest(one) /\ one.val = [t.val EXCEPT ![x] = o.arg]
    BY <2>1, SetIsTest
  <2>4. CASE o.more = None
    <3>1. ~ForClients(o) => \A y \in Exchanged : one.val[y] = t.val[y]
      BY <2>1, <2>3, Named DEF ForClients, IsTest
    <3> QED  BY <2>2, <2>3, <2>4, <3>1
  <2>5. CASE o.more # None
    <3> HIDE DEF one
    <3>1. SecondOf[o.flag] \in Settings \ {"reverse", "protocol"} /\ o.flag \in {"b", "A"}
      BY <1>1, <2>5, SecondSets
    <3>2. ForClients(o)
      BY <2>5, <3>1 DEF ForClients, ClientFlags
    <3>3. IsTest(Set(one, SecondOf[o.flag], o.more))
      BY <2>3, <3>1, SetIsTest
    <3> QED  BY <2>2, <2>5, <3>2, <3>3
  <2> QED  BY <2>4, <2>5
<1> QED  BY <1>2, <1>3, <1>4, <1>5, <1>6

\* A process: as long as no client's option was met, what is exchanged has its
\* default.
IsProc(p) ==
    /\ DOMAIN p = {"phase", "left", "test", "flag"}
    /\ p.phase \in {"parsing", "running", "gone"}
    /\ IsTest(p.test)
    /\ p.phase = "parsing" /\ ~p.flag.client =>
        /\ \A x \in Exchanged : p.test.val[x] = Default[x]
        /\ ~p.flag.rate /\ ~p.flag.duration /\ p.flag.blksize = 0

LEMMA StartedIsProc == IsProc(Started) /\ Started.phase = "parsing"
<1>1. NewTest.val = Default
  BY DEF NewTest
<1>2. /\ DOMAIN Started = {"phase", "left", "test", "flag"} /\ Started.phase = "parsing"
      /\ Started.test = NewTest /\ Started.flag = NoFlags
  BY DEF Started
<1>3. ~NoFlags.rate /\ ~NoFlags.duration /\ NoFlags.blksize = 0
  BY DEF NoFlags
<1> QED  BY <1>1, <1>2, <1>3, NewIsTest DEF IsProc

LEMMA GoneIsProc == IsProc(Gone) /\ Gone.phase = "gone"
<1>1. /\ DOMAIN Gone = {"phase", "left", "test", "flag"} /\ Gone.phase = "gone"
      /\ Gone.test = NewTest
  BY DEF Gone
<1> QED  BY <1>1, NewIsTest DEF IsProc

LEMMA ParsedIsProc ==
    ASSUME NEW p, IsProc(p), p.phase = "parsing", NEW o \in Options, Once(p.test, o)
    PROVE  IsProc(Parsed(p, o)) /\ Parsed(p, o).phase \in {"parsing", "gone"}
<1> DEFINE q == Parsed(p, o)
<1>1. CASE Refused(p.test, o)
  BY <1>1, GoneIsProc DEF Parsed
<1>2. CASE ~Refused(p.test, o)
  <2> DEFINE g == [server   |-> p.flag.server \/ o.flag \in ServerFlags,
                   client   |-> \/ p.flag.client \/ o.flag \in ClientFlags
                                \/ o.flag = "A" /\ o.more # None,
                   rate     |-> p.flag.rate \/ o.flag = "b",
                   duration |-> p.flag.duration \/ o.flag = "t",
                   blksize  |-> IF o.flag = "l" THEN o.arg ELSE p.flag.blksize]
  <2>a. /\ g.client <=> (p.flag.client \/ ForClients(o))
        /\ g.rate <=> (p.flag.rate \/ o.flag = "b")
        /\ g.duration <=> (p.flag.duration \/ o.flag = "t")
        /\ g.blksize = IF o.flag = "l" THEN o.arg ELSE p.flag.blksize
    BY DEF ForClients
  <2>b. q = [p EXCEPT !.left = p.left - 1, !.test = Applied(p.test, o), !.flag = g]
    BY <1>2 DEF Parsed
  <2> HIDE DEF q, g
  <2>1. /\ DOMAIN q = DOMAIN p /\ q.phase = "parsing" /\ q.test = Applied(p.test, o)
        /\ q.flag = g
    BY <2>b DEF IsProc
  <2>2. /\ IsTest(q.test)
        /\ ~ForClients(o) => \A x \in Exchanged : q.test.val[x] = p.test.val[x]
    BY <1>2, <2>1, AppliedIsTest DEF IsProc
  <2>3. ASSUME ~q.flag.client
        PROVE  /\ \A x \in Exchanged : q.test.val[x] = Default[x]
               /\ ~q.flag.rate /\ ~q.flag.duration /\ q.flag.blksize = 0
    <3>1. ~p.flag.client /\ ~ForClients(o)
      BY <2>a, <2>1, <2>3
    <3>2. o.flag \notin {"b", "t", "l"}
      BY <3>1 DEF ForClients, ClientFlags
    <3>3. /\ \A x \in Exchanged : p.test.val[x] = Default[x]
          /\ ~p.flag.rate /\ ~p.flag.duration /\ p.flag.blksize = 0
      BY <3>1 DEF IsProc
    <3> QED  BY <2>a, <2>1, <2>2, <3>1, <3>2, <3>3
  <2>4. IsProc(q)
    BY <2>1, <2>2, <2>3 DEF IsProc
  <2> QED  BY <2>1, <2>4 DEF q
<1> QED  BY <1>1, <1>2

\* A server's test as iperf_defaults or iperf_reset_test leaves it.
Cleared(t) == \A x \in Exchanged \cap ResetSettings : t.val[x] = Default[x]

\* At most one end condition among the settings v.
EndsOnce(v) ==
    \A x, y \in {"duration", "bytes", "blocks"} : v[x] # 0 /\ v[y] # 0 => x = y

LEMMA CompletedIsTest ==
    ASSUME NEW p, IsProc(p), p.phase = "parsing", ~Rejected(p)
    PROVE  /\ IsProc(Completed(p)) /\ Completed(p).phase = "running"
           /\ Completed(p).test.role = p.test.role /\ p.test.role \in {"c", "s"}
           /\ Completed(p).test.val.blksize # 0
           /\ EndsOnce(Completed(p).test.val)
           /\ p.test.role = "s" => Cleared(Completed(p).test)
<1> DEFINE v == p.test.val
           rate == IF p.flag.rate THEN v.rate
                   ELSE IF v.protocol = "udp" THEN UDP_RATE ELSE 0
           ends == v.bytes # 0 \/ v.blocks # 0
           dur == IF ends /\ ~p.flag.duration THEN 0 ELSE v.duration
           w == [v EXCEPT !.blksize = BlockSize(p), !.rate = rate, !.duration = dur]
           u == [p.test EXCEPT !.val = w]
           q == Completed(p)
<1>1. DOMAIN v = Settings /\ IsTest(p.test)
  BY DEF IsProc, IsTest
<1>2. /\ DOMAIN w = Settings /\ w.blksize = BlockSize(p) /\ w.rate = rate /\ w.duration = dur
      /\ \A x \in Settings \ {"blksize", "rate", "duration"} : w[x] = v[x]
  <2> HIDE DEF v, rate, dur
  <2> QED  BY <1>1, Named
<1>3. q = [p EXCEPT !.phase = "running", !.left = 0, !.flag = NoFlags, !.test.val = w]
  BY DEF Completed
<1> HIDE DEF w
<1>4. DOMAIN q = DOMAIN p /\ q.phase = "running" /\ q.test = u
  <2> HIDE DEF q
  <2> QED  BY <1>3 DEF IsProc
<1>5. /\ DOMAIN u = DOMAIN p.test /\ u.role = p.test.role /\ u.sender = p.test.sender
      /\ u.retransmits = p.test.retransmits /\ u.val = w
  BY <1>1 DEF IsTest
<1> HIDE DEF q, u
<1>6. w.reverse = v.reverse /\ w.protocol = v.protocol /\ w.bytes = v.bytes
      /\ w.blocks = v.blocks
  BY <1>2, Named
<1>7. IsTest(u)
  BY <1>1, <1>2, <1>5, <1>6 DEF IsTest
<1>8. IsProc(q)
  BY <1>4, <1>7 DEF IsProc
<1>9. p.test.role \in {"c", "s"}
  BY <1>1 DEF Rejected, IsTest, Roles
<1>10. w.blksize # 0
  BY <1>2 DEF Rejected
<1>11. EndsOnce(w)
  <2>1. /\ v.bytes # 0 => dur = 0
        /\ v.blocks # 0 => dur = 0
        /\ v.bytes = 0 \/ v.blocks = 0
    BY DEF Rejected
  <2> HIDE DEF dur, v
  <2> QED  BY <2>1, <1>2, <1>6 DEF EndsOnce
<1>12. ASSUME p.test.role = "s"
       PROVE  Cleared(u)
  <2>1. ~p.flag.client
    BY <1>12 DEF Rejected
  <2>2. /\ \A x \in Exchanged : v[x] = Default[x]
        /\ ~p.flag.rate /\ ~p.flag.duration /\ p.flag.blksize = 0
    BY <2>1 DEF IsProc
  <2>3. v.protocol = "tcp" /\ v.bytes = 0 /\ v.blocks = 0 /\ v.duration = 10
    BY <2>2, Named, Defaults
  <2>4. BlockSize(p) = Default.blksize
    BY <2>2, <2>3, Defaults DEF BlockSize
  <2>5. rate = Default.rate /\ dur = Default.duration
    BY <2>2, <2>3, Defaults
  <2> HIDE DEF v, rate, dur
  <2> QED  BY <1>2, <1>5, <2>2, <2>4, <2>5, Named DEF Cleared
<1> QED  BY <1>4, <1>5, <1>8, <1>9, <1>10, <1>11, <1>12 DEF q

LEMMA FinishedIsProc ==
    ASSUME NEW p, IsProc(p), p.phase = "parsing"
    PROVE  /\ IsProc(Finished(p)) /\ Finished(p).phase \in {"running", "gone"}
           /\ Finished(p).phase = "running" =>
                /\ Finished(p).test.role = p.test.role /\ p.test.role \in {"c", "s"}
                /\ Finished(p).test.val.blksize # 0
                /\ EndsOnce(Finished(p).test.val)
                /\ p.test.role = "s" => Cleared(Finished(p).test)
<1>1. CASE Rejected(p)
  BY <1>1, GoneIsProc DEF Finished
<1>2. CASE ~Rejected(p)
  <2>1. Finished(p) = Completed(p)
    BY <1>2 DEF Finished
  <2> QED  BY <1>2, <2>1, CompletedIsTest
<1> QED  BY <1>1, <1>2

-----------------------------------------------------------------------------
(* The exchange. *)

\* The body of SettingsAgree: s are the server's settings, c the client's.
Agree(s, c) ==
    /\ \A x \in Resettable : s[x] = c[x]
    /\ \A x \in Exchanged \ ResetSettings : c[x] # Unset[x] => s[x] = c[x]
    /\ s.duration = IF c.duration = 0 THEN Default.duration ELSE c.duration

\* A cleared server takes a client's parameters.
LEMMA TakenIsTest ==
    ASSUME NEW t, IsTest(t), t.role = "s", Cleared(t),
           NEW c, IsTest(c), c.val.blksize # 0
    PROVE  LET u == Taken(t, Parameters(c))
           IN  IsTest(u) /\ u.role = "s" /\ Agree(u.val, c.val)
<1> DEFINE d == Parameters(c)
           D == {x \in Exchanged : x \in SendsAlways \/ c.val[x] # Unset[x]}
           t1 == SetProtocol(t, d.protocol)
           val == [x \in Settings |-> IF x \in DOMAIN d \ {"reverse"} THEN d[x] ELSE t1.val[x]]
           t2 == [t1 EXCEPT !.val = val]
           t3 == IF "reverse" \in DOMAIN d THEN SetReverse(t2) ELSE t2
           u == Taken(t, d)
<1>1. /\ DOMAIN d = D /\ \A x \in D : d[x] = c.val[x]
      /\ D \subseteq Exchanged /\ "protocol" \in D
  BY Named DEF Parameters
<1>2. u = [t3 EXCEPT !.retransmits =
               @ \/ (t3.sender /\ t3.val.protocol = "tcp" /\ HasTcpInfo)]
  BY DEF Taken
<1> HIDE DEF u, t3, d
<1>3. /\ IsTest(t1) /\ t1.role = "s" /\ t1.val = [t.val EXCEPT !.protocol = d.protocol]
  BY SetProtocolIsTest
<1> HIDE DEF t1
<1>4. /\ t1.val.protocol = d.protocol /\ DOMAIN t1.val = Settings
      /\ \A x \in Settings \ {"protocol"} : t1.val[x] = t.val[x]
  BY <1>3, Named DEF IsTest
<1>5. t.val.reverse = 0
  BY Named, Defaults DEF Cleared
<1>6. /\ DOMAIN val = Settings
      /\ \A x \in D \ {"reverse"} : val[x] = c.val[x]
      /\ \A x \in Settings \ D : val[x] = t.val[x]
      /\ val.protocol = t1.val.protocol /\ val.reverse = 0
  <2> HIDE DEF D
  <2> QED  BY <1>1, <1>4, <1>5, Named
<1> HIDE DEF val, D
<1>7. /\ DOMAIN t2 = DOMAIN t1 /\ t2.role = "s" /\ t2.sender = t1.sender
      /\ t2.retransmits = t1.retransmits /\ t2.val = val
  BY <1>3 DEF IsTest
<1> HIDE DEF t2
<1>8. IsTest(t2)
  BY <1>3, <1>4, <1>5, <1>6, <1>7, Named DEF IsTest
<1>9. /\ IsTest(t3) /\ t3.role = "s"
      /\ t3.val = IF "reverse" \in D THEN [val EXCEPT !.reverse = 1] ELSE val
  <2>1. IsTest(SetReverse(t2)) /\ SetReverse(t2).role = t2.role
        /\ SetReverse(t2).val = [t2.val EXCEPT !.reverse = 1]
    BY <1>6, <1>7, <1>8, SetReverseIsTest
  <2> QED  BY <1>1, <1>7, <1>8, <2>1 DEF t3
<1>10. IsTest(u) /\ u.role = "s" /\ u.val = t3.val
  <2>1. /\ DOMAIN u = DOMAIN t3 /\ u.role = t3.role /\ u.sender = t3.sender /\ u.val = t3.val
        /\ u.retransmits = (t3.retransmits
                            \/ (t3.sender /\ t3.val.protocol = "tcp" /\ HasTcpInfo))
    BY <1>2, <1>9 DEF IsTest
  <2> QED  BY <1>9, <2>1 DEF IsTest
<1>11. \A x \in Settings : u.val[x] = IF x \in D THEN c.val[x] ELSE t.val[x]
  <2>1. c.val.reverse \in {0, 1} /\ ("reverse" \in D => c.val.reverse = 1)
    BY Named, UnsetValues DEF IsTest, D
  <2>2. CASE "reverse" \in D
    BY <1>6, <1>9, <1>10, <2>1, <2>2
  <2>3. CASE "reverse" \notin D
    BY <1>6, <1>9, <1>10, <2>3
  <2> QED  BY <2>2, <2>3
<1>12. Agree(u.val, c.val)
  <2>1. ASSUME NEW x \in Resettable
        PROVE  u.val[x] = c.val[x]
    <3>1. x \in Exchanged \cap ResetSettings /\ x \in Settings
      BY Named DEF Resettable
    <3>2. CASE x \in D
      BY <1>11, <3>1, <3>2
    <3>3. CASE x \notin D
      <4>1. x \notin SendsAlways /\ c.val[x] = Unset[x]
        BY <3>1, <3>3 DEF D
      <4>2. x # "blksize"
        BY <4>1, UnsetValues
      <4>3. Unset[x] = Default[x]
        BY <4>1, <4>2, UnsetIsDefault
      <4> QED  BY <1>11, <3>1, <3>3, <4>1, <4>3 DEF Cleared
    <3> QED  BY <3>2, <3>3
  <2>2. ASSUME NEW x \in Exchanged \ ResetSettings, c.val[x] # Unset[x]
        PROVE  u.val[x] = c.val[x]
    BY <1>11, <2>2, Named DEF D
  <2>3. u.val.duration = IF c.val.duration = 0 THEN Default.duration ELSE c.val.duration
    <3>1. "duration" \in D <=> c.val.duration # 0
      BY Named, UnsetValues DEF D
    <3>2. t.val.duration = Default.duration
      BY Named DEF Cleared
    <3> QED  BY <1>11, <3>1, <3>2, Named
  <2> QED  BY <2>1, <2>2, <2>3 DEF Agree
<1> QED  BY <1>10, <1>12 DEF u, d

LEMMA ResetIsTest ==
    ASSUME NEW t, IsTest(t)
    PROVE  IsTest(Reset(t)) /\ Reset(t).role = "s" /\ Cleared(Reset(t))
<1> DEFINE u == Reset(t)
           val == [x \in Settings |-> IF x \in ResetSettings THEN Default[x] ELSE t.val[x]]
<1>1. /\ DOMAIN u = DOMAIN t /\ u.role = "s" /\ u.sender = FALSE /\ u.retransmits = FALSE
      /\ u.val = val
  BY DEF Reset, IsTest
<1>2. DOMAIN val = Settings /\ val.reverse = 0
  BY Named, Defaults
<1>3. \A x \in Exchanged \cap ResetSettings : val[x] = Default[x]
  BY Named
<1> HIDE DEF u, val
<1>4. u.sender = ((u.role = "c") # (u.val.reverse = 1))
  <2>1. u.role # "c" /\ u.val.reverse # 1
    BY <1>1, <1>2
  <2> QED  BY <1>1, <2>1
<1>5. u.retransmits = (u.sender /\ u.val.protocol = "tcp" /\ HasTcpInfo)
  BY <1>1
<1>6. IsTest(u)
  BY <1>1, <1>2, <1>4, <1>5 DEF IsTest, Roles
<1> QED  BY <1>1, <1>3, <1>6 DEF Cleared, u

-----------------------------------------------------------------------------
(* The inductive invariant. *)

\* A client is there only while the server serves, and has passed the checks.
ClientFit ==
    /\ cli.phase # "gone" => Serving
    /\ Running(cli) => /\ cli.test.role = "c" /\ cli.test.val.blksize # 0
                       /\ EndsOnce(cli.test.val)

\* The exchange: until it is done the server holds nothing of earlier tests.
LinkFit ==
    /\ link \in {"idle", "sent", "agreed"}
    /\ link # "idle" => Running(cli)
    /\ link = "sent" => doc = Parameters(cli.test)
    /\ link = "agreed" => Agree(srv.test.val, cli.test.val)
    /\ Serving /\ link # "agreed" => Cleared(srv.test)

Inv == IsProc(srv) /\ IsProc(cli) /\ ClientFit /\ LinkFit

LEMMA InitInv == Init => Inv
<1> SUFFICES ASSUME Init PROVE Inv
  OBVIOUS
<1>1. IsProc(srv) /\ IsProc(cli) /\ srv.phase = "parsing" /\ cli.phase = "gone"
  BY StartedIsProc, GoneIsProc DEF Init
<1> QED  BY <1>1 DEF Init, Inv, ClientFit, LinkFit, Serving, Running

\* The server's command line, while there is no client.
LEMMA ServerStepsInv ==
    ASSUME Inv, ParseServerOption \/ ServerStarts
    PROVE  Inv'
<1>1. srv.phase = "parsing" /\ UNCHANGED <<cli, link, doc>>
  BY DEF ParseServerOption, ServerStarts
<1>2. cli.phase = "gone" /\ link = "idle"
  BY <1>1 DEF Inv, ClientFit, LinkFit, Serving, Running
<1>3. IsProc(srv') /\ (srv'.phase = "running" /\ srv'.test.role = "s" => Cleared(srv'.test))
  <2>1. CASE ParseServerOption
    <3>1. PICK o \in ServerOptions : Once(srv.test, o) /\ srv' = Parsed(srv, o)
      BY <2>1 DEF ParseServerOption
    <3>2. o \in Options /\ IsProc(srv)
      BY DEF Options, Inv
    <3>3. IsProc(Parsed(srv, o)) /\ Parsed(srv, o).phase \in {"parsing", "gone"}
      BY <1>1, <3>1, <3>2, ParsedIsProc
    <3> QED  BY <3>1, <3>3
  <2>2. CASE ServerStarts
    <3>1. srv' = Finished(srv) /\ IsProc(srv)
      BY <2>2 DEF ServerStarts, Inv
    <3>2. /\ IsProc(Finished(srv))
          /\ Finished(srv).phase = "running" =>
                /\ Finished(srv).test.role = srv.test.role
                /\ srv.test.role = "s" => Cleared(Finished(srv).test)
      BY <1>1, <3>1, FinishedIsProc
    <3> QED  BY <3>1, <3>2
  <2> QED  BY <2>1, <2>2
<1>4. IsProc(cli)
  BY DEF Inv
<1> QED  BY <1>1, <1>2, <1>3, <1>4 DEF Inv, ClientFit, LinkFit, Serving, Running

\* A client is launched and reads its command line.
LEMMA ClientStepsInv ==
    ASSUME Inv, LaunchClient \/ ParseClientOption \/ ClientStarts
    PROVE  Inv'
<1>1. UNCHANGED <<srv, link, doc>> /\ ~Running(cli)
  BY DEF LaunchClient, ParseClientOption, ClientStarts, Running
<1>2. link = "idle" /\ Serving /\ IsProc(cli) /\ IsProc(srv) /\ Cleared(srv.test)
  BY <1>1 DEF LaunchClient, ParseClientOption, ClientStarts, Inv, ClientFit, LinkFit
<1>3. /\ IsProc(cli')
      /\ cli'.phase = "running" => /\ cli'.test.role = "c" /\ cli'.test.val.blksize # 0
                                   /\ EndsOnce(cli'.test.val)
  <2>1. CASE LaunchClient
    BY <2>1, StartedIsProc DEF LaunchClient
  <2>2. CASE ParseClientOption
    <3>1. PICK o \in ClientOptions : Once(cli.test, o) /\ cli' = Parsed(cli, o)
      BY <2>2 DEF ParseClientOption
    <3>2. o \in Options /\ cli.phase = "parsing"
      BY <2>2 DEF Options, ParseClientOption
    <3>3. IsProc(Parsed(cli, o)) /\ Parsed(cli, o).phase \in {"parsing", "gone"}
      BY <1>2, <3>1, <3>2, ParsedIsProc
    <3> QED  BY <3>1, <3>3
  <2>3. CASE ClientStarts
    <3>1. cli.phase = "parsing" /\ cli' = IF cli.test.role = "s" THEN Gone ELSE Finished(cli)
      BY <2>3 DEF ClientStarts
    <3>2. CASE cli.test.role = "s"
      BY <3>1, <3>2, GoneIsProc
    <3>3. CASE cli.test.role # "s"
      <4>1. /\ IsProc(Finished(cli))
            /\ Finished(cli).phase = "running" =>
                  /\ Finished(cli).test.role = cli.test.role /\ cli.test.role \in {"c", "s"}
                  /\ Finished(cli).test.val.blksize # 0
                  /\ EndsOnce(Finished(cli).test.val)
        BY <1>2, <3>1, FinishedIsProc
      <4> QED  BY <3>1, <3>3, <4>1
    <3> QED  BY <3>2, <3>3
  <2> QED  BY <2>1, <2>2, <2>3
<1>4. Serving'
  BY <1>1, <1>2 DEF Serving
<1> QED  BY <1>1, <1>2, <1>3, <1>4 DEF Inv, ClientFit, LinkFit, Running

LEMMA SendParametersInv ==
    ASSUME Inv, SendParameters
    PROVE  Inv'
BY DEF SendParameters, Inv, ClientFit, LinkFit, Serving, Running

LEMMA GetParametersInv ==
    ASSUME Inv, GetParameters
    PROVE  Inv'
<1> DEFINE u == Taken(srv.test, Parameters(cli.test))
<1>1. link = "sent" /\ link' = "agreed" /\ UNCHANGED <<cli, doc>>
      /\ srv' = [srv EXCEPT !.test = Taken(srv.test, doc)]
  BY DEF GetParameters
<1>2. /\ Running(cli) /\ doc = Parameters(cli.test) /\ Serving /\ Cleared(srv.test)
      /\ cli.test.val.blksize # 0
  BY <1>1 DEF Inv, LinkFit, ClientFit, Running
<1>3. IsTest(srv.test) /\ IsTest(cli.test) /\ srv.test.role = "s" /\ srv.phase = "running"
  BY <1>2 DEF Inv, IsProc, Serving
<1>4. IsTest(u) /\ u.role = "s" /\ Agree(u.val, cli.test.val)
  BY <1>2, <1>3, TakenIsTest
<1>5. DOMAIN srv' = DOMAIN srv /\ srv'.phase = "running" /\ srv'.test = u
  BY <1>1, <1>2, <1>3 DEF Inv, IsProc
<1> HIDE DEF u
<1>6. IsProc(srv')
  BY <1>4, <1>5 DEF Inv, IsProc
<1>7. Serving'
  BY <1>4, <1>5 DEF Serving
<1>8. ClientFit' /\ LinkFit'
  BY <1>1, <1>2, <1>4, <1>5, <1>7 DEF Inv, ClientFit, LinkFit, Running
<1> QED  BY <1>1, <1>6, <1>8 DEF Inv

LEMMA NextTestInv ==
    ASSUME Inv, NextTest
    PROVE  Inv'
<1> DEFINE u == Reset(srv.test)
<1>1. cli' = Gone /\ link' = "idle" /\ srv' = [srv EXCEPT !.test = u]
  BY DEF NextTest
<1>2. IsTest(srv.test) /\ srv.phase = "running"
  BY DEF NextTest, Inv, ClientFit, IsProc, Serving
<1>3. IsTest(u) /\ Cleared(u)
  BY <1>2, ResetIsTest
<1> HIDE DEF u
<1>4. DOMAIN srv' = DOMAIN srv /\ srv'.phase = "running" /\ srv'.test = u
  BY <1>1, <1>2 DEF Inv, IsProc
<1>5. IsProc(srv')
  BY <1>3, <1>4 DEF Inv, IsProc
<1>6. IsProc(cli') /\ cli'.phase = "gone"
  BY <1>1, GoneIsProc
<1>7. ClientFit' /\ LinkFit'
  BY <1>1, <1>3, <1>4, <1>6 DEF ClientFit, LinkFit, Running
<1> QED  BY <1>5, <1>6, <1>7 DEF Inv

\* Every operation of the two processes, from main's parsing to iperf_reset_test,
\* keeps the inductive invariant.
THEOREM Invariance == Spec => []Inv
<1>1. Inv /\ [Next]_vars => Inv'
  <2> SUFFICES ASSUME Inv, [Next]_vars PROVE Inv'
    OBVIOUS
  <2>1. CASE ParseServerOption \/ ServerStarts
    BY <2>1, ServerStepsInv
  <2>2. CASE LaunchClient \/ ParseClientOption \/ ClientStarts
    BY <2>2, ClientStepsInv
  <2>3. CASE SendParameters
    BY <2>3, SendParametersInv
  <2>4. CASE GetParameters
    BY <2>4, GetParametersInv
  <2>5. CASE NextTest
    BY <2>5, NextTestInv
  <2>6. CASE UNCHANGED vars
    BY <2>6 DEF vars, Inv, ClientFit, LinkFit, Serving, Running
  <2> QED  BY <2>1, <2>2, <2>3, <2>4, <2>5, <2>6 DEF Next
<1> QED  BY InitInv, <1>1, PTL DEF Spec

-----------------------------------------------------------------------------
(* The results. *)

\* With every list of options and any sequence of clients, aborted ones
\* included, a server that has taken parameters (get_parameters) runs the test
\* of the client that sent them and holds nothing of the tests before
\* (iperf_reset_test).
THEOREM EveryTestItsOwn == Spec => []SettingsAgree
<1>1. Inv => SettingsAgree
  BY DEF Inv, LinkFit, Agree, SettingsAgree
<1> QED  BY <1>1, Invariance, PTL

\* The retransmit flag (check_sender_has_retransmits) is right on both sides of
\* every test, in whatever order role, direction and protocol were set.
THEOREM RetransmitsAlwaysKnown == Spec => []RetransmitsKnown
<1>1. Inv => RetransmitsKnown
  BY DEF Inv, IsProc, IsTest, RetransmitsKnown
<1> QED  BY <1>1, Invariance, PTL

\* iperf_parse_arguments lets no client start with two end conditions.
THEOREM AlwaysOneEnd == Spec => []OneEnd
<1>1. Inv => OneEnd
  BY DEF Inv, ClientFit, EndsOnce, OneEnd
<1> QED  BY <1>1, Invariance, PTL

\* If no command line repeats -R, exactly one side of an agreed test sends.
THEOREM OneSideSends ==
    ASSUME ~RepeatR
    PROVE  Spec => []OneSender
<1>1. Inv => OneSender
  <2> SUFFICES ASSUME Inv, link = "agreed" PROVE cli.test.sender # srv.test.sender
    BY DEF OneSender
  <2>1. /\ Running(cli) /\ Serving /\ Agree(srv.test.val, cli.test.val)
        /\ cli.test.role = "c" /\ srv.test.role = "s"
    BY DEF Inv, LinkFit, ClientFit, Serving, Running
  <2>2. "reverse" \in Resettable
    BY Named DEF Resettable
  <2>3. srv.test.val.reverse = cli.test.val.reverse
    BY <2>1, <2>2 DEF Agree
  <2>4. /\ cli.test.sender = (("c" = "c") # (cli.test.val.reverse = 1))
        /\ srv.test.sender = (("s" = "c") # (srv.test.val.reverse = 1))
    BY <2>1 DEF Inv, IsProc, IsTest
  <2> QED  BY <2>3, <2>4
<1> QED  BY <1>1, Invariance, PTL
=============================================================================
