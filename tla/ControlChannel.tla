--------------------------- MODULE ControlChannel ---------------------------
(***************************************************************************)
(* The program udp-file-proxy from main to its end, as its users meet it:  *)
(* the configuration it loads, the port it listens on, the connections to  *)
(* that port and the commands that come over them as a stream of bytes     *)
(* (udp-file-proxy.cpp, proxy_manager.cpp, both handler_msg_c and          *)
(* RequestHandler).  One thread does all of it, so a request is one step   *)
(* here; ProxyClient and ProxyServer take its steps apart.                 *)
(***************************************************************************)
EXTENDS Settings, FiniteSets

CONSTANTS
  mode, manager_ip, manager_port,           \* keys of the configuration
  max_speed,
  app_name, server_port, max_file,          \* keys of the commands
  dir1,        \* stands for the four texts a server's registration needs too,
               \* as server_port does for both its ports
  CLIENT, SERVER,                           \* values of mode
  Config,      \* the files that may be there, each a sequence of lines
  Conns,       \* what a connection is told apart by (bound)
  Commands,    \* what may be sent: records [cmd, body]
  MaxFd,       \* descriptors left for connections, sockets and files
  MaxAhead,    \* bound: commands not yet dealt with, and split reads so far
  MaxSplits,   \* bound: reads in a run that find a part of what has been sent
  MaxPid       \* bound: Sudps there may be; fork fails if there are as many

CMD_REGISTER == 0
CMD_DELECT == 1
CMD_QUERY == 2
CMD_ADD_FILE == 16

ASSUME ControlAssumption ==
  /\ {mode, manager_ip, manager_port, max_speed, app_name, server_port, max_file, dir1}
       \subseteq Keys
  /\ CLIENT # SERVER /\ Config \subseteq Seq(Seq(Nat)) /\ IsFiniteSet(Conns)
  /\ \A r \in Commands : r.cmd \in 0..255 /\ r.body \in Seq(0..255) /\ Len(r.body) < 256
  /\ MaxFd \in Nat /\ MaxSplits \in Nat /\ MaxPid \in Nat

VARIABLES
  service,     \* "load", "up" or "ended"
  text,        \* the lines of the configuration still to be read
  g_conf, server_mode, ClientSpeed,
  errno,       \* "ERANGE", or "0" for every other value
  conn,        \* "none", "open", "used" once a command was sent, "closed" by the peer
  wire,        \* the bytes sent on a connection that have not been read
  applist,     \* the registered applications (mp_app of a server)
  fds,         \* descriptors in use
  sudps,       \* the Sudps by pid: name, and kind "child", "killed" or "orphan"
  asked,       \* history: the commands on a connection not yet dealt with
  scripted,    \* history: commands have come the way the scripts send them
  bodiless,    \* history: a command without a body has been sent
  leaked,      \* history: descriptors of cancelled threads, which nobody will close
  end,         \* history: why the program has ended
  splits

progVars == <<text, g_conf, server_mode, ClientSpeed>>
connVars == <<conn, wire, asked>>
appVars == <<applist, sudps>>
historyVars == <<scripted, bodiless, leaked, end>>
vars == <<service, progVars, errno, connVars, appVars, fds, historyVars, splits>>

None == [c \in Conns |-> << >>]
NoApps == [n \in {} |-> << >>]

Init ==
  /\ service = "load" /\ text \in Config
  /\ g_conf = NoSettings /\ server_mode = "none" /\ ClientSpeed = 800
  /\ errno = "0"
  /\ conn = [c \in Conns |-> "none"] /\ wire = None /\ asked = None
  /\ applist = NoApps /\ fds = 0 /\ sudps = NoApps
  /\ scripted = TRUE /\ bodiless = FALSE /\ leaked = 0 /\ end = "none"
  /\ splits = 0

Peers(c) == conn[c] \in {"open", "used"}   \* the peer has not closed it

(* The process ends and takes all it has with it, but not its children.     *)
Exit(why) ==
  /\ service' = "ended" /\ end' = why
  /\ conn' = [c \in Conns |-> "none"] /\ wire' = None /\ asked' = None
  /\ applist' = NoApps /\ fds' = 0 /\ leaked' = 0
  /\ sudps' = [p \in DOMAIN sudps |-> [sudps[p] EXCEPT !.kind = "orphan"]]
  /\ UNCHANGED <<progVars, errno, scripted, bodiless>>

-----------------------------------------------------------------------------
(* proxy_init: a line of the configuration                                  *)
LoadLine ==
  /\ service = "load" /\ text # << >>
  /\ g_conf' = Put(g_conf, AnalyseLine(Head(text)))
  /\ text' = Tail(text)
  /\ UNCHANGED <<service, server_mode, ClientSpeed, errno, connVars, appVars, fds,
                 historyVars, splits>>

Port == CONF_get_number(g_conf, manager_port, errno)
PortErrno == Errno(g_conf, manager_port, errno)
Speed == CONF_get_number(g_conf, max_speed, PortErrno)
Mode == CONF_get_string(g_conf, mode)
PortNumbers == 0..65535
AddressGiven == CONF_get_string(g_conf, manager_ip) # << >> /\ Port \in PortNumbers

(* Mutation ClosedOnExec: no Sudp inherits the listening socket.            *)
ClosedOnExec == TRUE
(* A Sudp holds the listening socket of the run it is from open.            *)
PortIsFree == DOMAIN sudps = {}

Starts(m) ==
  /\ service = "load" /\ text = << >> /\ AddressGiven
  /\ service' = "up" /\ server_mode' = m
  /\ UNCHANGED <<text, g_conf, connVars, appVars, fds, historyVars, splits>>

MainServer ==
  /\ Mode = SERVER /\ PortIsFree /\ Starts("SERVER_MODE")
  /\ errno' = PortErrno
  /\ UNCHANGED ClientSpeed

MainClient ==
  /\ Mode = CLIENT /\ Starts("CLIENT_MODE")
  /\ ClientSpeed' = IF Speed \in 1..1999 THEN Speed ELSE ClientSpeed
  /\ errno' = Errno(g_conf, max_speed, PortErrno)

MainExits ==
  /\ service = "load" /\ text = << >>
  /\ ~AddressGiven \/ Mode \notin {SERVER, CLIENT} \/ (Mode = SERVER /\ ~PortIsFree)
  /\ Exit("main")
  /\ UNCHANGED splits

(* The program is started again.  The file has not changed, so loading it   *)
(* would give the settings it gave.                                         *)
Restart ==
  /\ service = "ended" /\ service' = "load" /\ server_mode' = "none"
  /\ ClientSpeed' = 800 /\ errno' = "0"
  /\ scripted' = TRUE /\ bodiless' = FALSE /\ end' = "none" /\ splits' = 0
  /\ UNCHANGED <<text, g_conf, connVars, appVars, fds, leaked>>

-----------------------------------------------------------------------------
(* Mutation ErrnoStays: the loop of accept calls ends without an error.     *)
ErrnoStays(e) == e
(* The loop of accept calls ends with EAGAIN.                               *)
AfterAccepts(e) == "0"

(* accept_callbk                                                            *)
Accept(c) ==
  /\ service = "up" /\ conn[c] = "none" /\ fds < MaxFd
  /\ conn' = [conn EXCEPT ![c] = "open"]
  /\ fds' = fds + 1 /\ errno' = AfterAccepts(errno)
  /\ scripted' = (scripted /\ \A d \in Conns : ~Peers(d))
  /\ UNCHANGED <<service, progVars, wire, asked, appVars, bodiless, leaked, end,
                 splits>>

(* No descriptor is left for a connection.                                  *)
AcceptErr ==
  /\ service = "up" /\ fds = MaxFd
  /\ Exit("acceptErr")
  /\ UNCHANGED splits

(* What peers do                                                            *)
Bytes(r) == <<r.cmd, Len(r.body)>> \o r.body

PeerActs ==
  UNCHANGED <<service, progVars, errno, appVars, fds, leaked, end, splits>>

Ahead == splits + MapThenSumSet(LAMBDA c : Len(asked[c]), Conns)

Send(c, r) ==
  /\ Peers(c) /\ Ahead < MaxAhead
  /\ conn' = [conn EXCEPT ![c] = "used"]
  /\ wire' = [wire EXCEPT ![c] = wire[c] \o Bytes(r)]
  /\ asked' = [asked EXCEPT ![c] = Append(asked[c], r)]
  /\ scripted' = (scripted /\ conn[c] = "open")
  /\ bodiless' = (bodiless \/ r.body = << >>)
  /\ PeerActs

Hangup(c) ==
  /\ Peers(c)
  /\ conn' = [conn EXCEPT ![c] = "closed"]
  /\ scripted' = (scripted /\ asked[c] = << >>)
  /\ PeerActs /\ UNCHANGED <<wire, asked, bodiless>>

(* The end of the stream comes after its bytes.                             *)
AtEOF(c) == conn[c] = "closed" /\ wire[c] = << >>

(* Mutation NotClosed: without BEV_OPT_CLOSE_ON_FREE.                       *)
NotClosed(n) == n
Closed(n) == n - 1

(* bufferevent_free                                                         *)
Frees(c) ==
  /\ service = "up"
  /\ conn' = [conn EXCEPT ![c] = "none"] /\ wire' = [wire EXCEPT ![c] = << >>]
  /\ asked' = [asked EXCEPT ![c] = << >>]
  /\ fds' = Closed(fds)
  /\ scripted' = (scripted /\ asked[c] = << >>)
  /\ UNCHANGED <<service, progVars, appVars, bodiless, leaked, end, splits>>

SockEvent(c) ==
  \/ AtEOF(c) /\ Frees(c) /\ UNCHANGED errno
  \/ conn[c] # "none" /\ Frees(c) /\ errno' = "0"      \* reset by the peer

-----------------------------------------------------------------------------
(* readSock and handler_msg_c: what has arrived is one message.             *)
Message(c, k) == SubSeq(wire[c], 1, k)

(* Mutation LengthUnchecked: the length byte is ignored.                    *)
LengthUnchecked(msg) == Len(msg) >= 2
WellFormed(msg) == Len(msg) = 2 \/ (Len(msg) > 2 /\ msg[2] = Len(msg) - 2)

Handled == IF server_mode = "CLIENT_MODE" THEN {CMD_REGISTER, CMD_ADD_FILE, CMD_DELECT}
           ELSE {CMD_REGISTER, CMD_DELECT}

Whole(c, k) == asked[c] # << >> /\ Message(c, k) = Bytes(asked[c][1])

Reads(c, k) ==
  /\ service = "up" /\ k \in 1..Len(wire[c])
  /\ IF k = Len(wire[c]) THEN UNCHANGED splits
     ELSE splits < MaxSplits /\ Ahead < MaxAhead /\ splits' = splits + 1

LeftOver(c, k) == SubSeq(wire[c], k + 1, Len(wire[c]))

(* The peer is told ret, which nothing in the program remembers.            *)
Echo(c, k, ret) ==
  /\ wire' = [wire EXCEPT ![c] = LeftOver(c, k)]
  /\ asked' = [asked EXCEPT ![c] = IF Whole(c, k) THEN Tail(asked[c]) ELSE << >>]
  /\ scripted' = (scripted /\ Whole(c, k))
  /\ UNCHANGED <<service, progVars, conn, bodiless, end>>

Unhandled(c, k) ==
  /\ Reads(c, k)
  /\ \/ ~WellFormed(Message(c, k)) /\ Echo(c, k, "E_FORMAT")
     \/ WellFormed(Message(c, k)) /\ Message(c, k)[1] \notin Handled /\ Echo(c, k, "E_OK")
  /\ UNCHANGED <<errno, appVars, fds, leaked>>

(* The request reaches RequestHandler.                                      *)
Requests(c, k, cmd) ==
  /\ Reads(c, k)
  /\ WellFormed(Message(c, k)) /\ Message(c, k)[1] = cmd /\ cmd \in Handled

(* Msg_parse(NULL): std::string throws, and nobody catches it.              *)
Throws(c, k) ==
  /\ \E cmd \in Handled : Requests(c, k, cmd)
  /\ Message(c, k)[2] = 0
  /\ Exit("Msg_parse(NULL)")

(* A header that came without its body passes, and its body is empty.       *)
Fields(c, k) == CONF_prase_line(SubSeq(Message(c, k), 3, k))
Name(c, k) == CONF_get_string(Fields(c, k), app_name)
Command(c, k, cmd) == Requests(c, k, cmd) /\ Message(c, k)[2] # 0

-----------------------------------------------------------------------------
Entry(n, max, s, p) ==
  applist' = [m \in DOMAIN applist \cup {n} |->
    IF m = n
    THEN [max_count |-> max, files |-> 0, sock |-> s, open |-> FALSE, pid |-> p]
    ELSE applist[m]]
Without(ns) == applist' = [m \in DOMAIN applist \ ns |-> applist[m]]

AfterPort(c, k) == Errno(Fields(c, k), server_port, errno)

(* ProxyClient::RequestHandler.  A new application's thread opens its       *)
(* socket, or returns if it cannot.                                         *)
Limit(c, k) == CONF_get_number(Fields(c, k), max_file, AfterPort(c, k))

RegisterClient(c, k) ==
  /\ server_mode = "CLIENT_MODE" /\ Command(c, k, CMD_REGISTER)
  /\ errno' = Errno(Fields(c, k), max_file, AfterPort(c, k))
  /\ \E n \in {Name(c, k)} :
       \/ n \in DOMAIN applist /\ Echo(c, k, "E_EXIST") /\ UNCHANGED <<applist, fds>>
       \/ /\ n \notin DOMAIN applist /\ Echo(c, k, "E_OK")
          /\ Entry(n, Limit(c, k), fds < MaxFd, 0)
          /\ fds' = IF fds < MaxFd THEN fds + 1 ELSE fds
  /\ UNCHANGED <<sudps, leaked>>

(* What a sender's thread has open: its socket and the file it is sending.  *)
Held(a) == (IF a.sock THEN 1 ELSE 0) + (IF a.open THEN 1 ELSE 0)

(* The thread is cancelled, and what it has open stays open.                *)
Cancels(n) == leaked' = leaked + Held(applist[n])

DelectClient(c, k) ==
  /\ server_mode = "CLIENT_MODE" /\ Command(c, k, CMD_DELECT)
  /\ \E n \in {Name(c, k)} :
       \/ n \notin DOMAIN applist /\ Echo(c, k, "E_NOTFOUND") /\ UNCHANGED <<applist, leaked>>
       \/ n \in DOMAIN applist /\ Echo(c, k, "E_OK") /\ Without({n}) /\ Cancels(n)
  /\ UNCHANGED <<errno, fds, sudps>>

(* Mutation FullWhenPast: > in place of >=.                                 *)
FullWhenPast(n) == applist[n].files > applist[n].max_count
Full(n) == applist[n].files >= applist[n].max_count

AddFile(c, k) ==
  /\ Command(c, k, CMD_ADD_FILE)
  /\ \E n \in {Name(c, k)} :
       \/ n \notin DOMAIN applist /\ Echo(c, k, "E_NOTFOUND") /\ UNCHANGED applist
       \/ n \in DOMAIN applist /\ Full(n) /\ Echo(c, k, "E_FULL") /\ UNCHANGED applist
       \/ /\ n \in DOMAIN applist /\ ~Full(n)
          /\ Echo(c, k, "E_OK")
          /\ applist' = [applist EXCEPT ![n].files = applist[n].files + 1]
  /\ UNCHANGED <<errno, fds, sudps, leaked>>

(* file_thread: SendPack_ex needs a descriptor for the file that get_next   *)
(* gave, and a file that cannot be opened is done with at once.             *)
ThreadActs == UNCHANGED <<service, progVars, errno, connVars, sudps, historyVars, splits>>

Takes(n, opened) ==
  /\ applist[n].sock /\ ~applist[n].open /\ applist[n].files > 0
  /\ applist' = [applist EXCEPT ![n].files = applist[n].files - 1, ![n].open = opened]
  /\ ThreadActs

OpenFile(n) == fds < MaxFd /\ Takes(n, TRUE) /\ fds' = fds + 1
SkipFile(n) == Takes(n, FALSE) /\ UNCHANGED fds

FileSent(n) ==
  /\ applist[n].open
  /\ applist' = [applist EXCEPT ![n].open = FALSE]
  /\ fds' = fds - 1
  /\ ThreadActs

-----------------------------------------------------------------------------
(* ProxyServer::RequestHandler                                              *)
TextsGiven(c, k) ==
  Name(c, k) # << >> /\ CONF_get_string(Fields(c, k), dir1) # << >>
check_server_add_info(c, k) ==
  TextsGiven(c, k) /\ CONF_get_number(Fields(c, k), server_port, errno) \in PortNumbers

Fork(n, p) ==
  /\ sudps' = [q \in DOMAIN sudps \cup {p} |->
       IF q = p THEN [name |-> n, kind |-> "child"] ELSE sudps[q]]
  /\ Entry(n, 0, FALSE, p)

FreePids == 1..MaxPid \ DOMAIN sudps

RegisterServer(c, k) ==
  /\ server_mode = "SERVER_MODE" /\ Command(c, k, CMD_REGISTER)
  /\ errno' = IF TextsGiven(c, k) THEN AfterPort(c, k) ELSE errno
  /\ \/ /\ ~check_server_add_info(c, k)
        /\ Echo(c, k, "E_BAD_CMD") /\ UNCHANGED appVars
     \/ /\ check_server_add_info(c, k)
        /\ \/ Name(c, k) \in DOMAIN applist /\ Echo(c, k, "E_EXIST") /\ UNCHANGED appVars
           \/ /\ Name(c, k) \notin DOMAIN applist /\ FreePids = {}
              /\ Echo(c, k, "E_REGISTER") /\ UNCHANGED appVars
           \/ /\ Name(c, k) \notin DOMAIN applist /\ Echo(c, k, "E_OK")
              /\ \E p \in FreePids : Fork(Name(c, k), p)
  /\ UNCHANGED <<fds, leaked>>

(* SIGTERM, which Sudp takes its time to end by                             *)
Kill(p) == sudps' = [sudps EXCEPT ![p].kind = "killed"]

DelectServer(c, k) ==
  /\ server_mode = "SERVER_MODE" /\ Command(c, k, CMD_DELECT)
  /\ \E n \in {Name(c, k)} :
       \/ n = << >> /\ Echo(c, k, "E_BAD_CMD") /\ UNCHANGED appVars
       \/ /\ n # << >> /\ n \notin DOMAIN applist
          /\ Echo(c, k, "E_NOTFOUND") /\ UNCHANGED appVars
       \/ /\ n \in DOMAIN applist \ {<< >>} /\ Echo(c, k, "E_OK")
          /\ Without({n}) /\ Kill(applist[n].pid)
  /\ UNCHANGED <<errno, fds, leaked>>

(* A Sudp ends, and sig_chld takes it off its parent's list.                *)
SudpEnds(p) ==
  /\ sudps' = [q \in DOMAIN sudps \ {p} |-> sudps[q]]
  /\ Without({n \in DOMAIN applist : applist[n].pid = p})
  /\ UNCHANGED <<service, progVars, errno, connVars, fds, historyVars, splits>>

-----------------------------------------------------------------------------
Start == LoadLine \/ MainServer \/ MainClient \/ MainExits \/ Restart

ReadSock(c) ==
  \E k \in 1..Len(wire[c]) :
    \/ Unhandled(c, k) \/ Throws(c, k)
    \/ RegisterClient(c, k) \/ DelectClient(c, k) \/ AddFile(c, k)
    \/ RegisterServer(c, k) \/ DelectServer(c, k)

FileThread(n) == OpenFile(n) \/ SkipFile(n) \/ FileSent(n)

Peer(c) == Accept(c) \/ Hangup(c) \/ \E r \in Commands : Send(c, r)

Next ==
  \/ Start \/ AcceptErr
  \/ \E c \in Conns : Peer(c) \/ ReadSock(c) \/ SockEvent(c)
  \/ \E n \in DOMAIN applist : FileThread(n)
  \/ \E p \in DOMAIN sudps : SudpEnds(p)

Spec == Init /\ [][Next]_vars

-----------------------------------------------------------------------------
Applications ==
  [max_count : Int, files : Nat, sock : BOOLEAN, open : BOOLEAN, pid : 0..MaxPid]

TypeOK ==
  /\ service \in {"load", "up", "ended"}
  /\ text \in Seq(Seq(Nat)) /\ DOMAIN g_conf \subseteq Keys
  /\ server_mode \in {"none", "CLIENT_MODE", "SERVER_MODE"}
  /\ ClientSpeed \in 1..1999 /\ errno \in {"0", "ERANGE"}
  /\ conn \in [Conns -> {"none", "open", "used", "closed"}]
  /\ wire \in [Conns -> Seq(0..255)] /\ asked \in [Conns -> Seq(Commands)]
  /\ \A n \in DOMAIN applist :
       /\ applist[n] \in Applications
       /\ applist[n].files > 0 => applist[n].files <= applist[n].max_count
  /\ \A p \in DOMAIN sudps :
       p \in 1..MaxPid /\ sudps[p].kind \in {"child", "killed", "orphan"}
  /\ fds \in 0..MaxFd /\ leaked \in 0..MaxFd
  /\ service # "up" => fds = 0 /\ DOMAIN applist = {} /\ wire = None

(* Every line of the configuration sets what a reader of it would expect,   *)
(* whatever spaces and comments it has (AnalyseLine, config.cpp 57-82; its  *)
(* arithmetic with end_pos is not what it looks like).                      *)
SettingsAsMeant == [][text' # text => g_conf' = Put(g_conf, Meant(Head(text)))]_vars

(* What the body of a command, up to its first NUL, says of a key: the last *)
(* of its fields to name it.                                                *)
FieldsOf(body) ==
  {f \in (1..Len(body)) \X (0..Len(body)) :
    /\ f[1] = 1 \/ body[f[1] - 1] = COMMA
    /\ f[2] = Len(body) \/ body[f[2] + 1] = COMMA
    /\ \A m \in f[1]..f[2] : body[m] # COMMA}
Says(r, key) ==
  LET body == CString(r.body)
      fields == {f \in FieldsOf(body) : Meant(SubSeq(body, f[1], f[2])).key = key}
  IN IF fields = {} THEN << >>
     ELSE LET last == CHOOSE f \in fields : \A g \in fields : f[1] >= g[1]
          IN Meant(SubSeq(body, last[1], last[2])).value
SaysNumber(r, key) == IF Says(r, key) \in DOMAIN Numerals THEN Numerals[Says(r, key)] ELSE -1

Registrations == {r \in Commands : r.cmd = CMD_REGISTER}
Names == {Says(r, app_name) : r \in Registrations}
Limits == {<<Says(r, app_name), SaysNumber(r, max_file)>> : r \in Registrations}

(* Commands as texts: no byte of a body is the number of a command, and a   *)
(* registration names its application.                                      *)
Codes == {CMD_REGISTER, CMD_DELECT, CMD_ADD_FILE}
TextCommands ==
  /\ \A r \in Commands : \A i \in 1..Len(r.body) : r.body[i] \notin Codes
  /\ \A r \in Registrations : Says(r, app_name) # << >>

(* Registrations as the scripts send them: the port is in range of a long,  *)
(* and the limit is a numeral, of whatever size.                            *)
ScriptCommands ==
  \A r \in Registrations :
    /\ Says(r, server_port) \notin Oversized
    /\ Says(r, max_file) \in DOMAIN Numerals \cup Oversized

(* Pieces of commands that have bodies, wherever TCP cuts or joins them,    *)
(* register nothing but the nameless application of a client, and do not    *)
(* end the program (handler_msg_c, proxy_client.cpp 65-75, proxy_server.cpp *)
(* 94-107).  A command without a body can do both: what follows its first   *)
(* byte is a length byte that reads as a registration.                      *)
NothingFromPieces ==
  /\ ~bodiless =>
       /\ DOMAIN applist \subseteq Names \cup {<< >>}
       /\ << >> \in DOMAIN applist => splits > 0 /\ server_mode = "CLIENT_MODE"
  /\ end = "Msg_parse(NULL)" => bodiless

(* Peers that behave as the scripts do, one connection at a time and one    *)
(* command on each, get what they ask for: what has not been read is the    *)
(* command that has not been answered, and every application of a client    *)
(* has the limit its registration gave, whatever numbers earlier commands   *)
(* held (TTst/Cudp/register_app.py, CONF_get_number: config.cpp 270-280).   *)
ServesScripts ==
  scripted =>
    /\ \A c \in Conns : wire[c] = IF asked[c] = << >> THEN << >> ELSE Bytes(asked[c][1])
    /\ server_mode = "CLIENT_MODE" => \A n \in DOMAIN applist :
         <<n, applist[n].max_count>> \in Limits

(* A descriptor in use is a connection's, an application's socket, a file   *)
(* that is being sent, or one of the last two that a deletion left open     *)
(* when it cancelled the thread (proxy_client.cpp 249, Cudp.cpp 229): only  *)
(* these make the program end for want of one (acceptErr, proxy_manager.cpp *)
(* 19-30).  What deletions leave is never given back, but a server, which   *)
(* has no such threads, leaves nothing.                                     *)
DescriptorsAccounted ==
  /\ fds = Cardinality({c \in Conns : conn[c] # "none"})
           + Cardinality({n \in DOMAIN applist : applist[n].sock})
           + Cardinality({n \in DOMAIN applist : applist[n].open}) + leaked
  /\ leaked > 0 => server_mode = "CLIENT_MODE"

(* However often the server ends and is started again, every Sudp that has  *)
(* not been told to end is on the list of the server that runs, under its   *)
(* name and with its pid, so that it can be deleted and no other receives   *)
(* for the same application: a new server does not listen while a Sudp of   *)
(* an earlier one runs (listen, proxy_manager.cpp 151-161).                 *)
NoOrphans ==
  service = "up" => \A p \in DOMAIN sudps :
    sudps[p].kind # "killed" =>
      /\ sudps[p].name \in DOMAIN applist
      /\ applist[sudps[p].name].pid = p

=============================================================================
