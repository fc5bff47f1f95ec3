---------------------------- MODULE ResidentBridge ----------------------------
(***************************************************************************)
(* The resident bridge (interruptor_resident.py): daemons that own one     *)
(* AF_UNIX socket path and answer one request line per connection, and     *)
(* the clients that ask them and fall back to the one-shot bridge          *)
(* (interruptor_bridge.py) when the transport fails.                       *)
(*                                                                         *)
(* One action per system call that another process can observe.  The       *)
(* kernel's part: a listening socket has a bounded queue of connections,   *)
(* a connection to a path nobody listens on is refused, closing a listener *)
(* resets the connections it has not accepted, and an inode is reachable   *)
(* only through the path.                                                  *)
(***************************************************************************)
EXTENDS Envelopes, Naturals, Sequences

CONSTANTS Daemons,      \* processes running --serve on the same path
          DaemonMode,   \* [Daemons -> Modes]: TERMINAL_JAIL_INTERRUPTOR_MODE of each
          ClientMode,   \* [Clients -> Modes]
          Strangers,    \* clients of another uid, kept out by mode 0600 only
          Fallback,     \* clients started with --fallback
          Stdin,        \* clients whose command comes on stdin, not --command
          Backlog,      \* the listen() backlog (16 in the code)
          MaxStarts,    \* [Daemons -> Nat], a bound: how often each is started
          None,         \* no file, no connection, no answer
          Stale,        \* a path nobody listens on: left by a dead daemon, or a plain file
          Probe,        \* a start-up probe's connection, closed as soon as it is made
          Partial       \* the first bytes of an answer, without its newline

ASSUME BridgeAssumption ==
  /\ DaemonMode \in [Daemons -> Modes]
  /\ ClientMode \in [Clients -> Modes]
  /\ Strangers \subseteq Clients
  /\ Fallback \subseteq Clients
  /\ Stdin \subseteq Clients
  /\ Backlog \in Nat /\ MaxStarts \in [Daemons -> Nat]
  /\ None \notin Daemons \cup Clients \cup Answers
  /\ Stale \notin Daemons
  /\ Probe \notin Clients
  /\ Partial \notin Answers
  /\ None \notin {Stale, Probe, Partial}

VARIABLES
  path,          \* whose socket the path names: a daemon, Stale or None
  perm,          \* the mode of that inode: "open" (0777 & ~umask) or "owner" (0600)
  pc,            \* [Daemons -> DaemonSteps]
  listening,     \* the daemons whose socket accepts connections
  queue,         \* [Daemons -> Seq]: connections made and not yet accepted
  busy,          \* [Daemons -> the connection it is serving, or None]
  response,      \* [Daemons -> the answer it is about to send, or None]
  shuttingDown,  \* the daemons whose _shutting_down marker is set
  resume,        \* [Daemons -> where its signal handler interrupted it, until that ends]
  exit,          \* [Daemons -> why it last stopped]
  starts,        \* [Daemons -> Nat], at most MaxStarts
  cpc,           \* [Clients -> ClientSteps]
  link,          \* [Clients -> the server's end of its connection]
  sent,          \* the clients whose request line is in the socket
  reply,         \* [Clients -> what has arrived on its connection]
  out            \* [Clients -> what it answered its caller]

socketVars == <<path, perm, listening, queue>>
daemonVars == <<pc, busy, response, shuttingDown, resume, exit, starts>>
clientVars == <<cpc, link, sent, reply, out>>
vars       == <<socketVars, daemonVars, clientVars>>

Starting == {"exists", "probe", "unlink", "bind", "chmod", "giveup", "handlers"}
Serving  == {"accept", "recv", "reply"}
Stopping == {"sig close", "sig unlink", "sig exit"}
Final    == {"final close", "final unlink"}
DaemonSteps == {"off", "listen"} \cup Starting \cup Serving \cup Stopping \cup Final
Exits    == {"none", "live", "stuck", "bind", "chmod", "signal", "lost", "killed"}

Asking      == {"send", "await"}     \* its end of the connection is open
ClientSteps == {"idle", "connect", "one-shot", "done"} \cup Asking

TypeOK ==
  /\ path \in Daemons \cup {Stale, None}
  /\ perm \in {"open", "owner"}
  /\ pc \in [Daemons -> DaemonSteps]
  /\ listening \subseteq Daemons
  /\ queue \in [Daemons -> Seq(Clients \cup {Probe})]
  /\ busy \in [Daemons -> Clients \cup {Probe, None}]
  /\ response \in [Daemons -> Answers \cup {None}]
  /\ shuttingDown \subseteq Daemons
  /\ resume \in [Daemons -> Serving \cup {"listen"}]
  /\ exit \in [Daemons -> Exits]
  /\ starts \in [Daemons -> Nat]
  /\ cpc \in [Clients -> ClientSteps]
  /\ link \in [Clients -> {"none", "queued", "accepted", "closed"}]
  /\ sent \subseteq Clients
  /\ reply \in [Clients -> Answers \cup {None, Partial}]
  /\ out \in [Clients -> Answers \cup {None}]

\* The path may hold nothing or the leftover of a daemon that died earlier.
Init ==
  /\ path \in {None, Stale}
  /\ perm = "open"
  /\ pc = [d \in Daemons |-> "off"]
  /\ listening = {}
  /\ queue = [d \in Daemons |-> <<>>]
  /\ busy = [d \in Daemons |-> None]
  /\ response = [d \in Daemons |-> None]
  /\ shuttingDown = {}
  /\ resume = [d \in Daemons |-> "accept"]
  /\ exit = [d \in Daemons |-> "none"]
  /\ starts = [d \in Daemons |-> 0]
  /\ cpc = [c \in Clients |-> "idle"]
  /\ link = [c \in Clients |-> "none"]
  /\ sent = {}
  /\ reply = [c \in Clients |-> None]
  /\ out = [c \in Clients |-> None]

-------------------------------------------------------------------------------
(* The kernel's socket operations. *)

\* connect() to the path succeeds: somebody listens there and has room.
Connectable ==
  /\ path \in listening
  /\ Len(queue[path]) <= Backlog

Enqueue(conn) == queue' = [queue EXCEPT ![path] = Append(@, conn)]

Goto(d, step) == pc' = [pc EXCEPT ![d] = step]

Exit(d, why) ==
  /\ Goto(d, "off")
  /\ exit' = [exit EXCEPT ![d] = why]

\* The server's ends of these connections close.
Hangup(conns) ==
  link' = [c \in Clients |-> IF c \in conns THEN "closed" ELSE link[c]]

\* The connections nobody will accept once d's listener is closed.
Pending(d) == {queue[d][i] : i \in DOMAIN queue[d]}

\* server.close(): the inode stays, and nobody listens on it any more.
CloseListener(d) ==
  /\ listening' = listening \ {d}
  /\ path' = IF path = d THEN Stale ELSE path
  /\ queue' = [queue EXCEPT ![d] = <<>>]

\* sock_path.unlink() with its OSError ignored: it removes the NAME, whatever
\* it stands for by now.
UnlinkPath == path' = None

-------------------------------------------------------------------------------
(* serve(): start-up *)

Start(d) ==
  /\ pc[d] = "off"
  /\ starts[d] < MaxStarts[d]
  /\ starts' = [starts EXCEPT ![d] = @ + 1]
  /\ exit' = [exit EXCEPT ![d] = "none"]
  /\ shuttingDown' = shuttingDown \ {d}
  /\ Goto(d, "exists")
  /\ UNCHANGED <<socketVars, busy, response, resume, clientVars>>

CheckExists(d) ==
  /\ pc[d] = "exists"
  /\ Goto(d, IF path = None THEN "bind" ELSE "probe")
  /\ UNCHANGED <<socketVars, busy, response, shuttingDown, resume, exit, starts, clientVars>>

\* The probe connects: the path is owned, refuse to start.
ProbeLive(d) ==
  /\ pc[d] = "probe"
  /\ Connectable
  /\ Enqueue(Probe)
  /\ Exit(d, "live")
  /\ UNCHANGED <<path, perm, listening, busy, response, shuttingDown, resume, starts,
                 clientVars>>

\* The probe fails: whatever is there is taken for a dead socket.
ProbeDead(d) ==
  /\ pc[d] = "probe"
  /\ ~ Connectable
  /\ Goto(d, "unlink")
  /\ UNCHANGED <<socketVars, busy, response, shuttingDown, resume, exit, starts, clientVars>>

\* A bug it could have: the dead socket is left in place.
UnlinkSkipped(d) ==
  /\ pc[d] = "unlink"
  /\ path # None
  /\ Goto(d, "bind")
  /\ UNCHANGED <<socketVars, busy, response, shuttingDown, resume, exit, starts, clientVars>>

UnlinkStale(d) ==
  /\ pc[d] = "unlink"
  /\ path # None
  /\ path' = None
  /\ Goto(d, "bind")
  /\ UNCHANGED <<perm, listening, queue, busy, response, shuttingDown, resume, exit, starts,
                 clientVars>>

UnlinkFails(d) ==
  /\ pc[d] = "unlink"
  /\ path = None
  /\ Exit(d, "stuck")
  /\ UNCHANGED <<socketVars, busy, response, shuttingDown, resume, starts, clientVars>>

\* A bug it could have: the mode of the inode is left to the umask.
BindWithoutChmod(d) ==
  /\ pc[d] = "bind"
  /\ path = None
  /\ path' = d
  /\ perm' = "open"
  /\ Goto(d, "handlers")
  /\ UNCHANGED <<listening, queue, busy, response, shuttingDown, resume, exit, starts,
                 clientVars>>

\* bind() creates the inode with the mode the umask leaves it.
Bind(d) ==
  /\ pc[d] = "bind"
  /\ path = None
  /\ path' = d
  /\ perm' = "open"
  /\ Goto(d, "chmod")
  /\ UNCHANGED <<listening, queue, busy, response, shuttingDown, resume, exit, starts,
                 clientVars>>

BindFails(d) ==
  /\ pc[d] = "bind"
  /\ path # None
  /\ Exit(d, "bind")
  /\ UNCHANGED <<socketVars, busy, response, shuttingDown, resume, starts, clientVars>>

\* os.chmod goes by name: it may tighten another daemon's inode.
Chmod(d) ==
  /\ pc[d] = "chmod"
  /\ path # None
  /\ perm' = "owner"
  /\ Goto(d, "handlers")
  /\ UNCHANGED <<path, listening, queue, busy, response, shuttingDown, resume, exit, starts,
                 clientVars>>

ChmodFails(d) ==
  /\ pc[d] = "chmod"
  /\ path = None
  /\ Goto(d, "giveup")
  /\ UNCHANGED <<socketVars, busy, response, shuttingDown, resume, exit, starts, clientVars>>

GiveUp(d) ==
  /\ pc[d] = "giveup"
  /\ UnlinkPath
  /\ Exit(d, "chmod")
  /\ UNCHANGED <<perm, listening, queue, busy, response, shuttingDown, resume, starts,
                 clientVars>>

InstallHandlers(d) ==
  /\ pc[d] = "handlers"
  /\ shuttingDown' = shuttingDown \ {d}
  /\ Goto(d, "listen")
  /\ UNCHANGED <<socketVars, busy, response, resume, exit, starts, clientVars>>

Listen(d) ==
  /\ pc[d] = "listen"
  /\ listening' = listening \cup {d}
  /\ Goto(d, "accept")
  /\ UNCHANGED <<path, perm, queue, busy, response, shuttingDown, resume, exit, starts,
                 clientVars>>

-------------------------------------------------------------------------------
(* _accept_loop and _serve_connection *)

\* The bug it had (TJ-GAP-097): every error of accept() is retried.
AlwaysTransient(d) == FALSE

\* accept() failed: is the listener gone, or is the accept worth a retry?
ListenerGone(d) == d \in shuttingDown \/ d \notin listening

Accept(d) ==
  /\ pc[d] = "accept"
  /\ d \in listening
  /\ queue[d] # <<>>
  /\ LET conn == Head(queue[d])
     IN  /\ busy' = [busy EXCEPT ![d] = conn]
         /\ link' = [c \in Clients |-> IF c = conn THEN "accepted" ELSE link[c]]
  /\ queue' = [queue EXCEPT ![d] = Tail(@)]
  /\ Goto(d, "recv")
  /\ UNCHANGED <<path, perm, listening, response, shuttingDown, resume, exit, starts,
                 cpc, sent, reply, out>>

\* accept() on a closed listener: the loop ends, with the signal's status if
\* the handler closed it.  (An error that is not ListenerGone is retried and
\* changes nothing.)
AcceptOnDeadListener(d) ==
  /\ pc[d] = "accept"
  /\ d \notin listening
  /\ ListenerGone(d)
  /\ exit' = [exit EXCEPT ![d] = IF d \in shuttingDown THEN "signal" ELSE "lost"]
  /\ Goto(d, "final close")
  /\ UNCHANGED <<socketVars, busy, response, shuttingDown, resume, starts, clientVars>>

\* A request line, or the end of the stream without one (the peer is gone).
RecvLine(d) ==
  /\ pc[d] = "recv"
  /\ busy[d] \in sent
  /\ \E r \in Evaluate(busy[d], DaemonMode[d]) : response' = [response EXCEPT ![d] = r]
  /\ Goto(d, "reply")
  /\ UNCHANGED <<socketVars, busy, shuttingDown, resume, exit, starts, clientVars>>

PeerClosed(conn) == conn \notin {c \in Clients : cpc[c] \in Asking}

RecvEnd(d) ==
  /\ pc[d] = "recv"
  /\ busy[d] \notin sent
  /\ PeerClosed(busy[d])
  /\ response' = [response EXCEPT ![d] = TransportError(DaemonMode[d])]
  /\ Goto(d, "reply")
  /\ UNCHANGED <<socketVars, busy, shuttingDown, resume, exit, starts, clientVars>>

Finish(d) ==
  /\ busy' = [busy EXCEPT ![d] = None]
  /\ response' = [response EXCEPT ![d] = None]
  /\ Hangup({busy[d]})

\* Bugs it could have: no timeout on the connection; a connection that timed
\* out is dropped but never closed.
RecvForever(d) == FALSE

RecvTimeoutLeaks(d) ==
  /\ pc[d] = "recv"
  /\ busy[d] \notin sent
  /\ ~ PeerClosed(busy[d])
  /\ busy' = [busy EXCEPT ![d] = None]
  /\ Goto(d, "accept")
  /\ UNCHANGED <<socketVars, response, shuttingDown, resume, exit, starts, clientVars>>

\* conn.settimeout(10.0): a silent peer is dropped without an answer.
RecvTimeout(d) ==
  /\ pc[d] = "recv"
  /\ busy[d] \notin sent
  /\ ~ PeerClosed(busy[d])
  /\ Finish(d)
  /\ Goto(d, "accept")
  /\ UNCHANGED <<socketVars, shuttingDown, resume, exit, starts, cpc, sent, reply, out>>

\* sendall(): all of it, a part of it (the peer reads too slowly), or nothing
\* because the peer is gone.
Reply(d) ==
  /\ pc[d] = "reply"
  /\ LET c == busy[d] IN
       IF PeerClosed(c)
       THEN UNCHANGED reply
       ELSE \E data \in {response[d], Partial} : reply' = [reply EXCEPT ![c] = data]
  /\ Finish(d)
  /\ Goto(d, "accept")
  /\ UNCHANGED <<socketVars, shuttingDown, resume, exit, starts, cpc, sent, out>>

-------------------------------------------------------------------------------
(* Signals and the two clean-ups *)

\* A bug it could have: the handler does not set the shutdown marker.
SignalUnmarked(d) ==
  /\ pc[d] \in Serving \cup {"listen"}
  /\ d \notin shuttingDown
  /\ resume' = [resume EXCEPT ![d] = pc[d]]
  /\ Goto(d, "sig close")
  /\ UNCHANGED <<socketVars, busy, response, shuttingDown, exit, starts, clientVars>>

\* SIGTERM or SIGINT once the handlers are installed; a second one while the
\* handler runs repeats it and is left out.
Signal(d) ==
  /\ pc[d] \in Serving \cup {"listen"}
  /\ d \notin shuttingDown
  /\ shuttingDown' = shuttingDown \cup {d}
  /\ resume' = [resume EXCEPT ![d] = pc[d]]
  /\ Goto(d, "sig close")
  /\ UNCHANGED <<socketVars, busy, response, exit, starts, clientVars>>

SigClose(d) ==
  /\ pc[d] = "sig close"
  /\ CloseListener(d)
  /\ Hangup(Pending(d))
  /\ Goto(d, "sig unlink")
  /\ UNCHANGED <<perm, busy, response, shuttingDown, resume, exit, starts,
                 cpc, sent, reply, out>>

SigUnlink(d) ==
  /\ pc[d] = "sig unlink"
  /\ UnlinkPath
  /\ Goto(d, "sig exit")
  /\ UNCHANGED <<perm, listening, queue, busy, response, shuttingDown, resume, exit, starts,
                 clientVars>>

\* SystemExit unwinds: past the connection being served, then through the
\* finally of serve(), which a signal before the accept loop never entered.
SigExit(d) ==
  /\ pc[d] = "sig exit"
  /\ exit' = [exit EXCEPT ![d] = "signal"]
  /\ Finish(d)
  /\ Goto(d, IF resume[d] = "listen" THEN "off" ELSE "final close")
  /\ resume' = [resume EXCEPT ![d] = "accept"]
  /\ UNCHANGED <<socketVars, shuttingDown, starts, cpc, sent, reply, out>>

\* The interpreter discards an exception raised in a destructor or a
\* callback: the loop goes on with its listener closed.
SigExitLost(d) ==
  /\ pc[d] = "sig exit"
  /\ resume[d] # "listen"
  /\ Goto(d, resume[d])
  /\ resume' = [resume EXCEPT ![d] = "accept"]
  /\ UNCHANGED <<socketVars, busy, response, shuttingDown, exit, starts, clientVars>>

FinalClose(d) ==
  /\ pc[d] = "final close"
  /\ CloseListener(d)
  /\ Hangup(Pending(d))
  /\ Goto(d, "final unlink")
  /\ UNCHANGED <<perm, busy, response, shuttingDown, resume, exit, starts,
                 cpc, sent, reply, out>>

FinalUnlink(d) ==
  /\ pc[d] = "final unlink"
  /\ UnlinkPath
  /\ Goto(d, "off")
  /\ UNCHANGED <<perm, listening, queue, busy, response, shuttingDown, resume, exit, starts,
                 clientVars>>

\* SIGKILL at any point, or a default-action signal while no handler is
\* installed: the kernel closes every descriptor and the path is left behind.
Kill(d) ==
  /\ pc[d] # "off"
  /\ CloseListener(d)
  /\ busy' = [busy EXCEPT ![d] = None]
  /\ response' = [response EXCEPT ![d] = None]
  /\ Hangup(Pending(d) \cup {busy[d]})
  /\ Exit(d, "killed")
  /\ resume' = [resume EXCEPT ![d] = "accept"]
  /\ UNCHANGED <<perm, shuttingDown, starts, cpc, sent, reply, out>>

-------------------------------------------------------------------------------
(* client() and _one_shot_fallback *)

MayConnect(c) == Connectable /\ (c \in Strangers => perm = "open")

\* A bug it could have: --fallback is forgotten on a path.
FailAlwaysExits(c) ==
  /\ cpc' = [cpc EXCEPT ![c] = "done"]
  /\ out' = [out EXCEPT ![c] = NoVerdict(ClientMode[c])]

\* Every transport failure ends here: evaluate in process, or exit 3.
Fail(c) ==
  IF c \in Fallback
  THEN /\ cpc' = [cpc EXCEPT ![c] = "one-shot"]
       /\ UNCHANGED out
  ELSE /\ cpc' = [cpc EXCEPT ![c] = "done"]
       /\ out' = [out EXCEPT ![c] = NoVerdict(ClientMode[c])]

StartClient(c) ==
  /\ cpc[c] = "idle"
  /\ cpc' = [cpc EXCEPT ![c] = "connect"]
  /\ UNCHANGED <<socketVars, daemonVars, link, sent, reply, out>>

Connect(c) ==
  /\ cpc[c] = "connect"
  /\ MayConnect(c)
  /\ Enqueue(c)
  /\ link' = [link EXCEPT ![c] = "queued"]
  /\ cpc' = [cpc EXCEPT ![c] = "send"]
  /\ UNCHANGED <<path, perm, listening, daemonVars, sent, reply, out>>

ConnectFails(c) ==
  /\ cpc[c] = "connect"
  /\ ~ MayConnect(c)
  /\ Fail(c)
  /\ UNCHANGED <<socketVars, daemonVars, link, sent, reply>>

\* The command is read from stdin, if it comes from there, only now.
Send(c) ==
  /\ cpc[c] = "send"
  /\ link[c] # "closed"
  /\ sent' = sent \cup {c}
  /\ cpc' = [cpc EXCEPT ![c] = "await"]
  /\ UNCHANGED <<socketVars, daemonVars, link, reply, out>>

SendFails(c) ==
  /\ cpc[c] = "send"
  /\ link[c] = "closed"
  /\ Fail(c)
  /\ UNCHANGED <<socketVars, daemonVars, link, sent, reply>>

\* What counts as an answer: a whole line holding a JSON object with an action.
IsVerdict(data) == data \notin {None, Partial}

Receive(c) ==
  /\ cpc[c] = "await"
  /\ IsVerdict(reply[c])
  /\ out' = [out EXCEPT ![c] = reply[c]]
  /\ cpc' = [cpc EXCEPT ![c] = "done"]
  /\ UNCHANGED <<socketVars, daemonVars, link, sent, reply>>

\* A bug it could have: the read loop waits for a newline that cannot come.
ReceiveFailsOnEmpty(c) ==
  /\ cpc[c] = "await"
  /\ link[c] = "closed"
  /\ reply[c] = None
  /\ Fail(c)
  /\ UNCHANGED <<socketVars, daemonVars, link, sent, reply>>

\* The connection ends with no answer, or with half of one.
ReceiveFails(c) ==
  /\ cpc[c] = "await"
  /\ link[c] = "closed"
  /\ ~ IsVerdict(reply[c])
  /\ Fail(c)
  /\ UNCHANGED <<socketVars, daemonVars, link, sent, reply>>

\* client_sock.settimeout(10.0): the daemon is alive and slow.
ClientTimeout(c) ==
  /\ cpc[c] = "await"
  /\ link[c] # "closed"
  /\ Fail(c)
  /\ UNCHANGED <<socketVars, daemonVars, link, sent, reply>>

\* The one-shot bridge in this process.  A command given as an argument is
\* handed to it; for a command on stdin it reads stdin itself, once the caller
\* ends it or writes to it, and finds no request line: the client has consumed
\* the command, or the command is there and is not JSON.
OneShot(c) ==
  /\ cpc[c] = "one-shot"
  /\ \E r \in IF c \in Stdin THEN {TransportError(ClientMode[c])}
                             ELSE Evaluate(c, ClientMode[c]) :
       out' = [out EXCEPT ![c] = r]
  /\ cpc' = [cpc EXCEPT ![c] = "done"]
  /\ UNCHANGED <<socketVars, daemonVars, link, sent, reply>>

-------------------------------------------------------------------------------
StartUp(d) == \/ CheckExists(d) \/ ProbeLive(d) \/ ProbeDead(d) \/ UnlinkStale(d)
              \/ UnlinkFails(d) \/ Bind(d) \/ BindFails(d) \/ Chmod(d) \/ ChmodFails(d)
              \/ GiveUp(d) \/ InstallHandlers(d) \/ Listen(d)

Serve(d) == \/ Accept(d) \/ AcceptOnDeadListener(d) \/ RecvLine(d) \/ RecvEnd(d)
            \/ RecvTimeout(d) \/ Reply(d)

Stop(d) == \/ SigClose(d) \/ SigUnlink(d) \/ SigExit(d) \/ SigExitLost(d)
           \/ FinalClose(d) \/ FinalUnlink(d)

\* What the process does of its own accord, as against what is done to it.
Daemon(d) == StartUp(d) \/ Serve(d) \/ Stop(d)

AfterSend(c) == SendFails(c) \/ Receive(c) \/ ReceiveFails(c) \/ ClientTimeout(c)

Client(c) == \/ StartClient(c) \/ Connect(c) \/ ConnectFails(c) \/ Send(c) \/ AfterSend(c)
             \/ OneShot(c)

Next == \/ \E d \in Daemons : Start(d) \/ Daemon(d) \/ Signal(d) \/ Kill(d)
        \/ \E c \in Clients : Client(c)

Spec == Init /\ [][Next]_vars

\* A running process is scheduled.  Nothing makes an operator start, signal or
\* kill one, and nothing makes a caller write to a stdin it holds open or end it:
\* Send and OneShot, which read there without a time-out, are fair only for a
\* client that has its command already.
Fairness ==
  /\ \A d \in Daemons : WF_vars(Daemon(d))
  /\ \A c \in Clients : WF_vars(AfterSend(c) \/ Connect(c) \/ ConnectFails(c))
  /\ \A c \in Clients \ Stdin : WF_vars(Send(c)) /\ WF_vars(OneShot(c))

FairSpec == Spec /\ Fairness

-------------------------------------------------------------------------------
(* Properties *)

\* A socket inode that a connection can reach is owner-only (0600): bind
\* creates it open, the chmod goes by name and can hit another daemon's inode,
\* and listen comes later.
ServedInodeIsOwnerOnly == path \in listening => perm = "owner"

\* Nobody but the owner of the socket is ever connected to a daemon.
StrangersKeptOut == \A c \in Strangers : link[c] = "none" /\ c \notin sent

\* The socket is the owner's alone, through every race for its path: what can be
\* reached there is 0600, and nobody else's request ever gets in.
OnlyTheOwnerIsServed == ServedInodeIsOwnerOnly /\ StrangersKeptOut

\* An allow that a process in enforce mode gives is an engine evaluation, of
\* the very command this client asked about, that allowed it: no transport
\* failure, crash, late or truncated answer becomes one.
EnforceNeverFailsOpen == \A c \in Clients : out[c] # None => Earned(c, out[c])

\* A daemon never reports "listener lost" for a shutdown it was asked for,
\* whenever the signal lands and even if its SystemExit is discarded.
ShutdownIsNeverLost == \A d \in Daemons : exit[d] # "lost"

\* A connection is in one place at a time: waiting in one queue, being served
\* by one daemon, or closed.  Nobody is answered twice or left in a queue
\* nobody will accept from.
Queued(c) == {d \in Daemons : c \in Pending(d)}
Served(c) == {d \in Daemons : busy[d] = c}

OneHolder ==
  \A c \in Clients :
    /\ link[c] = "queued"   => Served(c) = {} /\ \E d \in listening : Queued(c) = {d}
    /\ link[c] = "accepted" => Queued(c) = {} /\ \E d \in Daemons : Served(c) = {d}
    /\ link[c] \in {"none", "closed"} => Queued(c) = {} /\ Served(c) = {}

\* A daemon that starts leaves a live socket alone.
StartLeavesLiveSocket ==
  [][\A d \in listening : path = d /\ path' # d => ~ \E e \in Daemons : StartUp(e)]_vars

\* A client whose command is under way answers its caller, whatever the daemon
\* does: serves it, stalls, dies, shuts down or is displaced.  One that falls back
\* to a bridge on its own stdin gets as far as that, and there it waits for its caller.
WaitsForCaller(c) == c \in Stdin /\ cpc[c] = "one-shot"

EveryRequestEnds ==
  \A c \in Clients : (cpc[c] \in {"await", "one-shot"}) ~> (cpc[c] = "done" \/ WaitsForCaller(c))

\* As the docstring of client() has it: with the fallback the answer comes from a real
\* engine evaluation, by the daemon or in process.
FallbackIsEvaluated ==
  \A c \in Fallback : out[c] # None => \E m \in Modes : out[c] \in Evaluate(c, m)

\* A client that connects and stays silent does not hold the daemon.
ServerNeverWedged ==
  \A d \in Daemons : (pc[d] \in {"recv", "reply"}) ~> (pc[d] \in {"accept", "off"})

\* A daemon whose handler ran stops, with the status of its signal.
SignalledDaemonStops ==
  \A d \in Daemons : (pc[d] = "sig close") ~> (pc[d] = "off" /\ exit[d] \in {"signal", "killed"})

\* A daemon that no other one disturbs gets from its start-up to serving,
\* whatever a crash, its own or another's, left at the path.
Alone(d) == \A e \in Daemons \ {d} : pc[e] = "off"

LoneStartServes ==
  \A d \in Daemons : (pc[d] = "exists" /\ []Alone(d)) ~>
                     (d \in listening \/ exit[d] \in {"signal", "killed"})

-------------------------------------------------------------------------------
(* The verdict service it implements. *)

Service == INSTANCE VerdictService WITH
  AnswerModes <- [c \in Clients |-> {ClientMode[c]} \cup
                    (IF c \in Strangers THEN {} ELSE {DaemonMode[d] : d \in Daemons})],
  Unanswered  <- None,
  asked       <- {c \in Clients : cpc[c] # "idle"},
  answer      <- out

\* Every answer is one the service permits, and each client gets one.
ImplementsService == Service!Spec
===============================================================================
