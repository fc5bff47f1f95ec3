------------------------- MODULE ResidentBridgeProofs -------------------------
(***************************************************************************)
(* Proofs about ResidentBridge, for any number of daemons and clients, any *)
(* modes, policy, backlog and faults.                                      *)
(***************************************************************************)
EXTENDS ResidentBridge, SequenceTheorems, TLAPS

-------------------------------------------------------------------------------
(* The operators the specification is built from. *)

\* What an evaluation, an envelope or a refusal yields is an answer.
LEMMA EnvelopesAreTyped ==
  ASSUME NEW m \in Modes
  PROVE  TransportError(m) \in Answers /\ EngineError(m) \in Answers /\ NoVerdict(m) \in Answers
BY DEF EngineError, TransportError, NoVerdict, Answers, Actions, Modes

LEMMA VerdictsAreTyped ==
  ASSUME NEW c \in Clients, NEW m \in Modes
  PROVE  Verdict(c, m) \in Answers
<1>1. EngineAction(c, m) \in Actions
  BY PolicyAssumption DEF EngineAction, Actions
<1> QED BY <1>1 DEF Verdict, Answers

LEMMA EvaluationsAreTyped ==
  ASSUME NEW c \in Clients, NEW m \in Modes
  PROVE  Evaluate(c, m) \subseteq Answers
BY EnvelopesAreTyped, VerdictsAreTyped DEF Evaluate

\* The connections of a queue come from the set the queue is over.
LEMMA PendingIsTyped ==
  ASSUME NEW S, NEW d \in Daemons, queue \in [Daemons -> Seq(S)]
  PROVE  Pending(d) \subseteq S
BY DEF Pending

-------------------------------------------------------------------------------
(* Types, for every action.  The actions are taken in the groups of Next.  *)

LEMMA InitTypeOK == Init => TypeOK
BY BridgeAssumption DEF Init, TypeOK, DaemonSteps, Starting, Serving, Exits, ClientSteps, Asking

LEMMA StartUpTypeOK ==
  ASSUME TypeOK, NEW d \in Daemons, Start(d) \/ StartUp(d)
  PROVE  TypeOK'
<1> USE BridgeAssumption
<1> USE DEF TypeOK, DaemonSteps, Starting, Exits, Goto, Exit, socketVars, clientVars
<1>1. CASE Start(d)          BY <1>1 DEF Start
<1>2. CASE CheckExists(d)    BY <1>2 DEF CheckExists
<1>3. CASE ProbeLive(d)      BY <1>3 DEF ProbeLive, Enqueue, Connectable
<1>4. CASE ProbeDead(d)      BY <1>4 DEF ProbeDead
<1>5. CASE UnlinkStale(d)    BY <1>5 DEF UnlinkStale
<1>6. CASE UnlinkFails(d)    BY <1>6 DEF UnlinkFails
<1>7. CASE Bind(d)           BY <1>7 DEF Bind
<1>8. CASE BindFails(d)      BY <1>8 DEF BindFails
<1>9. CASE Chmod(d)          BY <1>9 DEF Chmod
<1>10. CASE ChmodFails(d)    BY <1>10 DEF ChmodFails
<1>11. CASE GiveUp(d)        BY <1>11 DEF GiveUp, UnlinkPath
<1>12. CASE InstallHandlers(d) BY <1>12 DEF InstallHandlers
<1>13. CASE Listen(d)        BY <1>13 DEF Listen, Serving
<1> QED BY <1>1, <1>2, <1>3, <1>4, <1>5, <1>6, <1>7, <1>8, <1>9, <1>10, <1>11, <1>12,
           <1>13 DEF StartUp

LEMMA ServeTypeOK ==
  ASSUME TypeOK, NEW d \in Daemons, Serve(d)
  PROVE  TypeOK'
<1> USE BridgeAssumption
<1> USE DEF TypeOK, DaemonSteps, Serving, Exits, Goto, socketVars, clientVars
<1>1. CASE Accept(d)               BY <1>1 DEF Accept
<1>2. CASE AcceptOnDeadListener(d) BY <1>2 DEF AcceptOnDeadListener, Final
<1>3. CASE RecvLine(d)             BY <1>3, EvaluationsAreTyped DEF RecvLine
<1>4. CASE RecvEnd(d)              BY <1>4, EnvelopesAreTyped DEF RecvEnd
<1>5. CASE RecvTimeout(d)          BY <1>5 DEF RecvTimeout, Finish, Hangup
<1>6. CASE Reply(d)
  <2>1. /\ busy' \in [Daemons -> Clients \cup {Probe, None}]
        /\ response' \in [Daemons -> Answers \cup {None}]
        /\ link' \in [Clients -> {"none", "queued", "accepted", "closed"}]
    BY <1>6 DEF Reply, Finish, Hangup
  <2>2. reply' \in [Clients -> Answers \cup {None, Partial}]
    <3>1. CASE UNCHANGED reply
      BY <3>1
    <3>2. CASE \E data \in {response[d], Partial} : reply' = [reply EXCEPT ![busy[d]] = data]
      BY <3>2
    <3> QED BY <1>6, <3>1, <3>2 DEF Reply
  <2>3. pc' \in [Daemons -> DaemonSteps]
    BY <1>6 DEF Reply
  <2>4. UNCHANGED <<socketVars, shuttingDown, resume, exit, starts, cpc, sent, out>>
    BY <1>6 DEF Reply
  <2> QED BY <2>1, <2>2, <2>3, <2>4
<1> QED BY <1>1, <1>2, <1>3, <1>4, <1>5, <1>6 DEF Serve

LEMMA StopTypeOK ==
  ASSUME TypeOK, NEW d \in Daemons, Stop(d) \/ Signal(d) \/ Kill(d)
  PROVE  TypeOK'
<1>0. <<>> \in Seq(Clients \cup {Probe})
  OBVIOUS
<1> USE BridgeAssumption
<1> USE DEF TypeOK, DaemonSteps, Serving, Stopping, Final, Exits, Goto, Hangup,
            socketVars, clientVars
<1>1. CASE SigClose(d)    BY <1>0, <1>1 DEF SigClose, CloseListener
<1>2. CASE SigUnlink(d)   BY <1>2 DEF SigUnlink, UnlinkPath
<1>3. CASE SigExit(d)     BY <1>3 DEF SigExit, Finish
<1>4. CASE SigExitLost(d) BY <1>4 DEF SigExitLost
<1>5. CASE FinalClose(d)  BY <1>0, <1>5 DEF FinalClose, CloseListener
<1>6. CASE FinalUnlink(d) BY <1>6 DEF FinalUnlink, UnlinkPath
<1>7. CASE Signal(d)      BY <1>7 DEF Signal
<1>8. CASE Kill(d)        BY <1>0, <1>8 DEF Kill, CloseListener, Exit
<1> QED BY <1>1, <1>2, <1>3, <1>4, <1>5, <1>6, <1>7, <1>8 DEF Stop

\* A transport failure leaves the client its fallback or exits without verdict.
LEMMA FailIsTyped ==
  ASSUME TypeOK, NEW c \in Clients, Fail(c)
  PROVE  cpc' \in [Clients -> ClientSteps] /\ out' \in [Clients -> Answers \cup {None}]
<1>1. NoVerdict(ClientMode[c]) \in Answers
  BY BridgeAssumption, EnvelopesAreTyped
<1>2. CASE c \in Fallback
  BY <1>2 DEF Fail, TypeOK, ClientSteps
<1>3. CASE c \notin Fallback
  BY <1>1, <1>3 DEF Fail, TypeOK, ClientSteps
<1> QED BY <1>2, <1>3

LEMMA ClientTypeOK ==
  ASSUME TypeOK, NEW c \in Clients, Client(c)
  PROVE  TypeOK'
<1>f. Fail(c) => cpc' \in [Clients -> ClientSteps] /\ out' \in [Clients -> Answers \cup {None}]
  BY FailIsTyped
<1> USE BridgeAssumption
<1> USE DEF TypeOK, ClientSteps, Asking, socketVars, daemonVars
<1>0. ClientMode[c] \in Modes
  BY BridgeAssumption
<1>1. CASE StartClient(c)   BY <1>1 DEF StartClient
<1>2. CASE Connect(c)       BY <1>2 DEF Connect, MayConnect, Connectable, Enqueue
<1>3. CASE ConnectFails(c)  BY <1>f, <1>3 DEF ConnectFails
<1>4. CASE Send(c)          BY <1>4 DEF Send
<1>5. CASE SendFails(c)     BY <1>f, <1>5 DEF SendFails
<1>6. CASE Receive(c)       BY <1>6 DEF Receive, IsVerdict
<1>7. CASE ReceiveFails(c)  BY <1>f, <1>7 DEF ReceiveFails
<1>8. CASE ClientTimeout(c) BY <1>f, <1>8 DEF ClientTimeout
<1>9. CASE OneShot(c)       BY <1>0, <1>9, EnvelopesAreTyped, EvaluationsAreTyped DEF OneShot
<1> QED BY <1>1, <1>2, <1>3, <1>4, <1>5, <1>6, <1>7, <1>8, <1>9 DEF Client, AfterSend

\* Every variable keeps its type, whatever interleaving of daemons, clients,
\* signals and crashes.
THEOREM TypeCorrect == Spec => []TypeOK
<1>1. Init => TypeOK
  BY InitTypeOK
<1>2. TypeOK /\ [Next]_vars => TypeOK'
  <2> SUFFICES ASSUME TypeOK, [Next]_vars PROVE TypeOK'
    OBVIOUS
  <2>1. CASE \E d \in Daemons : Start(d) \/ Daemon(d) \/ Signal(d) \/ Kill(d)
    BY <2>1, StartUpTypeOK, ServeTypeOK, StopTypeOK DEF Daemon
  <2>2. CASE \E c \in Clients : Client(c)
    BY <2>2, ClientTypeOK
  <2>3. CASE UNCHANGED vars
    BY <2>3 DEF TypeOK, vars, socketVars, daemonVars, clientVars
  <2> QED BY <2>1, <2>2, <2>3 DEF Next
<1> QED BY <1>1, <1>2, PTL DEF Spec

-------------------------------------------------------------------------------
(* Who can connect. *)

\* The inode at the path is tight from the moment the daemon that bound it has
\* passed its chmod, and only a daemon that has passed it listens.
Past == {"handlers", "listen"} \cup Serving \cup Stopping

TightBeforeListening ==
  /\ path \in Daemons /\ pc[path] \in Past => perm = "owner"
  /\ \A d \in listening : pc[d] \in Serving \cup {"sig close"}

LEMMA TightImpliesOwnerOnly == TightBeforeListening /\ TypeOK => ServedInodeIsOwnerOnly
BY DEF TightBeforeListening, TypeOK, ServedInodeIsOwnerOnly, Past, Stopping

LEMMA TightInit == Init => TightBeforeListening
BY BridgeAssumption DEF Init, TightBeforeListening

LEMMA TightStartUp ==
  ASSUME TypeOK, TightBeforeListening, NEW d \in Daemons, Start(d) \/ StartUp(d)
  PROVE  TightBeforeListening'
<1> USE BridgeAssumption
<1> USE DEF TypeOK, TightBeforeListening, Past, Serving, Stopping, Goto, Exit, socketVars
<1>1. CASE Start(d)          BY <1>1 DEF Start
<1>2. CASE CheckExists(d)    BY <1>2 DEF CheckExists
<1>3. CASE ProbeLive(d)      BY <1>3 DEF ProbeLive
<1>4. CASE ProbeDead(d)      BY <1>4 DEF ProbeDead
<1>5. CASE UnlinkStale(d)    BY <1>5 DEF UnlinkStale
<1>6. CASE UnlinkFails(d)    BY <1>6 DEF UnlinkFails
<1>7. CASE Bind(d)           BY <1>7 DEF Bind
<1>8. CASE BindFails(d)      BY <1>8 DEF BindFails
<1>9. CASE Chmod(d)          BY <1>9 DEF Chmod
<1>10. CASE ChmodFails(d)    BY <1>10 DEF ChmodFails
<1>11. CASE GiveUp(d)        BY <1>11 DEF GiveUp, UnlinkPath
<1>12. CASE InstallHandlers(d) BY <1>12 DEF InstallHandlers
<1>13. CASE Listen(d)
  <2>1. pc[d] = "listen" /\ pc' = [pc EXCEPT ![d] = "accept"]
        /\ listening' = listening \cup {d} /\ UNCHANGED <<path, perm>>
    BY <1>13 DEF Listen
  <2>2. (path \in Daemons /\ pc[path] \in Past => perm = "owner")'
    BY <2>1
  <2>3. ASSUME NEW e \in listening' PROVE pc'[e] \in Serving \cup {"sig close"}
    <3>1. CASE e = d
      BY <2>1, <3>1
    <3>2. CASE e # d
      <4>1. e \in listening /\ pc'[e] = pc[e]
        BY <2>1, <3>2
      <4> QED BY <4>1
    <3> QED BY <3>1, <3>2
  <2> QED BY <2>2, <2>3
<1> QED BY <1>1, <1>2, <1>3, <1>4, <1>5, <1>6, <1>7, <1>8, <1>9, <1>10, <1>11, <1>12,
           <1>13 DEF StartUp

LEMMA TightServe ==
  ASSUME TypeOK, TightBeforeListening, NEW d \in Daemons, Serve(d)
  PROVE  TightBeforeListening'
<1> USE BridgeAssumption
<1> USE DEF TypeOK, TightBeforeListening, Past, Serving, Stopping, Goto, socketVars
<1>1. CASE Accept(d)               BY <1>1 DEF Accept
<1>2. CASE AcceptOnDeadListener(d) BY <1>2 DEF AcceptOnDeadListener
<1>3. CASE RecvLine(d)             BY <1>3 DEF RecvLine
<1>4. CASE RecvEnd(d)              BY <1>4 DEF RecvEnd
<1>5. CASE RecvTimeout(d)          BY <1>5 DEF RecvTimeout
<1>6. CASE Reply(d)                BY <1>6 DEF Reply
<1> QED BY <1>1, <1>2, <1>3, <1>4, <1>5, <1>6 DEF Serve

LEMMA TightStop ==
  ASSUME TypeOK, TightBeforeListening, NEW d \in Daemons, Stop(d) \/ Signal(d) \/ Kill(d)
  PROVE  TightBeforeListening'
<1> USE BridgeAssumption
<1> USE DEF TypeOK, TightBeforeListening, Past, Serving, Stopping, Goto, socketVars
<1>1. CASE SigClose(d)    BY <1>1 DEF SigClose, CloseListener
<1>2. CASE SigUnlink(d)   BY <1>2 DEF SigUnlink, UnlinkPath
<1>3. CASE SigExit(d)     BY <1>3 DEF SigExit
<1>4. CASE SigExitLost(d) BY <1>4 DEF SigExitLost
<1>5. CASE FinalClose(d)  BY <1>5 DEF FinalClose, CloseListener
<1>6. CASE FinalUnlink(d) BY <1>6 DEF FinalUnlink, UnlinkPath
<1>7. CASE Signal(d)      BY <1>7 DEF Signal
<1>8. CASE Kill(d)        BY <1>8 DEF Kill, CloseListener, Exit
<1> QED BY <1>1, <1>2, <1>3, <1>4, <1>5, <1>6, <1>7, <1>8 DEF Stop

\* No step of a client touches what TightBeforeListening is about.
LEMMA ClientLeavesSocket ==
  ASSUME NEW c \in Clients, Client(c)
  PROVE  UNCHANGED <<path, perm, pc, listening>>
BY DEF Client, AfterSend, StartClient, Connect, ConnectFails, Send, SendFails, Receive,
     ReceiveFails, ClientTimeout, OneShot, socketVars, daemonVars

LEMMA TightStep == TypeOK /\ TightBeforeListening /\ [Next]_vars => TightBeforeListening'
<1> SUFFICES ASSUME TypeOK, TightBeforeListening, [Next]_vars
             PROVE  TightBeforeListening'
  OBVIOUS
<1>1. CASE \E d \in Daemons : Start(d) \/ Daemon(d) \/ Signal(d) \/ Kill(d)
  BY <1>1, TightStartUp, TightServe, TightStop DEF Daemon
<1>2. CASE \E c \in Clients : Client(c)
  BY <1>2, ClientLeavesSocket DEF TightBeforeListening
<1>3. CASE UNCHANGED vars
  BY <1>3 DEF TightBeforeListening, vars, socketVars, daemonVars
<1> QED BY <1>1, <1>2, <1>3 DEF Next

\* A socket inode that a connection can reach is owner-only, for any number of
\* daemons that bind, chmod, unlink and die around the same path.
THEOREM OwnerOnly == Spec => []ServedInodeIsOwnerOnly
<1>1. Spec => []TightBeforeListening
  BY TightInit, TightStep, TypeCorrect, PTL DEF Spec
<1> QED BY <1>1, TypeCorrect, TightImpliesOwnerOnly, PTL

-------------------------------------------------------------------------------
(* Strangers. *)

\* No connection of a stranger is in a queue, in a daemon's hands or open.
StrangersOut ==
  /\ queue \in [Daemons -> Seq((Clients \ Strangers) \cup {Probe})]
  /\ busy \in [Daemons -> (Clients \ Strangers) \cup {Probe, None}]
  /\ \A c \in Strangers : link[c] = "none" /\ c \notin sent /\ cpc[c] \notin Asking

LEMMA StrangersInit == Init => StrangersOut
BY BridgeAssumption DEF Init, StrangersOut, Asking

LEMMA StrangersStartUp ==
  ASSUME TypeOK, StrangersOut, NEW d \in Daemons, Start(d) \/ StartUp(d)
  PROVE  StrangersOut'
<1> USE DEF StrangersOut, socketVars, clientVars
<1>1. CASE ProbeLive(d)
  <2>1. queue' \in [Daemons -> Seq((Clients \ Strangers) \cup {Probe})]
    BY <1>1 DEF ProbeLive, Enqueue, Connectable, TypeOK
  <2> QED BY <1>1, <2>1 DEF ProbeLive
<1>2. CASE Start(d) \/ CheckExists(d) \/ ProbeDead(d) \/ UnlinkStale(d) \/ UnlinkFails(d)
           \/ Bind(d) \/ BindFails(d) \/ Chmod(d) \/ ChmodFails(d) \/ GiveUp(d)
           \/ InstallHandlers(d) \/ Listen(d)
  BY <1>2 DEF Start, CheckExists, ProbeDead, UnlinkStale, UnlinkFails, Bind, BindFails, Chmod,
       ChmodFails, GiveUp, InstallHandlers, Listen
<1> QED BY <1>1, <1>2 DEF StartUp

\* Closing server ends that are no stranger's leaves the strangers' alone.
LEMMA HangupSparesStrangers ==
  ASSUME StrangersOut, NEW S, S \cap Strangers = {}, Hangup(S)
  PROVE  \A c \in Strangers : link'[c] = "none"
BY BridgeAssumption DEF StrangersOut, Hangup

LEMMA StrangersServe ==
  ASSUME TypeOK, StrangersOut, NEW d \in Daemons, Serve(d)
  PROVE  StrangersOut'
<1>0. {busy[d]} \cap Strangers = {}
  BY BridgeAssumption DEF StrangersOut
<1>f. Finish(d) => \A c \in Strangers : link'[c] = "none"
  BY <1>0, HangupSparesStrangers DEF Finish
<1> USE DEF StrangersOut, socketVars, clientVars
<1>1. CASE Accept(d)
  <2> DEFINE conn == Head(queue[d])
  <2>1. conn \in (Clients \ Strangers) \cup {Probe}
    BY <1>1 DEF Accept
  <2>2. conn \notin Strangers
    BY <2>1, BridgeAssumption
  <2>3. queue' \in [Daemons -> Seq((Clients \ Strangers) \cup {Probe})]
    BY <1>1 DEF Accept
  <2>4. busy' \in [Daemons -> (Clients \ Strangers) \cup {Probe, None}]
    BY <1>1, <2>1 DEF Accept
  <2>5. \A c \in Strangers : link'[c] = "none"
    BY <1>1, <2>2, BridgeAssumption DEF Accept
  <2> QED BY <1>1, <2>3, <2>4, <2>5 DEF Accept
<1>2. CASE AcceptOnDeadListener(d) \/ RecvLine(d) \/ RecvEnd(d)
  BY <1>2 DEF AcceptOnDeadListener, RecvLine, RecvEnd
<1>3. CASE RecvTimeout(d)
  BY <1>f, <1>3 DEF RecvTimeout, Finish
<1>4. CASE Reply(d)
  BY <1>f, <1>4 DEF Reply, Finish
<1> QED BY <1>1, <1>2, <1>3, <1>4 DEF Serve

LEMMA StrangersStop ==
  ASSUME TypeOK, StrangersOut, NEW d \in Daemons, Stop(d) \/ Signal(d) \/ Kill(d)
  PROVE  StrangersOut'
<1>0. {busy[d]} \cap Strangers = {}
  BY BridgeAssumption DEF StrangersOut
<1>1. Pending(d) \cap Strangers = {}
  <2>1. Pending(d) \subseteq (Clients \ Strangers) \cup {Probe}
    BY PendingIsTyped DEF StrangersOut
  <2> QED BY <2>1, BridgeAssumption
<1>f. Finish(d) => \A c \in Strangers : link'[c] = "none"
  BY <1>0, HangupSparesStrangers DEF Finish
<1>p. Hangup(Pending(d)) => \A c \in Strangers : link'[c] = "none"
  BY <1>1, HangupSparesStrangers
<1>b. Hangup(Pending(d) \cup {busy[d]}) => \A c \in Strangers : link'[c] = "none"
  <2>1. (Pending(d) \cup {busy[d]}) \cap Strangers = {}
    BY <1>0, <1>1
  <2> QED BY <2>1, HangupSparesStrangers
<1>q. CloseListener(d) => queue' \in [Daemons -> Seq((Clients \ Strangers) \cup {Probe})]
  BY DEF StrangersOut, CloseListener
<1> USE DEF StrangersOut, socketVars, clientVars
<1>2. CASE SigClose(d)    BY <1>p, <1>q, <1>2 DEF SigClose
<1>3. CASE FinalClose(d)  BY <1>p, <1>q, <1>3 DEF FinalClose
<1>4. CASE SigExit(d)     BY <1>f, <1>4 DEF SigExit, Finish
<1>5. CASE Kill(d)        BY <1>b, <1>q, <1>5 DEF Kill
<1>6. CASE SigUnlink(d) \/ SigExitLost(d) \/ FinalUnlink(d) \/ Signal(d)
  BY <1>6 DEF SigUnlink, SigExitLost, FinalUnlink, Signal
<1> QED BY <1>2, <1>3, <1>4, <1>5, <1>6 DEF Stop

LEMMA StrangersClient ==
  ASSUME TypeOK, StrangersOut, ServedInodeIsOwnerOnly, NEW c \in Clients, Client(c)
  PROVE  StrangersOut'
<1> USE BridgeAssumption
<1> USE DEF StrangersOut, socketVars, daemonVars, Asking
<1>f. Fail(c) => /\ \A e \in Clients \ {c} : cpc'[e] = cpc[e]
                 /\ cpc'[c] \in {"one-shot", "done"}
  BY DEF Fail, TypeOK
<1>1. CASE Connect(c)
  <2>1. c \notin Strangers
    BY <1>1 DEF Connect, MayConnect, Connectable, ServedInodeIsOwnerOnly
  <2>2. queue' \in [Daemons -> Seq((Clients \ Strangers) \cup {Probe})]
    BY <1>1, <2>1 DEF Connect, MayConnect, Connectable, Enqueue, TypeOK
  <2> QED BY <1>1, <2>1, <2>2 DEF Connect, TypeOK
<1>2. CASE ConnectFails(c) \/ SendFails(c) \/ ReceiveFails(c) \/ ClientTimeout(c)
  BY <1>f, <1>2 DEF ConnectFails, SendFails, ReceiveFails, ClientTimeout
<1>3. CASE StartClient(c) \/ Send(c) \/ Receive(c) \/ OneShot(c)
  BY <1>3 DEF StartClient, Send, Receive, OneShot, TypeOK
<1> QED BY <1>1, <1>2, <1>3 DEF Client, AfterSend

LEMMA StrangersInvariant == Spec => []StrangersOut
<1>1. TypeOK /\ ServedInodeIsOwnerOnly /\ StrangersOut /\ [Next]_vars => StrangersOut'
  <2> SUFFICES ASSUME TypeOK, ServedInodeIsOwnerOnly, StrangersOut, [Next]_vars
               PROVE  StrangersOut'
    OBVIOUS
  <2>1. CASE \E d \in Daemons : Start(d) \/ Daemon(d) \/ Signal(d) \/ Kill(d)
    BY <2>1, StrangersStartUp, StrangersServe, StrangersStop DEF Daemon
  <2>2. CASE \E c \in Clients : Client(c)
    BY <2>2, StrangersClient
  <2>3. CASE UNCHANGED vars
    BY <2>3 DEF StrangersOut, vars, socketVars, daemonVars, clientVars
  <2> QED BY <2>1, <2>2, <2>3 DEF Next
<1> QED BY StrangersInit, TypeCorrect, OwnerOnly, <1>1, PTL DEF Spec

\* No stranger is ever connected to a daemon.
THEOREM StrangersNeverServed == Spec => []StrangersKeptOut
<1>1. StrangersOut => StrangersKeptOut
  BY DEF StrangersOut, StrangersKeptOut
<1> QED BY StrangersInvariant, <1>1, PTL

\* The socket serves its owner and nobody else, for any number of daemons and clients.
THEOREM OwnerServed == Spec => []OnlyTheOwnerIsServed
BY OwnerOnly, StrangersNeverServed, PTL DEF OnlyTheOwnerIsServed

-------------------------------------------------------------------------------
(* The answers, and the service they implement. *)

\* What the service permits, in terms of who may have answered.
LEMMA PermittedHolds ==
  ASSUME NEW c \in Clients, NEW m \in Modes,
         \/ m = ClientMode[c]
         \/ c \notin Strangers /\ \E d \in Daemons : m = DaemonMode[d]
  PROVE  /\ Evaluate(c, m) \subseteq Service!Permitted(c)
         /\ TransportError(m) \in Service!Permitted(c)
         /\ c \notin Fallback => NoVerdict(m) \in Service!Permitted(c)
<1> DEFINE modes == {ClientMode[c]} \cup
                      (IF c \in Strangers THEN {} ELSE {DaemonMode[d] : d \in Daemons})
           at(n) == Evaluate(c, n) \cup {TransportError(n)}
                      \cup (IF c \in Fallback THEN {} ELSE {NoVerdict(n)})
<1>1. m \in modes
  OBVIOUS
<1>2. Service!Permitted(c) = UNION {at(n) : n \in modes}
  BY DEF Service!Permitted, Evaluate, Verdict, EngineError, TransportError, NoVerdict,
       EngineAction, NoCmd, Service!Evaluate, Service!Verdict, Service!EngineError,
       Service!TransportError, Service!NoVerdict, Service!EngineAction, Service!NoCmd
<1>3. at(m) \subseteq Service!Permitted(c)
  <2> HIDE DEF modes, at
  <2> QED BY <1>1, <1>2
<1> QED BY <1>3


\* Nothing the service permits runs a command the engine did not let run.
LEMMA PermittedIsEarned ==
  ASSUME NEW c \in Clients, NEW r \in Service!Permitted(c)
  PROVE  Earned(c, r)
<1> DEFINE modes == {ClientMode[c]} \cup
                      (IF c \in Strangers THEN {} ELSE {DaemonMode[d] : d \in Daemons})
           at(n) == Evaluate(c, n) \cup {TransportError(n)}
                      \cup (IF c \in Fallback THEN {} ELSE {NoVerdict(n)})
<1>a. Service!Permitted(c) = UNION {at(n) : n \in modes}
  BY DEF Service!Permitted, Evaluate, Verdict, EngineError, TransportError, NoVerdict,
         EngineAction, NoCmd, Service!Evaluate, Service!Verdict, Service!EngineError,
         Service!TransportError, Service!NoVerdict, Service!EngineAction, Service!NoCmd
<1>b. PICK m \in modes : r \in at(m)
  <2> HIDE DEF modes, at
  <2> QED BY <1>a
<1>1. r \in {Verdict(c, m), EngineError(m), TransportError(m), NoVerdict(m)}
  BY <1>b DEF Evaluate
<1>2. CASE r = Verdict(c, m)
  BY <1>2 DEF Earned, Verdict, EngineAction
<1>3. CASE r = EngineError(m)
  BY <1>3 DEF Earned, EngineError
<1>4. CASE r = TransportError(m)
  BY <1>4 DEF Earned, TransportError
<1>5. CASE r = NoVerdict(m)
  BY <1>5 DEF Earned, NoVerdict
<1> QED BY <1>1, <1>2, <1>3, <1>4, <1>5

\* A response exists only between the evaluation and the send, even across a
\* signal; whatever is in a daemon's hands, on the wire or printed is permitted.
HoldsResponse(d) == \/ pc[d] = "reply"
                    \/ pc[d] \in Stopping /\ resume[d] = "reply"

AnswersPermitted ==
  /\ \A d \in Daemons : response[d] # None => HoldsResponse(d)
  /\ \A d \in Daemons : busy[d] \in Clients /\ response[d] # None
                        => response[d] \in Service!Permitted(busy[d])
  /\ \A c \in Clients : IsVerdict(reply[c]) => reply[c] \in Service!Permitted(c)
  /\ \A c \in Clients : IF cpc[c] = "done" THEN out[c] \in Service!Permitted(c) ELSE out[c] = None

LEMMA PermittedInit == Init => AnswersPermitted
BY DEF Init, AnswersPermitted, IsVerdict

LEMMA PermittedStartUp ==
  ASSUME TypeOK, AnswersPermitted, NEW d \in Daemons, Start(d) \/ StartUp(d)
  PROVE  AnswersPermitted'
<1>1. UNCHANGED <<busy, response, resume, reply, cpc, out>>
  BY DEF Start, StartUp, CheckExists, ProbeLive, ProbeDead, UnlinkStale, UnlinkFails, Bind,
         BindFails, Chmod, ChmodFails, GiveUp, InstallHandlers, Listen, clientVars
<1>2. /\ pc[d] \notin {"reply"} \cup Stopping
      /\ \A e \in Daemons \ {d} : pc'[e] = pc[e]
  BY DEF Start, StartUp, CheckExists, ProbeLive, ProbeDead, UnlinkStale, UnlinkFails, Bind,
         BindFails, Chmod, ChmodFails, GiveUp, InstallHandlers, Listen, Goto, Exit, TypeOK,
         Stopping
<1>3. (\A e \in Daemons : response[e] # None => HoldsResponse(e))'
  BY <1>1, <1>2 DEF AnswersPermitted, HoldsResponse
<1> QED BY <1>1, <1>3 DEF AnswersPermitted, IsVerdict

LEMMA PermittedServe ==
  ASSUME TypeOK, StrangersOut, AnswersPermitted, NEW d \in Daemons, Serve(d)
  PROVE  AnswersPermitted'
<1> USE DEF AnswersPermitted, HoldsResponse, IsVerdict, Goto, clientVars
<1>0. DaemonMode[d] \in Modes /\ busy[d] \notin Strangers
  BY BridgeAssumption DEF StrangersOut
<1>1. CASE Accept(d) \/ AcceptOnDeadListener(d)
  <2>1. response[d] = None
    BY <1>1 DEF Accept, AcceptOnDeadListener, Stopping
  <2> QED BY <1>1, <2>1 DEF Accept, AcceptOnDeadListener, TypeOK
<1>2. CASE RecvLine(d)
  <2>1. busy[d] \in Clients
    BY <1>2 DEF RecvLine, TypeOK
  <2>2. PICK r \in Evaluate(busy[d], DaemonMode[d]) : response' = [response EXCEPT ![d] = r]
    BY <1>2 DEF RecvLine
  <2>3. r \in Service!Permitted(busy[d])
    BY <1>0, <2>1, PermittedHolds
  <2>a. pc' = [pc EXCEPT ![d] = "reply"] /\ UNCHANGED <<busy, resume, reply, cpc, out>>
    BY <1>2 DEF RecvLine
  <2>b. (\A e \in Daemons : response[e] # None => HoldsResponse(e))'
    BY <1>2, <2>a DEF RecvLine, TypeOK
  <2>c. (\A e \in Daemons : busy[e] \in Clients /\ response[e] # None
                            => response[e] \in Service!Permitted(busy[e]))'
    BY <1>2, <2>a, <2>2, <2>3 DEF RecvLine, TypeOK
  <2> QED BY <2>a, <2>b, <2>c
<1>3. CASE RecvEnd(d)
  <2>1. busy[d] \in Clients => TransportError(DaemonMode[d]) \in Service!Permitted(busy[d])
    BY <1>0, PermittedHolds
  <2>a. pc' = [pc EXCEPT ![d] = "reply"] /\ UNCHANGED <<busy, resume, reply, cpc, out>>
    BY <1>3 DEF RecvEnd
  <2>b. (\A e \in Daemons : response[e] # None => HoldsResponse(e))'
    BY <1>3, <2>a DEF RecvEnd, TypeOK
  <2>c. (\A e \in Daemons : busy[e] \in Clients /\ response[e] # None
                            => response[e] \in Service!Permitted(busy[e]))'
    BY <1>3, <2>a, <2>1 DEF RecvEnd, TypeOK
  <2> QED BY <2>a, <2>b, <2>c
<1>4. CASE RecvTimeout(d)
  BY <1>4 DEF RecvTimeout, Finish, TypeOK
<1>5. CASE Reply(d)
  <2>1. \A c \in Clients : IsVerdict(reply'[c]) => reply'[c] \in Service!Permitted(c)
    BY <1>5 DEF Reply, PeerClosed, TypeOK
  <2> QED BY <1>5, <2>1 DEF Reply, Finish, TypeOK
<1> QED BY <1>1, <1>2, <1>3, <1>4, <1>5 DEF Serve

LEMMA PermittedStop ==
  ASSUME TypeOK, AnswersPermitted, NEW d \in Daemons, Stop(d) \/ Signal(d) \/ Kill(d)
  PROVE  AnswersPermitted'
<1> USE DEF AnswersPermitted, HoldsResponse, IsVerdict, Goto, clientVars, TypeOK, Serving, Stopping
<1>1. CASE SigClose(d)    BY <1>1 DEF SigClose
<1>2. CASE SigUnlink(d)   BY <1>2 DEF SigUnlink
<1>3. CASE SigExit(d)     BY <1>3 DEF SigExit, Finish
<1>4. CASE SigExitLost(d) BY <1>4 DEF SigExitLost
<1>5. CASE FinalClose(d)  BY <1>5 DEF FinalClose
<1>6. CASE FinalUnlink(d) BY <1>6 DEF FinalUnlink
<1>7. CASE Signal(d)      BY <1>7 DEF Signal
<1>8. CASE Kill(d)        BY <1>8 DEF Kill, Exit
<1> QED BY <1>1, <1>2, <1>3, <1>4, <1>5, <1>6, <1>7, <1>8 DEF Stop

\* A step of a client either leaves it unanswered or answers it, once, with
\* something permitted.
Settles(c) ==
  /\ cpc[c] \notin {"idle", "done"}
  /\ cpc' = [cpc EXCEPT ![c] = "done"]
  /\ \E r \in Service!Permitted(c) : out' = [out EXCEPT ![c] = r]

Proceeds(c) ==
  /\ cpc[c] # "done"
  /\ \E step \in ClientSteps \ {"idle", "done"} : cpc' = [cpc EXCEPT ![c] = step]
  /\ UNCHANGED out

LEMMA ClientAnswers ==
  ASSUME TypeOK, AnswersPermitted, NEW c \in Clients, Client(c)
  PROVE  Settles(c) \/ Proceeds(c)
<1>0. ClientMode[c] \in Modes
  BY BridgeAssumption
<1>f. Fail(c) /\ cpc[c] \notin {"idle", "done"} => Settles(c) \/ Proceeds(c)
  BY <1>0, PermittedHolds DEF Fail, Settles, Proceeds, ClientSteps
<1>1. CASE StartClient(c)   BY <1>1 DEF StartClient, Proceeds, ClientSteps
<1>2. CASE Connect(c)       BY <1>2 DEF Connect, Proceeds, ClientSteps, Asking
<1>3. CASE ConnectFails(c)  BY <1>3, <1>f DEF ConnectFails
<1>4. CASE Send(c)          BY <1>4 DEF Send, Proceeds, ClientSteps, Asking
<1>5. CASE SendFails(c)     BY <1>5, <1>f DEF SendFails
<1>6. CASE Receive(c)       BY <1>6 DEF Receive, Settles, AnswersPermitted
<1>7. CASE ReceiveFails(c)  BY <1>7, <1>f DEF ReceiveFails
<1>8. CASE ClientTimeout(c) BY <1>8, <1>f DEF ClientTimeout
<1>9. CASE OneShot(c)
  <2>1. PICK r \in IF c \in Stdin THEN {TransportError(ClientMode[c])}
                                  ELSE Evaluate(c, ClientMode[c]) :
             out' = [out EXCEPT ![c] = r]
    BY <1>9 DEF OneShot
  <2>2. r \in Service!Permitted(c)
    BY <1>0, <2>1, PermittedHolds
  <2> QED BY <1>9, <2>1, <2>2 DEF OneShot, Settles
<1> QED BY <1>1, <1>2, <1>3, <1>4, <1>5, <1>6, <1>7, <1>8, <1>9 DEF Client, AfterSend

LEMMA PermittedClient ==
  ASSUME TypeOK, AnswersPermitted, NEW c \in Clients, Client(c)
  PROVE  AnswersPermitted'
<1>1. UNCHANGED <<pc, busy, response, resume, reply>>
  BY DEF Client, AfterSend, StartClient, Connect, ConnectFails, Send, SendFails, Receive,
         ReceiveFails, ClientTimeout, OneShot, daemonVars
<1>2. \A e \in Clients : IF cpc'[e] = "done" THEN out'[e] \in Service!Permitted(e)
                                             ELSE out'[e] = None
  BY ClientAnswers DEF Settles, Proceeds, AnswersPermitted, TypeOK
<1> QED BY <1>1, <1>2 DEF AnswersPermitted, HoldsResponse, IsVerdict

LEMMA PermittedInvariant == Spec => []AnswersPermitted
<1>1. TypeOK /\ StrangersOut /\ AnswersPermitted /\ [Next]_vars => AnswersPermitted'
  <2> SUFFICES ASSUME TypeOK, StrangersOut, AnswersPermitted, [Next]_vars
               PROVE  AnswersPermitted'
    OBVIOUS
  <2>1. CASE \E d \in Daemons : Start(d) \/ Daemon(d) \/ Signal(d) \/ Kill(d)
    BY <2>1, PermittedStartUp, PermittedServe, PermittedStop DEF Daemon
  <2>2. CASE \E c \in Clients : Client(c)
    BY <2>2, PermittedClient
  <2>3. CASE UNCHANGED vars
    BY <2>3 DEF AnswersPermitted, HoldsResponse, IsVerdict, vars, daemonVars, clientVars
  <2> QED BY <2>1, <2>2, <2>3 DEF Next
<1> QED BY PermittedInit, TypeCorrect, StrangersInvariant, <1>1, PTL DEF Spec

\* In enforce mode only an engine that let this client's own command run lets
\* it run, through every crash, time-out, truncated answer and fallback.
THEOREM NeverFailsOpen == Spec => []EnforceNeverFailsOpen
<1>1. TypeOK /\ AnswersPermitted => EnforceNeverFailsOpen
  BY PermittedIsEarned DEF AnswersPermitted, EnforceNeverFailsOpen
<1> QED BY TypeCorrect, PermittedInvariant, <1>1, PTL

\* The daemons, the kernel's queues, the clients and their fallback together
\* behave as the verdict service: each client is answered at most once, with
\* something the service permits.
THEOREM Implements == Spec => ImplementsService
<1>1. Init => Service!Init
  BY DEF Init, Service!Init
<1>2. TypeOK /\ AnswersPermitted /\ [Next]_vars => [Service!Next]_(Service!vars)
  <2> SUFFICES ASSUME TypeOK, AnswersPermitted, [Next]_vars
               PROVE  Service!Next \/ UNCHANGED Service!vars
    OBVIOUS
  <2> DEFINE asked == {c \in Clients : cpc[c] # "idle"}
  <2>1. CASE \E d \in Daemons : Start(d) \/ Daemon(d) \/ Signal(d) \/ Kill(d)
    <3>1. UNCHANGED <<cpc, out>>
      BY <2>1 DEF Daemon, StartUp, Serve, Stop, Start, CheckExists, ProbeLive, ProbeDead,
           UnlinkStale, UnlinkFails, Bind, BindFails, Chmod, ChmodFails, GiveUp,
           InstallHandlers, Listen, Accept, AcceptOnDeadListener, RecvLine, RecvEnd,
           RecvTimeout, Reply, SigClose, SigUnlink, SigExit, SigExitLost, FinalClose,
           FinalUnlink, Signal, Kill, clientVars
    <3> QED BY <3>1 DEF Service!vars
  <2>2. ASSUME NEW c \in Clients, Client(c)
        PROVE  Service!Next \/ UNCHANGED Service!vars
    <3>1. CASE Settles(c)
      <4>1. asked' = asked /\ c \in asked
        BY <3>1 DEF Settles, TypeOK
      <4>2. out[c] = None
        BY <3>1 DEF Settles, AnswersPermitted
      <4>3. Service!Answer(c)
        BY <3>1, <4>1, <4>2 DEF Settles, Service!Answer
      <4> QED BY <4>3 DEF Service!Next
    <3>2. CASE Proceeds(c) /\ cpc[c] = "idle"
      <4>1. c \notin asked /\ asked' = asked \cup {c}
        BY <3>2 DEF Proceeds, TypeOK
      <4>2. Service!Ask(c)
        BY <3>2, <4>1 DEF Proceeds, Service!Ask
      <4> QED BY <4>2 DEF Service!Next
    <3>3. CASE Proceeds(c) /\ cpc[c] # "idle"
      <4>1. asked' = asked
        BY <3>3 DEF Proceeds, TypeOK
      <4> QED BY <3>3, <4>1 DEF Proceeds, Service!vars
    <3> QED BY <2>2, <3>1, <3>2, <3>3, ClientAnswers
  <2>3. CASE UNCHANGED vars
    BY <2>3 DEF vars, clientVars, Service!vars
  <2> QED BY <2>1, <2>2, <2>3 DEF Next
<1> QED BY TypeCorrect, PermittedInvariant, <1>1, <1>2, PTL DEF Spec, Service!Spec, ImplementsService

-------------------------------------------------------------------------------
(* How a daemon ends. *)

\* A daemon without a shutdown marker serves on a listener that is still its
\* own, and whoever runs the signal handler has the marker set.
Marked(e) ==
  /\ exit[e] # "lost"
  /\ pc[e] \in Serving /\ e \notin shuttingDown => e \in listening
  /\ pc[e] \in Stopping => e \in shuttingDown

NobodyIsLost == \A e \in Daemons : Marked(e)

LEMMA LostInit == Init => NobodyIsLost
BY BridgeAssumption DEF Init, NobodyIsLost, Marked, Serving, Stopping

\* What one daemon does leaves the others their listeners, markers and steps.
LEMMA OthersKeepTheirs ==
  ASSUME TypeOK, NEW d \in Daemons, Start(d) \/ Daemon(d) \/ Signal(d) \/ Kill(d),
         NEW e \in Daemons, e # d, Marked(e)
  PROVE  Marked(e)'
<1>1. pc'[e] = pc[e] /\ exit'[e] = exit[e] /\ (e \in listening' <=> e \in listening)
      /\ (e \in shuttingDown' <=> e \in shuttingDown)
  BY DEF TypeOK, Start, Daemon, StartUp, Serve, Stop, CheckExists, ProbeLive, ProbeDead,
         UnlinkStale, UnlinkFails, Bind, BindFails, Chmod, ChmodFails, GiveUp,
         InstallHandlers, Listen, Accept, AcceptOnDeadListener, RecvLine, RecvEnd,
         RecvTimeout, Reply, SigClose, SigUnlink, SigExit, SigExitLost, FinalClose,
         FinalUnlink, Signal, Kill, CloseListener, Goto, Exit, socketVars
<1> QED BY <1>1 DEF Marked

LEMMA LostDaemon ==
  ASSUME TypeOK, NEW d \in Daemons, Start(d) \/ Daemon(d) \/ Signal(d) \/ Kill(d), Marked(d)
  PROVE  Marked(d)'
<1> USE DEF TypeOK, Marked, Serving, Stopping, Goto, Exit, socketVars
<1>1. CASE Start(d)          BY <1>1 DEF Start
<1>2. CASE StartUp(d)
  BY <1>2 DEF StartUp, CheckExists, ProbeLive, ProbeDead, UnlinkStale, UnlinkFails, Bind,
              BindFails, Chmod, ChmodFails, GiveUp, InstallHandlers, Listen
<1>3. CASE Serve(d)
  BY <1>3 DEF Serve, Accept, AcceptOnDeadListener, RecvLine, RecvEnd, RecvTimeout, Reply, Final
<1>4. CASE SigClose(d)    BY <1>4 DEF SigClose, CloseListener
<1>5. CASE SigUnlink(d)   BY <1>5 DEF SigUnlink
<1>6. CASE SigExit(d)     BY <1>6 DEF SigExit
<1>7. CASE SigExitLost(d) BY <1>7 DEF SigExitLost
<1>8. CASE FinalClose(d)  BY <1>8 DEF FinalClose, CloseListener
<1>9. CASE FinalUnlink(d) BY <1>9 DEF FinalUnlink
<1>10. CASE Signal(d)     BY <1>10 DEF Signal
<1>11. CASE Kill(d)       BY <1>11 DEF Kill, CloseListener
<1> QED BY <1>1, <1>2, <1>3, <1>4, <1>5, <1>6, <1>7, <1>8, <1>9, <1>10, <1>11
        DEF Daemon, Stop

\* A shutdown that was asked for is never reported as a lost listener,
\* wherever the signal lands, and if the interpreter discards its SystemExit.
THEOREM NoShutdownIsLost == Spec => []ShutdownIsNeverLost
<1>1. TypeOK /\ NobodyIsLost /\ [Next]_vars => NobodyIsLost'
  <2> SUFFICES ASSUME TypeOK, NobodyIsLost, [Next]_vars PROVE NobodyIsLost'
    OBVIOUS
  <2>1. ASSUME NEW d \in Daemons, Start(d) \/ Daemon(d) \/ Signal(d) \/ Kill(d)
        PROVE  NobodyIsLost'
    <3>1. ASSUME NEW e \in Daemons PROVE Marked(e)'
      <4>1. Marked(e)
        BY DEF NobodyIsLost
      <4> QED BY <2>1, <4>1, OthersKeepTheirs, LostDaemon
    <3> QED BY <3>1 DEF NobodyIsLost
  <2>2. CASE UNCHANGED <<pc, exit, listening, shuttingDown>>
    BY <2>2 DEF NobodyIsLost, Marked
  <2>3. ASSUME NEW c \in Clients, Client(c) PROVE UNCHANGED <<pc, exit, listening, shuttingDown>>
    BY <2>3 DEF Client, AfterSend, StartClient, Connect, ConnectFails, Send, SendFails,
                Receive, ReceiveFails, ClientTimeout, OneShot, daemonVars, socketVars
  <2>4. CASE UNCHANGED vars
    BY <2>2, <2>4 DEF vars, daemonVars, socketVars
  <2> QED BY <2>1, <2>2, <2>3, <2>4 DEF Next
<1>2. NobodyIsLost => ShutdownIsNeverLost
  BY DEF NobodyIsLost, Marked, ShutdownIsNeverLost
<1> QED BY LostInit, TypeCorrect, <1>1, <1>2, PTL DEF Spec

-------------------------------------------------------------------------------
(* Where a connection is. *)

\* The i-th connection that d has still to accept is c's.
Waits(c, d, i) == i \in 1..Len(queue[d]) /\ queue[d][i] = c

\* The state of a connection says where it is: at one place of one queue, with
\* one daemon, or nowhere.
Placed(c) ==
  /\ \A d \in Daemons, i \in Nat : Waits(c, d, i) => link[c] = "queued" /\ d \in listening
  /\ \A d, e \in Daemons, i, j \in Nat : Waits(c, d, i) /\ Waits(c, e, j) => d = e /\ i = j
  /\ \A d \in Daemons : busy[d] = c => link[c] = "accepted"
  /\ \A d, e \in Daemons : busy[d] = c /\ busy[e] = c => d = e
  /\ link[c] = "queued" => \E d \in Daemons, i \in Nat : Waits(c, d, i)
  /\ link[c] = "accepted" => \E d \in Daemons : busy[d] = c
  /\ cpc[c] \in {"idle", "connect"} => link[c] = "none"

\* A daemon has a connection only while it serves it, or has a signal handler
\* running on top of that.
InService(d) == \/ pc[d] \in {"recv", "reply"}
                \/ pc[d] \in Stopping /\ resume[d] \in {"recv", "reply"}

BusyInService == \A d \in Daemons : busy[d] # None => InService(d)

AllPlaced == BusyInService /\ \A c \in Clients : Placed(c)

LEMMA PlacedImpliesOneHolder == TypeOK /\ AllPlaced => OneHolder
<1> SUFFICES ASSUME TypeOK, AllPlaced, NEW c \in Clients
             PROVE  /\ link[c] = "queued" => Served(c) = {} /\ \E d \in listening : Queued(c) = {d}
                    /\ link[c] = "accepted" => Queued(c) = {} /\ \E d \in Daemons : Served(c) = {d}
                    /\ link[c] \in {"none", "closed"} => Queued(c) = {} /\ Served(c) = {}
  BY DEF OneHolder
<1>1. Placed(c)
  BY DEF AllPlaced
<1>2. \A d \in Daemons : d \in Queued(c) <=> \E i \in Nat : Waits(c, d, i)
  <2> SUFFICES ASSUME NEW d \in Daemons
               PROVE  c \in Pending(d) <=> \E i \in Nat : Waits(c, d, i)
    BY DEF Queued
  <2>1. queue[d] \in Seq(Clients \cup {Probe})
    BY DEF TypeOK
  <2>2. DOMAIN queue[d] = 1..Len(queue[d])
    BY <2>1
  <2> QED BY <2>1, <2>2 DEF Pending, Waits
<1>3. Queued(c) \subseteq Daemons /\ Served(c) \subseteq Daemons
  BY DEF Queued, Served
<1>4. \A d \in Daemons : d \in Served(c) <=> busy[d] = c
  BY DEF Served
<1>5. CASE link[c] = "queued"
  <2>1. PICK d \in Daemons : \E i \in Nat : Waits(c, d, i)
    BY <1>1, <1>5 DEF Placed
  <2>2. d \in listening /\ \A e \in Queued(c) : e = d
    BY <1>1, <1>2, <1>3, <2>1 DEF Placed
  <2>3. Queued(c) = {d}
    BY <1>2, <2>1, <2>2
  <2>4. Served(c) = {}
    BY <1>1, <1>3, <1>4, <1>5 DEF Placed
  <2> QED BY <1>5, <2>2, <2>3, <2>4
<1>6. CASE link[c] = "accepted"
  <2>1. PICK d \in Daemons : busy[d] = c
    BY <1>1, <1>6 DEF Placed
  <2>2. \A e \in Served(c) : e = d
    BY <1>1, <1>3, <1>4, <2>1 DEF Placed
  <2>3. Served(c) = {d}
    BY <1>4, <2>1, <2>2
  <2>4. Queued(c) = {}
    BY <1>1, <1>2, <1>3, <1>6 DEF Placed
  <2> QED BY <1>6, <2>3, <2>4
<1>7. CASE link[c] \in {"none", "closed"}
  <2>1. Queued(c) = {} /\ Served(c) = {}
    BY <1>1, <1>2, <1>3, <1>4, <1>7 DEF Placed
  <2> QED BY <1>7, <2>1
<1> QED BY <1>5, <1>6, <1>7

LEMMA PlacedInit == Init => AllPlaced
BY BridgeAssumption DEF Init, AllPlaced, BusyInService, Placed, Waits

\* Serving, and only serving, takes a connection up.
LEMMA BusyStep ==
  ASSUME TypeOK, BusyInService, NEW d \in Daemons, Start(d) \/ Daemon(d) \/ Signal(d) \/ Kill(d)
  PROVE  BusyInService'
<1> USE BridgeAssumption
<1> USE DEF TypeOK, BusyInService, InService, Stopping, Goto, Exit, socketVars
<1>1. CASE Start(d) BY <1>1 DEF Start
<1>2. CASE StartUp(d)
  BY <1>2 DEF StartUp, CheckExists, ProbeLive, ProbeDead, UnlinkStale, UnlinkFails, Bind,
              BindFails, Chmod, ChmodFails, GiveUp, InstallHandlers, Listen
<1>3. CASE Serve(d)
  <2>1. CASE Accept(d)               BY <2>1 DEF Accept
  <2>2. CASE AcceptOnDeadListener(d) BY <2>2 DEF AcceptOnDeadListener
  <2>3. CASE RecvLine(d)             BY <2>3 DEF RecvLine
  <2>4. CASE RecvEnd(d)              BY <2>4 DEF RecvEnd
  <2>5. CASE RecvTimeout(d)          BY <2>5 DEF RecvTimeout, Finish
  <2>6. CASE Reply(d)                BY <2>6 DEF Reply, Finish
  <2> QED BY <1>3, <2>1, <2>2, <2>3, <2>4, <2>5, <2>6 DEF Serve
<1>4. CASE SigClose(d)    BY <1>4 DEF SigClose
<1>5. CASE SigUnlink(d)   BY <1>5 DEF SigUnlink
<1>6. CASE SigExit(d)     BY <1>6 DEF SigExit, Finish
<1>7. CASE SigExitLost(d) BY <1>7 DEF SigExitLost
<1>8. CASE FinalClose(d)  BY <1>8 DEF FinalClose
<1>9. CASE FinalUnlink(d) BY <1>9 DEF FinalUnlink
<1>10. CASE Signal(d)     BY <1>10 DEF Signal, Serving
<1>11. CASE Kill(d)       BY <1>11 DEF Kill
<1> QED BY <1>1, <1>2, <1>3, <1>4, <1>5, <1>6, <1>7, <1>8, <1>9, <1>10, <1>11
        DEF Daemon, Stop

\* A step that moves no connection and closes no listener leaves all in place.
LEMMA PlacesKept ==
  ASSUME NEW c \in Clients, Placed(c), UNCHANGED <<queue, busy, link>>,
         listening \subseteq listening', cpc'[c] \in {"idle", "connect"} => link[c] = "none"
  PROVE  Placed(c)'
<1>1. \A d, i : Waits(c, d, i)' <=> Waits(c, d, i)
  BY DEF Waits
<1> QED BY <1>1 DEF Placed

\* A connection that joins d's queue comes last.
LEMMA JoinedQueue ==
  ASSUME TypeOK, NEW d \in Daemons, NEW conn \in Clients \cup {Probe},
         queue' = [queue EXCEPT ![d] = Append(@, conn)]
  PROVE  \A c \in Clients, e \in Daemons, i \in Nat :
           Waits(c, e, i)' <=> \/ Waits(c, e, i)
                               \/ e = d /\ c = conn /\ i = Len(queue[d]) + 1
<1>1. queue[d] \in Seq(Clients \cup {Probe})
  BY DEF TypeOK
<1>2. queue'[d] = Append(queue[d], conn) /\ \A e \in Daemons \ {d} : queue'[e] = queue[e]
  BY DEF TypeOK
<1>3. /\ Len(queue'[d]) = Len(queue[d]) + 1
      /\ \A i \in 1..Len(queue[d]) : queue'[d][i] = queue[d][i]
      /\ queue'[d][Len(queue[d]) + 1] = conn
      /\ Len(queue[d]) \in Nat
  BY <1>1, <1>2
<1> QED BY <1>2, <1>3 DEF Waits

\* Whoever is not first moves up.
LEMMA MovedUp ==
  ASSUME TypeOK, NEW d \in Daemons, queue[d] # <<>>,
         queue' = [queue EXCEPT ![d] = Tail(@)]
  PROVE  \A c \in Clients, e \in Daemons, i \in Nat :
           Waits(c, e, i)' <=> IF e = d THEN i # 0 /\ Waits(c, d, i + 1) ELSE Waits(c, e, i)
<1>1. queue[d] \in Seq(Clients \cup {Probe})
  BY DEF TypeOK
<1>2. queue'[d] = Tail(queue[d]) /\ \A e \in Daemons \ {d} : queue'[e] = queue[e]
  BY DEF TypeOK
<1>3. /\ Len(queue[d]) \in Nat \ {0}
      /\ Len(queue'[d]) = Len(queue[d]) - 1
      /\ \A i \in 1..(Len(queue[d]) - 1) : queue'[d][i] = queue[d][i + 1]
  <2>1. \A s \in Seq(Clients \cup {Probe}) : s # <<>> => Len(s) \in Nat \ {0}
    BY EmptySeq
  <2>2. Len(queue[d]) \in Nat \ {0}
    BY <1>1, <2>1
  <2>3. /\ Len(Tail(queue[d])) = Len(queue[d]) - 1
        /\ \A i \in 1..Len(Tail(queue[d])) : Tail(queue[d])[i] = queue[d][i + 1]
    BY <1>1, HeadTailProperties
  <2> QED BY <1>2, <2>2, <2>3
<1> QED BY <1>2, <1>3 DEF Waits

LEMMA PlacedAccept ==
  ASSUME TypeOK, AllPlaced, NEW d \in Daemons, Accept(d), NEW c \in Clients
  PROVE  Placed(c)'
<1> DEFINE conn == Head(queue[d])
<1>1. /\ pc[d] = "accept" /\ d \in listening /\ queue[d] # <<>>
      /\ busy' = [busy EXCEPT ![d] = conn]
      /\ link' = [k \in Clients |-> IF k = conn THEN "accepted" ELSE link[k]]
      /\ queue' = [queue EXCEPT ![d] = Tail(@)]
      /\ UNCHANGED <<listening, cpc>>
  BY DEF Accept
<1>2. queue[d] \in Seq(Clients \cup {Probe}) /\ conn = queue[d][1] /\ 1 \in 1..Len(queue[d])
  BY <1>1 DEF TypeOK
<1>3. \A k \in Clients, e \in Daemons, i \in Nat :
        Waits(k, e, i)' <=> IF e = d THEN i # 0 /\ Waits(k, d, i + 1) ELSE Waits(k, e, i)
  BY <1>1, MovedUp
<1>4. busy[d] = None
  BY <1>1 DEF AllPlaced, BusyInService, InService, Stopping
<1>5. Placed(c)
  BY DEF AllPlaced
<1>6. conn = c <=> Waits(c, d, 1)
  BY <1>2 DEF Waits
<1>7. busy'[d] = conn /\ (\A e \in Daemons \ {d} : busy'[e] = busy[e])
      /\ link'[c] = IF c = conn THEN "accepted" ELSE link[c]
  BY <1>1 DEF TypeOK
<1>c. None # c
  BY BridgeAssumption
<1>8. CASE c = conn
  <2>1. link[c] = "queued" /\ link'[c] = "accepted"
    BY <1>5, <1>6, <1>7, <1>8 DEF Placed
  <2>2. \A e \in Daemons, i \in Nat : ~ Waits(c, e, i)'
    BY <1>3, <1>5, <1>6, <1>8 DEF Placed
  <2>3. \A e \in Daemons : busy'[e] = c <=> e = d
    BY <1>5, <1>7, <1>8, <2>1 DEF Placed
  <2>4. cpc[c] \notin {"idle", "connect"}
    BY <1>5, <2>1 DEF Placed
  <2> QED BY <1>1, <2>1, <2>2, <2>3, <2>4 DEF Placed
<1>9. CASE c # conn
  <2>1. link'[c] = link[c] /\ \A e \in Daemons : busy'[e] = c <=> busy[e] = c
    BY <1>4, <1>7, <1>9, <1>c
  <2>2. link[c] = "queued" => \E e \in Daemons, i \in Nat : Waits(c, e, i)'
    <3> SUFFICES ASSUME link[c] = "queued" PROVE \E e \in Daemons, i \in Nat : Waits(c, e, i)'
      OBVIOUS
    <3>1. PICK e \in Daemons, i \in Nat : Waits(c, e, i)
      BY <1>5 DEF Placed
    <3>2. CASE e # d
      BY <1>3, <3>1, <3>2
    <3>3. CASE e = d
      <4>1. i # 1 /\ i - 1 \in Nat /\ i - 1 # 0 /\ (i - 1) + 1 = i
        BY <1>6, <1>9, <3>1, <3>3 DEF Waits
      <4>2. Waits(c, d, i - 1)'
        BY <1>3, <3>1, <3>3, <4>1
      <4> QED BY <4>1, <4>2
    <3> QED BY <3>2, <3>3
  <2>3. \A e \in Daemons, i \in Nat : Waits(c, e, i)' => link[c] = "queued" /\ e \in listening
    BY <1>3, <1>5 DEF Placed
  <2>4. \A e, f \in Daemons, i, j \in Nat : Waits(c, e, i)' /\ Waits(c, f, j)' => e = f /\ i = j
    <3> SUFFICES ASSUME NEW e \in Daemons, NEW f \in Daemons, NEW i \in Nat, NEW j \in Nat,
                        Waits(c, e, i)', Waits(c, f, j)'
                 PROVE  e = f /\ i = j
      OBVIOUS
    <3>1. Waits(c, e, IF e = d THEN i + 1 ELSE i) /\ Waits(c, f, IF f = d THEN j + 1 ELSE j)
      BY <1>3
    <3>2. e = f /\ (IF e = d THEN i + 1 ELSE i) = (IF f = d THEN j + 1 ELSE j)
      BY <1>5, <3>1 DEF Placed
    <3> QED BY <3>2
  <2> QED BY <1>1, <1>5, <2>1, <2>2, <2>3, <2>4 DEF Placed
<1> QED BY <1>8, <1>9

\* The connection d drops is the one it was serving.
LEMMA PlacedFinish ==
  ASSUME TypeOK, AllPlaced, NEW d \in Daemons, Finish(d), UNCHANGED <<queue, listening, cpc>>,
         NEW c \in Clients
  PROVE  Placed(c)'
<1>1. Placed(c)
  BY DEF AllPlaced
<1>2. \A e, i : Waits(c, e, i)' <=> Waits(c, e, i)
  BY DEF Waits
<1>3. /\ busy'[d] = None /\ \A e \in Daemons \ {d} : busy'[e] = busy[e]
      /\ link'[c] = IF c = busy[d] THEN "closed" ELSE link[c]
  BY DEF Finish, Hangup, TypeOK
<1>c. None # c
  BY BridgeAssumption
<1>4. CASE c = busy[d]
  <2>1. link[c] = "accepted" /\ \A e \in Daemons : busy'[e] # c
    BY <1>1, <1>3, <1>4, <1>c DEF Placed
  <2> QED BY <1>1, <1>2, <1>3, <1>4, <2>1 DEF Placed
<1>5. CASE c # busy[d]
  <2>1. \A e \in Daemons : busy'[e] = c <=> busy[e] = c
    BY <1>3, <1>5, <1>c
  <2> QED BY <1>1, <1>2, <1>3, <1>5, <2>1 DEF Placed
<1> QED BY <1>4, <1>5

\* A listener that closes takes its whole queue down and no other; what d was
\* serving goes down with it if the process dies.
LEMMA PlacedClose ==
  ASSUME TypeOK, AllPlaced, NEW d \in Daemons, CloseListener(d), UNCHANGED cpc,
         \/ Hangup(Pending(d)) /\ UNCHANGED busy
         \/ Hangup(Pending(d) \cup {busy[d]}) /\ busy' = [busy EXCEPT ![d] = None],
         NEW c \in Clients
  PROVE  Placed(c)'
<1>1. Placed(c)
  BY DEF AllPlaced
<1>2. queue'[d] = <<>> /\ \A e \in Daemons \ {d} : queue'[e] = queue[e]
  BY DEF CloseListener, TypeOK
<1>3. \A e \in Daemons, i \in Nat : Waits(c, e, i)' <=> e # d /\ Waits(c, e, i)
  BY <1>2 DEF Waits
<1>4. c \in Pending(d) <=> \E i \in Nat : Waits(c, d, i)
  <2>1. queue[d] \in Seq(Clients \cup {Probe})
    BY DEF TypeOK
  <2>2. DOMAIN queue[d] = 1..Len(queue[d])
    BY <2>1
  <2> QED BY <2>1, <2>2 DEF Pending, Waits
<1>5. listening' = listening \ {d}
  BY DEF CloseListener
<1>c. None # c
  BY BridgeAssumption
<1>6. CASE c \in Pending(d)
  <2>1. link[c] = "queued" /\ link'[c] = "closed"
    BY <1>1, <1>4, <1>6 DEF Placed, Hangup
  <2>2. \A e \in Daemons, i \in Nat : ~ Waits(c, e, i)'
    BY <1>1, <1>3, <1>4, <1>6 DEF Placed
  <2>3. \A e \in Daemons : busy[e] # c /\ busy'[e] # c
    BY <1>1, <1>c, <2>1 DEF Placed, TypeOK
  <2> QED BY <1>1, <2>1, <2>2, <2>3 DEF Placed
<1>7. CASE c \notin Pending(d) /\ link'[c] = link[c] /\ (\A e \in Daemons : busy'[e] = c <=> busy[e] = c)
  <2>1. \A e \in Daemons, i \in Nat : Waits(c, e, i)' <=> Waits(c, e, i)
    BY <1>3, <1>4, <1>7
  <2>2. \A e \in Daemons, i \in Nat : Waits(c, e, i)' => e \in listening'
    BY <1>1, <1>3, <1>5 DEF Placed
  <2> QED BY <1>1, <1>7, <2>1, <2>2 DEF Placed
<1>8. CASE c \notin Pending(d) /\ c = busy[d] /\ link'[c] = "closed" /\ busy' = [busy EXCEPT ![d] = None]
  <2>1. link[c] = "accepted"
    BY <1>1, <1>8 DEF Placed
  <2>2. \A e \in Daemons : busy'[e] # c
    BY <1>1, <1>8, <1>c DEF Placed, TypeOK
  <2>3. \A e \in Daemons, i \in Nat : ~ Waits(c, e, i)'
    BY <1>1, <1>3, <2>1 DEF Placed
  <2> QED BY <1>1, <1>8, <2>1, <2>2, <2>3 DEF Placed
<1>9. \/ c \in Pending(d)
      \/ link'[c] = link[c] /\ \A e \in Daemons : busy'[e] = c <=> busy[e] = c
      \/ c = busy[d] /\ link'[c] = "closed" /\ busy' = [busy EXCEPT ![d] = None]
  BY <1>c DEF Hangup, TypeOK
<1> QED BY <1>6, <1>7, <1>8, <1>9

LEMMA PlacedDaemon ==
  ASSUME TypeOK, AllPlaced, NEW d \in Daemons, Start(d) \/ Daemon(d) \/ Signal(d) \/ Kill(d),
         NEW c \in Clients
  PROVE  Placed(c)'
<1> USE DEF Goto, Exit, socketVars, clientVars
<1>0. Placed(c) /\ Probe \notin Clients /\ (cpc[c] \in {"idle", "connect"} => link[c] = "none")
  BY BridgeAssumption DEF AllPlaced, Placed
<1>1. ASSUME UNCHANGED <<queue, busy, link, cpc>>, listening \subseteq listening'
      PROVE  Placed(c)'
  BY <1>0, <1>1, PlacesKept
<1>2. CASE Start(d) BY <1>1, <1>2 DEF Start
<1>3. CASE ProbeLive(d)
  <2>1. UNCHANGED <<busy, link, listening, cpc>>
    BY <1>3 DEF ProbeLive
  <2>2. path \in Daemons /\ queue' = [queue EXCEPT ![path] = Append(@, Probe)]
    BY <1>3 DEF ProbeLive, Connectable, Enqueue, TypeOK
  <2>3. \A e \in Daemons, i \in Nat : Waits(c, e, i)' <=> Waits(c, e, i)
    BY <1>0, <2>2, JoinedQueue
  <2> QED BY <1>0, <2>1, <2>3 DEF Placed
<1>4. CASE StartUp(d) /\ ~ ProbeLive(d)
  BY <1>1, <1>4 DEF StartUp, CheckExists, ProbeDead, UnlinkStale, UnlinkFails, Bind,
              BindFails, Chmod, ChmodFails, GiveUp, InstallHandlers, Listen
<1>5. CASE Accept(d) BY <1>5, PlacedAccept
<1>6. CASE AcceptOnDeadListener(d) \/ RecvLine(d) \/ RecvEnd(d)
  BY <1>1, <1>6 DEF AcceptOnDeadListener, RecvLine, RecvEnd
<1>7. CASE RecvTimeout(d) \/ Reply(d) \/ SigExit(d)
  BY <1>7, PlacedFinish DEF RecvTimeout, Reply, SigExit
<1>8. CASE SigClose(d) \/ FinalClose(d)
  BY <1>8, PlacedClose DEF SigClose, FinalClose
<1>9. CASE SigUnlink(d) \/ SigExitLost(d) \/ FinalUnlink(d) \/ Signal(d)
  BY <1>1, <1>9 DEF SigUnlink, SigExitLost, FinalUnlink, Signal
<1>10. CASE Kill(d) BY <1>10, PlacedClose DEF Kill
<1> QED BY <1>2, <1>3, <1>4, <1>5, <1>6, <1>7, <1>8, <1>9, <1>10
        DEF Daemon, StartUp, Serve, Stop

LEMMA PlacedClient ==
  ASSUME TypeOK, AllPlaced, NEW k \in Clients, Client(k), NEW c \in Clients
  PROVE  Placed(c)'
<1>0. Placed(c) /\ Placed(k)
  BY DEF AllPlaced
<1>1. CASE Connect(k)
  <2>1. /\ cpc[k] = "connect" /\ cpc' = [cpc EXCEPT ![k] = "send"]
        /\ link' = [link EXCEPT ![k] = "queued"]
        /\ UNCHANGED <<busy, listening>>
    BY <1>1 DEF Connect, daemonVars
  <2>2. path \in Daemons /\ path \in listening /\ queue' = [queue EXCEPT ![path] = Append(@, k)]
    BY <1>1, BridgeAssumption DEF Connect, MayConnect, Connectable, Enqueue, TypeOK
  <2>3. \A e \in Daemons, i \in Nat :
          Waits(c, e, i)' <=> \/ Waits(c, e, i)
                              \/ e = path /\ c = k /\ i = Len(queue[path]) + 1
    BY <2>2, JoinedQueue
  <2>4. CASE c = k
    <3>1. link[c] = "none" /\ link'[c] = "queued" /\ cpc'[c] = "send"
      BY <1>0, <2>1, <2>4 DEF Placed, TypeOK
    <3>2. \A e \in Daemons, i \in Nat : Waits(c, e, i)' <=> e = path /\ i = Len(queue[path]) + 1
      BY <1>0, <2>3, <2>4, <3>1 DEF Placed
    <3>3. Len(queue[path]) + 1 \in Nat
      BY <2>2 DEF TypeOK
    <3>4. \E e \in Daemons, i \in Nat : Waits(c, e, i)'
      BY <2>2, <3>2, <3>3
    <3> QED BY <1>0, <2>1, <2>2, <3>1, <3>2, <3>4 DEF Placed
  <2>5. CASE c # k
    <3>1. link'[c] = link[c] /\ cpc'[c] = cpc[c]
      BY <2>1, <2>5 DEF TypeOK
    <3>2. \A e \in Daemons, i \in Nat : Waits(c, e, i)' <=> Waits(c, e, i)
      BY <2>3, <2>5
    <3> QED BY <1>0, <2>1, <3>1, <3>2 DEF Placed
  <2> QED BY <2>4, <2>5
<1>2. CASE Client(k) /\ ~ Connect(k)
  <2>1. UNCHANGED <<queue, busy, link, listening>>
    BY <1>2 DEF Client, AfterSend, StartClient, ConnectFails, Send, SendFails, Receive,
                ReceiveFails, ClientTimeout, OneShot, daemonVars, socketVars
  <2>2. cpc'[c] \in {"idle", "connect"} => cpc[c] \in {"idle", "connect"}
    BY <1>2 DEF Client, AfterSend, StartClient, ConnectFails, Send, SendFails, Receive,
                ReceiveFails, ClientTimeout, OneShot, Fail, TypeOK
  <2>3. cpc[c] \in {"idle", "connect"} => link[c] = "none"
    BY <1>0 DEF Placed
  <2> QED BY <1>0, <2>1, <2>2, <2>3, PlacesKept
<1> QED BY <1>1, <1>2

\* A connection is in one place at a time, for any number of daemons that
\* share the path, any backlog and any client that comes and goes.
THEOREM OnePlace == Spec => []OneHolder
<1>1. TypeOK /\ AllPlaced /\ [Next]_vars => AllPlaced'
  <2> SUFFICES ASSUME TypeOK, AllPlaced, [Next]_vars PROVE AllPlaced'
    OBVIOUS
  <2>1. ASSUME NEW d \in Daemons, Start(d) \/ Daemon(d) \/ Signal(d) \/ Kill(d)
        PROVE  AllPlaced'
    <3>1. BusyInService'
      BY <2>1, BusyStep DEF AllPlaced
    <3>2. \A c \in Clients : Placed(c)'
      BY <2>1, PlacedDaemon
    <3> QED BY <3>1, <3>2 DEF AllPlaced
  <2>2. ASSUME NEW k \in Clients, Client(k) PROVE AllPlaced'
    <3>1. UNCHANGED <<pc, busy, resume>>
      BY <2>2 DEF Client, AfterSend, StartClient, Connect, ConnectFails, Send, SendFails,
                  Receive, ReceiveFails, ClientTimeout, OneShot, daemonVars
    <3>2. BusyInService'
      BY <3>1 DEF AllPlaced, BusyInService, InService
    <3>3. \A c \in Clients : Placed(c)'
      BY <2>2, PlacedClient
    <3> QED BY <3>2, <3>3 DEF AllPlaced
  <2>3. CASE UNCHANGED vars
    <3>1. UNCHANGED <<pc, busy, resume, queue, link, cpc, listening>>
      BY <2>3 DEF vars, socketVars, daemonVars, clientVars
    <3>2. BusyInService'
      BY <3>1 DEF AllPlaced, BusyInService, InService
    <3>3. \A c \in Clients : Placed(c)'
      BY <3>1, PlacesKept DEF AllPlaced, Placed
    <3> QED BY <3>2, <3>3 DEF AllPlaced
  <2> QED BY <2>1, <2>2, <2>3 DEF Next
<1> QED BY PlacedInit, TypeCorrect, PlacedImpliesOneHolder, <1>1, PTL DEF Spec

===============================================================================
