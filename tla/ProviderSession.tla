-------------------------- MODULE ProviderSession ---------------------------
(***************************************************************************)
(* A host, the provider process it launches, and the instances it asks it  *)
(* for (src/internal/runtime/launcher.go and server.go,                    *)
(* src/internal/transport/grpc/auth.go and client.go).  Launch starts the  *)
(* process and reads one line of its output: the address it listens on and *)
(* the token of its session.  The process may exit at any time, and the    *)
(* calls it was serving are lost with it; the host launches another one    *)
(* and asks again, perhaps through a client of the old one.  What the      *)
(* provider does for a call is InstanceLifecycle.                          *)
(***************************************************************************)
EXTENDS InstanceLifecycle

CONSTANTS
  Ports, NoPort,   \* what the system may let a provider listen on
  MaxLaunches      \* bound: processes launched

ASSUME PortAssumption == NoPort \notin Ports /\ "other" \notin Ports \cup {NoPort}
ASSUME LaunchAssumption == MaxLaunches \in Nat

VARIABLES
  host,       \* where the host is with Launch and Stop
  cancelled,  \* the context it gave to Launch is cancelled
  child,      \* the process, as the system sees it: "exited" until waited for
  killed,     \* it was sent SIGKILL
  port,       \* where it listens
  line,       \* the line it wrote: a port, or something "other"
  session,    \* its token: a fresh one for every process
  clients,    \* Dial: the addresses and tokens the host has clients for
  via,        \* history, via[r]: the token of the call that is being served
  streams     \* the clients whose WatchMarketFeed stream the process serves
processVars == <<host, cancelled, child, killed, port, line, session>>
sessionVars == <<processVars, clients, via, streams>>

Listening == {"bound", "announced", "serving"}
Alive == {"started", "other"} \cup Listening
Clients == [port: Ports, token: 1..MaxLaunches]

(* Every variable has its type; a port is taken while a process listens, and *)
(* streams are served at it.                                                 *)
SessionTypeOK ==
  /\ host \in {"idle", "reading", "killing", "waiting", "failed",
               "running", "stopping", "stopped"}
  /\ cancelled \in BOOLEAN /\ killed \in BOOLEAN
  /\ child \in Alive \cup {"exited", "none"}
  /\ port \in Ports \cup {NoPort} /\ (port # NoPort <=> child \in Listening)
  /\ line \in Ports \cup {NoPort, "other"}
  /\ session \in 0..MaxLaunches
  /\ clients \subseteq Clients
  /\ via \in [Requests -> 0..MaxLaunches]
  /\ streams \subseteq {c \in clients : child = "serving" /\ c.port = port}

-----------------------------------------------------------------------------
(* Launch: exec.CommandContext and Start, which may fail.                    *)
LaunchProcess ==
  /\ host \in {"idle", "failed", "stopped"} /\ session < MaxLaunches
  /\ \/ /\ host' = "reading" /\ child' = "started" /\ session' = session + 1
        /\ cancelled' = FALSE /\ killed' = FALSE /\ line' = NoPort
        /\ UNCHANGED port
     \/ host' = "failed" /\ UNCHANGED <<cancelled, child, killed, port, line, session>>
  /\ UNCHANGED <<clients, via, streams, vars>>

(* readStartupInfo: a line that is complete startup information.             *)
ReadInfo ==
  /\ host = "reading" /\ line \in Ports
  /\ host' = "running"
  /\ clients' = clients \cup {[port |-> line, token |-> session]}
  /\ UNCHANGED <<cancelled, child, killed, port, line, session, via, streams, vars>>

(* It is something else, or the output ends without one.                     *)
ReadFails ==
  /\ host = "reading"
  /\ line = "other" \/ (line = NoPort /\ child = "exited")
  /\ host' = "killing"
  /\ UNCHANGED <<cancelled, child, killed, port, line, session, clients, via, streams, vars>>

(* A variant of KillFailed that returns the error without waiting.           *)
KillFailedOnly ==
  /\ host = "killing" /\ host' = "failed"
  /\ killed' = TRUE
  /\ UNCHANGED <<cancelled, child, port, line, session, clients, via, streams, vars>>

(* A failed launch: Process.Kill, whose error is ignored, and Wait.          *)
KillFailed ==
  /\ host = "killing" /\ host' = "waiting"
  /\ killed' = TRUE
  /\ UNCHANGED <<cancelled, child, port, line, session, clients, via, streams, vars>>

WaitFailed ==
  /\ host = "waiting" /\ child = "exited"
  /\ host' = "failed" /\ child' = "none"
  /\ UNCHANGED <<cancelled, killed, port, line, session, clients, via, streams, vars>>

(* Stop: Kill fails if the process has been waited for.                      *)
StopProcess ==
  /\ host = "running"
  /\ IF child = "none" THEN host' = "stopped" /\ UNCHANGED killed
                       ELSE host' = "stopping" /\ killed' = TRUE
  /\ UNCHANGED <<cancelled, child, port, line, session, clients, via, streams, vars>>

(* A variant of StopWaits that does not see that another has waited.         *)
StopWaitsAlone ==
  /\ host = "stopping" /\ child = "exited"
  /\ host' = "stopped" /\ child' = "none"
  /\ UNCHANGED <<cancelled, killed, port, line, session, clients, via, streams, vars>>

(* Process.Wait, which fails if another has waited for the process.          *)
StopWaits ==
  /\ host = "stopping" /\ child \in {"exited", "none"}
  /\ host' = "stopped" /\ child' = "none"
  /\ UNCHANGED <<cancelled, killed, port, line, session, clients, via, streams, vars>>

(* The host waits for the process in another goroutine.                      *)
WaitProcess ==
  /\ host \in {"running", "stopping"} /\ child = "exited"
  /\ child' = "none"
  /\ UNCHANGED <<host, cancelled, killed, port, line, session, clients, via, streams, vars>>

Cancel ==
  /\ session > 0 /\ ~cancelled /\ cancelled' = TRUE
  /\ UNCHANGED <<host, child, killed, port, line, session, clients, via, streams, vars>>

(* What exec.CommandContext starts: a goroutine that kills the process.      *)
KillCancelled ==
  /\ cancelled /\ ~killed /\ child \in Alive
  /\ killed' = TRUE
  /\ UNCHANGED <<host, cancelled, child, port, line, session, clients, via, streams, vars>>

-----------------------------------------------------------------------------
(* ListenAndServe: listen, write the startup information, serve.             *)
Listen ==
  /\ child = "started" /\ child' = "bound"
  /\ port' \in Ports
  /\ UNCHANGED <<host, cancelled, killed, line, session, clients, via, streams, vars>>

WriteStartupInfo ==
  /\ child = "bound" /\ child' = "announced"
  /\ line' = port
  /\ UNCHANGED <<host, cancelled, killed, port, session, clients, via, streams, vars>>

Serve ==
  /\ child = "announced" /\ child' = "serving"
  /\ UNCHANGED <<host, cancelled, killed, port, line, session, clients, via, streams, vars>>

(* The binary is not a provider: it writes another line, or none.            *)
BeOther ==
  /\ child = "started" /\ child' = "other"
  /\ line' \in {NoPort, "other"}
  /\ UNCHANGED <<host, cancelled, killed, port, session, clients, via, streams, vars>>

InProgress == {r \in Requests : pc[r] # "idle"}

(* The process ends: killed, crashed, or by an error of ListenAndServe.  The *)
(* calls and streams it is serving end with it.                              *)
Exit ==
  /\ child \in Alive /\ child' = "exited"
  /\ port' = NoPort /\ streams' = {}
  /\ IF InProgress = {} THEN UNCHANGED vars ELSE Lose(InProgress)
  /\ UNCHANGED <<host, cancelled, killed, line, session, clients, via>>

-----------------------------------------------------------------------------
(* A variant of Serves without the interceptor.                              *)
ServesAny(c) == child = "serving" /\ port = c.port

(* UnaryServerAuthInterceptor: the process at the client's address serves a  *)
(* call that comes with its own token.                                       *)
Serves(c) == child = "serving" /\ port = c.port /\ session = c.token

StartInstance(r) ==
  /\ \E c \in clients : Serves(c) /\ via' = [via EXCEPT ![r] = c.token]
  /\ Start(r)
  /\ UNCHANGED <<processVars, clients, streams>>

(* WatchMarketFeed is a stream, and the server has an interceptor for unary  *)
(* calls only: the process at the client's address serves it whatever its    *)
(* token.                                                                    *)
OpenStream(c) ==
  /\ child = "serving" /\ port = c.port /\ c \notin streams
  /\ streams' = streams \cup {c}
  /\ UNCHANGED <<processVars, clients, via, vars>>

(* The client ends it, or the feed returns an error.                         *)
CloseStream(c) ==
  /\ c \in streams /\ streams' = streams \ {c}
  /\ UNCHANGED <<processVars, clients, via, vars>>

(* Nobody listens there, or the token is another process's.                  *)
StartFails(r) ==
  /\ \E c \in clients : ~Serves(c)
  /\ NotServed(r)
  /\ UNCHANGED sessionVars

(* The provider goes on with an attempt.                                     *)
Attempt(r) ==
  /\ child = "serving"
  /\ \/ Refuse(r) \/ ResolveAMI(r) \/ ResolveNetwork(r) \/ ResolveFails(r)
     \/ Repeat(r) \/ Launch(r) \/ RunFails(r)
  /\ UNCHANGED sessionVars

(* The host's context of the call ends, and with it that of every AWS call.  *)
Deadline(r) == child = "serving" /\ Lose({r}) /\ UNCHANGED sessionVars

StopInstance(i) ==
  /\ \E c \in clients : Serves(c)
  /\ Stop(i)
  /\ UNCHANGED sessionVars

(* AWS, which needs no provider.                                             *)
Elsewhere == (ReleaseImage \/ \E c \in calls : Arrive(c)) /\ UNCHANGED sessionVars

-----------------------------------------------------------------------------
SessionInit ==
  /\ Init
  /\ host = "idle" /\ child = "none" /\ port = NoPort /\ line = NoPort
  /\ cancelled = FALSE /\ killed = FALSE /\ session = 0
  /\ clients = {} /\ via = [r \in Requests |-> 0] /\ streams = {}

SessionNext ==
  \/ LaunchProcess \/ ReadInfo \/ ReadFails \/ KillFailed \/ WaitFailed
  \/ StopProcess \/ StopWaits \/ WaitProcess \/ Cancel \/ KillCancelled
  \/ Listen \/ WriteStartupInfo \/ Serve \/ BeOther \/ Exit
  \/ Elsewhere
  \/ \E c \in clients : OpenStream(c) \/ CloseStream(c)
  \/ \E i \in Instances : StopInstance(i)
  \/ \E r \in Requests : StartInstance(r) \/ StartFails(r) \/ Attempt(r) \/ Deadline(r)

(* The goroutines of the host run; a process that was killed ends; one that  *)
(* is the provider gets to write its line or ends.                           *)
Fairness ==
  /\ WF_<<vars, sessionVars>>(ReadInfo \/ ReadFails)
  /\ WF_<<vars, sessionVars>>(KillFailed) /\ WF_<<vars, sessionVars>>(WaitFailed)
  /\ WF_<<vars, sessionVars>>(StopWaits)
  /\ WF_<<vars, sessionVars>>(KillCancelled)
  /\ WF_<<vars, sessionVars>>(killed /\ Exit)
  /\ WF_<<vars, sessionVars>>(Listen) /\ WF_<<vars, sessionVars>>(WriteStartupInfo)

SessionSpec ==
  SessionInit /\ [][SessionNext]_<<vars, sessionVars>> /\ Fairness

-----------------------------------------------------------------------------
(* A Launch that failed and a Stop that returned, be it with an error, leave *)
(* no process behind, no call being served and no stream (Launch,            *)
(* Process.Stop).                                                            *)
NoneLeftBehind ==
  host \in {"failed", "stopped"} => child = "none" /\ InProgress = {} /\ streams = {}

(* The StartInstance calls a provider works on are of its own session: a     *)
(* client of an earlier process gets no instance from a later one, though    *)
(* that one may listen on the same port.  It holds of unary calls; the       *)
(* stream of WatchMarketFeed is served to such a client, see OpenStream      *)
(* (UnaryServerAuthInterceptor, ListenAndServe).                             *)
OwnCallsOnly == \A r \in InProgress : via[r] = session

(* Launch returns once its context is cancelled, and in any case if the      *)
(* binary is the provider; Stop returns.                                     *)
HostNeverHangs ==
  /\ host = "reading" /\ cancelled ~> host # "reading"
  /\ host = "reading" ~> host # "reading" \/ child = "other"
  /\ host \in {"killing", "stopping"} ~> host \in {"failed", "stopped"}
=============================================================================
