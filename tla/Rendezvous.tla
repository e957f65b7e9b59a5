----------------------------- MODULE Rendezvous -----------------------------
(***************************************************************************)
(* The rendezvous protocol of ipc/src/lib.rs: processes that want to talk  *)
(* to a service find it, or start it, through a locked cookie file.        *)
(*                                                                         *)
(* A client runs Descriptor::connect_with_policy, a server that starts     *)
(* itself runs Descriptor::bootstrap, and every server runs                *)
(* Server::serve_listener.  A server is identified by its socket address.  *)
(* Cookies are 32 random bytes drawn for each server that is started, so   *)
(* the cookie drawn for server s is s itself; addresses are ephemeral      *)
(* ports, and are not used again.  The payload of the RPC connections is   *)
(* left out: a connection is served until the client drops it.             *)
(***************************************************************************)
EXTENDS Naturals, Sequences, FiniteSets

CONSTANTS
  Clients,        \* processes that call connect_with_policy
  Bootstrappers,  \* processes that call bootstrap
  Server,         \* addresses of the servers that may be started, as numbers
  CtxPolicy,      \* the IPC policy of each client's context
  CallPolicies,   \* the policies connect_with_policy is called with
  MaxDeaths,      \* bound: how many servers may die on their own
  MaxRefusals,    \* bound: how often a live server may not be reached
  Mortal,         \* processes that may crash
  None            \* no server, no cookie, no connection, no process

Process == Clients \cup Bootstrappers
Policy == {"External", "Internal", "Robust"}

ASSUME ProcessAssumption ==
  /\ Clients \cap Bootstrappers = {}
  /\ None \notin Process \cup Server
  /\ Server \subseteq Nat
  /\ Mortal \subseteq Process

ASSUME PolicyAssumption ==
  CtxPolicy \in [Clients -> Policy] /\ CallPolicies \subseteq Policy

ASSUME MaxDeathsAssumption == MaxDeaths \in Nat /\ MaxRefusals \in Nat

(* A process opens at most one connection of each kind: "probe" to a       *)
(* server that may be running, "greet" to hand the cookie to a new server, *)
(* "main" for its RPCs.                                                    *)
Connection == Process \X {"probe", "greet", "main"}

VARIABLES
  lock,      \* the process that holds the lock of the cookie file
  file,      \* the content of the cookie file
  pc,        \* where each process is
  policy,    \* the policy the running call uses
  target,    \* the cookie and the address a process works with
  kind,      \* is a server a process of its own or a thread of another one?
  owner,     \* the process that started it
  state,     \* whether a server waits for its cookie, serves, or is dead
  scookie,   \* the cookie it has received
  queue,     \* the connections it has yet to accept
  cur,       \* the connection it reads from or serves
  sent,      \* the cookie that has been sent on a connection
  hung,      \* the connections their process has closed
  deaths,    \* how many servers have died on their own
  refusals   \* how often connecting or sending to a live server has failed

(* History variables, for the properties only. *)
VARIABLES
  published, \* servers whose address has been written to the file
  forsaken,  \* live servers a process found in the file and did not reach
  served,    \* connections that were handed to the handler
  consumed   \* connections that were closed for delivering the cookie

fileVars   == <<lock, file>>
procVars   == <<pc, policy, target>>
serverVars == <<kind, owner, state, scookie, cur>>
netVars    == <<queue, sent, hung>>
failVars   == <<deaths, refusals>>
histVars   == <<published, forsaken, served, consumed>>
vars == <<fileVars, procVars, serverVars, netVars, failVars, histVars>>

Empty == [cookie |-> None, addr |-> None]

Alive(s) == state[s] \in {"first", "loop"}

(* Closing the file, explicitly or on return, releases its lock. *)
Unlock(p) == lock' = IF lock = p THEN None ELSE lock

Goto(p, label) == pc' = [pc EXCEPT ![p] = label]

(* p's call fails with an error; the file and the connections are closed. *)
Fail(p) ==
  /\ Goto(p, "err")
  /\ Unlock(p)
  /\ hung' = hung \cup ({p} \X {"probe", "greet", "main"})
  /\ UNCHANGED <<file, policy, target, serverVars, queue, deaths, histVars>>

(* A TcpStream::connect that succeeds: the listener's backlog takes it. *)
Enqueue(p, k) ==
  queue' = [queue EXCEPT ![target[p].addr] = Append(@, <<p, k>>)]

-----------------------------------------------------------------------------
(* Both kinds of process: opening and reading the cookie file. *)

(* connect_with_policy or bootstrap is called. *)
Call(p, pol) ==
  /\ pc[p] = "idle"
  /\ policy' = [policy EXCEPT ![p] = pol]
  /\ Goto(p, "open")
  /\ UNCHANGED <<fileVars, target, serverVars, netVars, failVars, histVars>>

(* Mutant of Open: the file is opened but not locked. *)
OpenUnlocked(p) ==
  /\ pc[p] = "open"
  /\ Goto(p, "read")
  /\ UNCHANGED <<fileVars, policy, target, serverVars, netVars, failVars,
                 histVars>>

(* CookieFile::open blocks until the file can be locked. *)
Open(p) ==
  /\ pc[p] = "open"
  /\ lock = None
  /\ lock' = p
  /\ Goto(p, "read")
  /\ UNCHANGED <<file, policy, target, serverVars, netVars, failVars,
                 histVars>>

(* CookieFile::read, Cookie::extract: the address is used only if a whole  *)
(* cookie precedes it.                                                     *)
Read(p) ==
  /\ pc[p] = "read"
  /\ target' = [target EXCEPT ![p] = file]
  /\ Goto(p, IF file.cookie = None THEN "start" ELSE "probe")
  /\ UNCHANGED <<fileVars, policy, serverVars, netVars, failVars, histVars>>

(* The address cannot be parsed, or nobody listens there any more. *)
Unreachable(p) ==
  \/ target[p].addr = None
  \/ target[p].addr # None /\ ~Alive(target[p].addr)

(* Connecting or sending fails.  No error is looked at, and it need not    *)
(* mean that the server is gone: there may be no file descriptor left, or  *)
(* the connection times out because the backlog of a server that serves    *)
(* one client at a time is full.                                           *)
Refused(p) ==
  \/ Unreachable(p) /\ UNCHANGED refusals
  \/ ~Unreachable(p) /\ refusals < MaxRefusals /\ refusals' = refusals + 1

(* The server in the file is not reached: p takes it for dead. *)
Forsake(p) ==
  /\ Refused(p)
  /\ forsaken' = forsaken \cup (IF Unreachable(p) THEN {} ELSE {target[p].addr})

-----------------------------------------------------------------------------
(* connect_with_policy: the file names a server. *)

(* The server accepts the connection, which becomes the client's. *)
ConnectAdvertised(p) ==
  /\ p \in Clients
  /\ pc[p] = "probe"
  /\ ~Unreachable(p)
  /\ Enqueue(p, "main")
  /\ Goto(p, "send")
  /\ UNCHANGED <<fileVars, policy, target, serverVars, sent, hung, failVars,
                 histVars>>

(* Mutant of InvalidateCookie: the file is not cleared. *)
InvalidateCookieKeepsFile(p) ==
  /\ p \in Clients
  /\ pc[p] = "probe"
  /\ Forsake(p)
  /\ Unlock(p)
  /\ policy' = [policy EXCEPT ![p] = CtxPolicy[p]]
  /\ Goto(p, "open")
  /\ UNCHANGED <<file, target, serverVars, netVars, deaths, published, served,
                 consumed>>

(* Failed to connect: the cookie is invalidated, and connect() is called,  *)
(* which tries again with the policy of the context.                       *)
InvalidateCookie(p) ==
  /\ p \in Clients
  /\ pc[p] = "probe"
  /\ Forsake(p)
  /\ file' = Empty
  /\ Unlock(p)
  /\ policy' = [policy EXCEPT ![p] = CtxPolicy[p]]
  /\ Goto(p, "open")
  /\ UNCHANGED <<target, serverVars, netVars, deaths, published, served,
                 consumed>>

-----------------------------------------------------------------------------
(* Starting a server: start(), fork() and spawn(). *)

(* A server s runs, with a listener that start() has bound for it; the     *)
(* cookie has been drawn.  Addresses carry no meaning: they are given out  *)
(* in ascending order.                                                     *)
Launch(p, s, k) ==
  /\ state[s] = "none"
  /\ \A t \in Server : state[t] = "none" => s <= t
  /\ state' = [state EXCEPT ![s] = "first"]
  /\ kind' = [kind EXCEPT ![s] = k]
  /\ owner' = [owner EXCEPT ![s] = p]
  /\ target' = [target EXCEPT ![p] = [cookie |-> s, addr |-> s]]

(* Mutant of StartExternal: the cookie is not sent on a connection of its  *)
(* own ("It'd be nice not to waste this connection").                      *)
StartExternalUngreeted(p, s) ==
  /\ p \in Clients
  /\ pc[p] = "start"
  /\ policy[p] \in {"External", "Robust"}
  /\ Launch(p, s, "external")
  /\ Goto(p, "truncate")
  /\ UNCHANGED <<fileVars, policy, scookie, cur, netVars, failVars, histVars>>

(* start(true): a process is spawned. *)
StartExternal(p, s) ==
  /\ p \in Clients
  /\ pc[p] = "start"
  /\ policy[p] \in {"External", "Robust"}
  /\ Launch(p, s, "external")
  /\ Goto(p, "greet")
  /\ UNCHANGED <<fileVars, policy, scookie, cur, netVars, failVars, histVars>>

(* start(true) fails, because the executable cannot be run: with the       *)
(* robust policy, a thread is tried next.                                  *)
ForkFails(p) ==
  /\ p \in Clients
  /\ pc[p] = "start"
  /\ \/ policy[p] = "External" /\ Fail(p) /\ UNCHANGED <<sent, refusals>>
     \/ /\ policy[p] = "Robust"
        /\ Goto(p, "fallback")
        /\ UNCHANGED <<fileVars, policy, target, serverVars, netVars,
                       failVars, histVars>>

(* start(false): a thread of p.  A bootstrapper then writes the file, a    *)
(* client sends the cookie.                                                *)
StartInternal(p, s) ==
  /\ \/ pc[p] = "fallback"
     \/ pc[p] = "start" /\ (p \in Bootstrappers \/ policy[p] = "Internal")
  /\ Launch(p, s, "internal")
  /\ Goto(p, IF p \in Clients THEN "greet" ELSE "truncate")
  /\ UNCHANGED <<fileVars, policy, scookie, cur, netVars, failVars, histVars>>

-----------------------------------------------------------------------------
(* Sending the cookie to the new server. *)

(* TcpStream::connect to the address of the new server. *)
Greet(p) ==
  /\ pc[p] = "greet"
  /\ \/ Refused(p) /\ Fail(p) /\ UNCHANGED sent
     \/ /\ ~Unreachable(p)
        /\ Enqueue(p, "greet")
        /\ Goto(p, "greet_send")
        /\ UNCHANGED <<fileVars, policy, target, serverVars, sent, hung,
                       failVars, histVars>>

(* Mutant of GreetSend: the file is written for internal servers, and for  *)
(* external ones it is not.                                                *)
GreetSendUnpublished(p) ==
  /\ pc[p] = "greet_send"
  /\ \/ Refused(p) /\ Fail(p) /\ UNCHANGED sent
     \/ /\ sent' = [sent EXCEPT ![<<p, "greet">>] = target[p].cookie]
        /\ hung' = hung \cup {<<p, "greet">>}
        /\ Goto(p, IF p \in Bootstrappers THEN "done"
                   ELSE IF kind[target[p].addr] = "internal" THEN "truncate"
                   ELSE "unlock")
        /\ UNCHANGED <<fileVars, policy, target, serverVars, queue,
                       failVars, histVars>>

(* Cookie::send, then the connection is dropped.  A client goes on to the  *)
(* file if the server is external, a bootstrapper is done.  Every error of *)
(* sending is returned, and closes the connection without a cookie.        *)
GreetSend(p) ==
  /\ pc[p] = "greet_send"
  /\ \/ Refused(p) /\ Fail(p) /\ UNCHANGED sent
     \/ /\ sent' = [sent EXCEPT ![<<p, "greet">>] = target[p].cookie]
        /\ hung' = hung \cup {<<p, "greet">>}
        /\ Goto(p, IF p \in Bootstrappers THEN "done"
                   ELSE IF kind[target[p].addr] = "external" THEN "truncate"
                   ELSE "unlock")
        /\ UNCHANGED <<fileVars, policy, target, serverVars, queue,
                       failVars, histVars>>

-----------------------------------------------------------------------------
(* CookieFile::write. *)

(* The file is rewound and truncated. *)
Truncate(p) ==
  /\ pc[p] = "truncate"
  /\ file' = Empty
  /\ Goto(p, "write_cookie")
  /\ UNCHANGED <<lock, policy, target, serverVars, netVars, failVars,
                 histVars>>

(* Mutant of WriteCookie: not the cookie that was sent, but a fresh one. *)
WriteCookieFresh(p) ==
  /\ pc[p] = "write_cookie"
  /\ file' = [file EXCEPT !.cookie = CHOOSE c \in Server : c # target[p].cookie]
  /\ Goto(p, "write_addr")
  /\ UNCHANGED <<lock, policy, target, serverVars, netVars, failVars,
                 histVars>>

WriteCookie(p) ==
  /\ pc[p] = "write_cookie"
  /\ file' = [file EXCEPT !.cookie = target[p].cookie]
  /\ Goto(p, "write_addr")
  /\ UNCHANGED <<lock, policy, target, serverVars, netVars, failVars,
                 histVars>>

WriteAddr(p) ==
  /\ pc[p] = "write_addr"
  /\ file' = [file EXCEPT !.addr = target[p].addr]
  /\ published' = published \cup {target[p].addr}
  /\ Goto(p, "unlock")
  /\ UNCHANGED <<lock, policy, target, serverVars, netVars, failVars, forsaken,
                 served, consumed>>

(* drop(file).  A client opens its connection now, a bootstrapper only now *)
(* sends the cookie.                                                       *)
DropFile(p) ==
  /\ pc[p] = "unlock"
  /\ Unlock(p)
  /\ Goto(p, IF p \in Clients THEN "connect" ELSE "greet")
  /\ UNCHANGED <<file, policy, target, serverVars, netVars, failVars,
                 histVars>>

-----------------------------------------------------------------------------
(* do_connect: the client's own connection. *)

ConnectStarted(p) ==
  /\ pc[p] = "connect"
  /\ \/ Refused(p) /\ Fail(p) /\ UNCHANGED sent
     \/ /\ ~Unreachable(p)
        /\ Enqueue(p, "main")
        /\ Goto(p, "send")
        /\ UNCHANGED <<fileVars, policy, target, serverVars, sent, hung,
                       failVars, histVars>>

(* The cookie is sent and the RPC system is returned; the file is closed,  *)
(* if it was not before.  Sending may fail, and so may handing the stream  *)
(* to tokio afterwards.                                                    *)
SendCookie(p) ==
  /\ pc[p] = "send"
  /\ \/ /\ Refused(p) /\ Fail(p)
        /\ sent' \in {sent, [sent EXCEPT ![<<p, "main">>] = target[p].cookie]}
     \/ /\ sent' = [sent EXCEPT ![<<p, "main">>] = target[p].cookie]
        /\ Unlock(p)
        /\ Goto(p, "ok")
        /\ UNCHANGED <<file, policy, target, serverVars, queue, hung,
                       failVars, histVars>>

(* The client has done its RPCs and drops the connection. *)
Disconnect(p) ==
  /\ pc[p] = "ok"
  /\ hung' = hung \cup {<<p, "main">>}
  /\ Goto(p, "done")
  /\ UNCHANGED <<fileVars, policy, target, serverVars, queue, sent,
                 failVars, histVars>>

-----------------------------------------------------------------------------
(* bootstrap: is there a server already? *)

Probe(p) ==
  /\ p \in Bootstrappers
  /\ pc[p] = "probe"
  /\ \/ Forsake(p) /\ Goto(p, "start") /\ UNCHANGED queue
     \/ /\ ~Unreachable(p)
        /\ Goto(p, "probe_send")
        /\ Enqueue(p, "probe")
        /\ UNCHANGED <<refusals, forsaken>>
  /\ UNCHANGED <<fileVars, policy, target, serverVars, sent, hung, deaths,
                 published, served, consumed>>

(* The cookie could be sent: a server is running, and p is done with it.   *)
(* Otherwise p starts a server.                                            *)
ProbeSend(p) ==
  /\ pc[p] = "probe_send"
  /\ hung' = hung \cup {<<p, "probe">>}
  /\ \/ /\ Forsake(p)
        /\ Goto(p, "start")
        /\ UNCHANGED <<lock, sent>>
     \/ /\ sent' = [sent EXCEPT ![<<p, "probe">>] = target[p].cookie]
        /\ Unlock(p)
        /\ Goto(p, "done")
        /\ UNCHANGED <<refusals, forsaken>>
  /\ UNCHANGED <<file, policy, target, serverVars, queue, deaths, published,
                 served, consumed>>

-----------------------------------------------------------------------------
(* serve_listener: one connection at a time. *)

(* accept(). *)
Accept(s) ==
  /\ Alive(s)
  /\ cur[s] = None
  /\ queue[s] # <<>>
  /\ cur' = [cur EXCEPT ![s] = Head(queue[s])]
  /\ queue' = [queue EXCEPT ![s] = Tail(@)]
  /\ UNCHANGED <<fileVars, procVars, kind, owner, state, scookie, sent, hung,
                 failVars, histVars>>

(* A server's end closes its listener and its connections. *)
Exit(s) ==
  /\ state' = [state EXCEPT ![s] = "dead"]
  /\ queue' = [queue EXCEPT ![s] = <<>>]
  /\ cur' = [cur EXCEPT ![s] = None]

(* The first connection delivers the cookie and is closed. *)
ReceiveFirst(s) ==
  /\ state[s] = "first" /\ cur[s] # None
  /\ sent[cur[s]] # None
  /\ scookie' = [scookie EXCEPT ![s] = sent[cur[s]]]
  /\ state' = [state EXCEPT ![s] = "loop"]
  /\ cur' = [cur EXCEPT ![s] = None]
  /\ consumed' = consumed \cup {cur[s]}
  /\ UNCHANGED <<fileVars, procVars, kind, owner, netVars, failVars, published,
                 forsaken, served>>

(* The first connection was closed without a cookie: serve_listener fails. *)
ReceiveFirstFails(s) ==
  /\ state[s] = "first" /\ cur[s] # None
  /\ sent[cur[s]] = None /\ cur[s] \in hung
  /\ Exit(s)
  /\ UNCHANGED <<fileVars, procVars, kind, owner, scookie, sent, hung, failVars,
                 histVars>>

(* Later connections: the handler serves those that send the right cookie, *)
(* and the loop waits for the RPC system to end.                           *)
Receive(s) ==
  /\ state[s] = "loop" /\ cur[s] # None /\ cur[s] \notin served
  /\ sent[cur[s]] # None
  /\ IF sent[cur[s]] = scookie[s]
     THEN served' = served \cup {cur[s]} /\ UNCHANGED cur
     ELSE cur' = [cur EXCEPT ![s] = None] /\ UNCHANGED served
  /\ UNCHANGED <<fileVars, procVars, kind, owner, state, scookie, netVars,
                 failVars, published, forsaken, consumed>>

(* receive_async fails, or the client of the served connection is gone:    *)
(* on to the next connection.                                              *)
NextConnection(s) ==
  /\ state[s] = "loop" /\ cur[s] # None /\ cur[s] \in hung
  /\ sent[cur[s]] = None \/ cur[s] \in served
  /\ cur' = [cur EXCEPT ![s] = None]
  /\ UNCHANGED <<fileVars, procVars, kind, owner, state, scookie, netVars,
                 failVars, histVars>>

-----------------------------------------------------------------------------
(* Failures. *)

(* An external server dies: it is killed, or its executable is no server. *)
Die(s) ==
  /\ Alive(s) /\ kind[s] = "external"
  /\ deaths < MaxDeaths
  /\ deaths' = deaths + 1 /\ UNCHANGED refusals
  /\ Exit(s)
  /\ UNCHANGED <<fileVars, procVars, kind, owner, scookie, sent, hung, histVars>>

(* A process dies, and with it its threads, its lock and its connections. *)
Crash(p) ==
  LET threads == {s \in Server : owner[s] = p /\ kind[s] = "internal" /\ Alive(s)}
  IN  /\ p \in Mortal /\ pc[p] \notin {"idle", "dead"}
      /\ Goto(p, "dead")
      /\ Unlock(p)
      /\ hung' = hung \cup ({p} \X {"probe", "greet", "main"})
      /\ state' = [s \in Server |-> IF s \in threads THEN "dead" ELSE state[s]]
      /\ queue' = [s \in Server |-> IF s \in threads THEN <<>> ELSE queue[s]]
      /\ cur' = [s \in Server |-> IF s \in threads THEN None ELSE cur[s]]
      /\ UNCHANGED <<file, policy, target, kind, owner, scookie, sent,
                     failVars, histVars>>

-----------------------------------------------------------------------------
(* Nothing has been started, the cookie file does not exist. *)
Init ==
  /\ lock = None /\ file = Empty
  /\ pc = [p \in Process |-> "idle"]
  /\ policy = [p \in Process |-> "Internal"]
  /\ target = [p \in Process |-> Empty]
  /\ kind = [s \in Server |-> "internal"]
  /\ owner = [s \in Server |-> None]
  /\ state = [s \in Server |-> "none"]
  /\ scookie = [s \in Server |-> None]
  /\ queue = [s \in Server |-> <<>>]
  /\ cur = [s \in Server |-> None]
  /\ sent = [c \in Connection |-> None]
  /\ hung = {} /\ deaths = 0 /\ refusals = 0
  /\ published = {} /\ forsaken = {} /\ served = {} /\ consumed = {}

(* What a process that has called does next. *)
ProcessStep(p) ==
  \/ Open(p) \/ Read(p)
  \/ ConnectAdvertised(p) \/ InvalidateCookie(p) \/ Probe(p) \/ ProbeSend(p)
  \/ \E s \in Server : StartExternal(p, s) \/ StartInternal(p, s)
  \/ ForkFails(p)
  \/ Greet(p) \/ GreetSend(p)
  \/ Truncate(p) \/ WriteCookie(p) \/ WriteAddr(p) \/ DropFile(p)
  \/ ConnectStarted(p) \/ SendCookie(p)

ServerStep(s) ==
  \/ Accept(s) \/ ReceiveFirst(s) \/ ReceiveFirstFails(s)
  \/ Receive(s) \/ NextConnection(s)

Next ==
  \/ \E p \in Clients : \E pol \in CallPolicies : Call(p, pol)
  \/ \E p \in Bootstrappers : Call(p, "Internal")
  \/ \E p \in Process : ProcessStep(p) \/ Disconnect(p) \/ Crash(p)
  \/ \E s \in Server : ServerStep(s) \/ Die(s)

(* Processes and servers that can run do; clients drop their connections   *)
(* some day (a client that never does starves all others).                 *)
Fairness ==
  /\ \A p \in Process : WF_vars(ProcessStep(p) \/ Disconnect(p))
  /\ \A s \in Server : WF_vars(ServerStep(s))

Spec == Init /\ [][Next]_vars /\ Fairness

-----------------------------------------------------------------------------
(* A process that is between opening and closing the cookie file. *)
Critical(p) ==
  \/ pc[p] \in {"read", "probe", "probe_send", "start", "fallback", "truncate",
                "write_cookie", "write_addr", "unlock"}
  \/ p \in Clients /\ pc[p] \in {"greet", "greet_send"}

(* The variables have their types (the fields of Descriptor, CookieFile    *)
(* and Server), and whoever works with the open cookie file has it locked. *)
TypeOK ==
  /\ lock \in Process \cup {None}
  /\ \A p \in Process : Critical(p) => lock = p
  /\ file \in [cookie : Server \cup {None}, addr : Server \cup {None}]
  /\ pc \in [Process -> {"idle", "open", "read", "probe", "probe_send", "start",
                         "fallback", "greet", "greet_send", "truncate",
                         "write_cookie", "write_addr", "unlock", "connect",
                         "send", "ok", "done", "err", "dead"}]
  /\ policy \in [Process -> Policy]
  /\ target \in [Process -> [cookie : Server \cup {None},
                             addr : Server \cup {None}]]
  /\ kind \in [Server -> {"internal", "external"}]
  /\ owner \in [Server -> Process \cup {None}]
  /\ state \in [Server -> {"none", "first", "loop", "dead"}]
  /\ scookie \in [Server -> Server \cup {None}]
  /\ queue \in [Server -> Seq(Connection)]
  /\ cur \in [Server -> Connection \cup {None}]
  /\ sent \in [Connection -> Server \cup {None}]
  /\ hung \subseteq Connection
  /\ deaths \in 0 .. MaxDeaths /\ refusals \in 0 .. MaxRefusals
  /\ published \subseteq Server /\ forsaken \subseteq Server
  /\ served \subseteq Connection /\ consumed \subseteq Connection

(* A live server that has been advertised stays advertised, whoever        *)
(* connects, bootstraps, retries or crashes: its entry is cleared or       *)
(* overwritten only after a process that had found it in the file failed   *)
(* to connect or to send to it (every such error counts as its death).     *)
(* Hence two live servers have been advertised only if one was forsaken.   *)
PublishedStays ==
  \A s \in published \ forsaken : Alive(s) => file = [cookie |-> s, addr |-> s]

(* An external server that is not advertised is being started by the       *)
(* holder of the lock, or was left behind by a starter that crashed or     *)
(* failed before it wrote the file.  (Whoever starts one has the file      *)
(* locked: TypeOK.)                                                        *)
OrphansOnlyByFailure ==
  /\ TypeOK
  /\ \A s \in Server :
       kind[s] = "external" /\ Alive(s) /\ s \notin published =>
         \/ lock = owner[s] /\ target[owner[s]].addr = s /\ Critical(owner[s])
         \/ pc[owner[s]] \in {"err", "dead"}

(* No process that learned of a server through the file, or started it, is *)
(* turned away: whichever connection delivered the server's cookie, all    *)
(* the later ones bring the same cookie.                                   *)
NobodyRejected ==
  \A s \in Server :
    state[s] = "loop" /\ cur[s] # None => sent[cur[s]] \in {None, scookie[s]}

(* Every call returns, although processes and servers may die and every    *)
(* stale entry makes the call start over: a process makes one call, so it  *)
(* is enough that in the end nobody is inside one.                         *)
CallReturns ==
  <>[](\A p \in Process : pc[p] \in {"idle", "ok", "done", "err", "dead"})

(* A client that has sent its cookie is served in the end, unless its      *)
(* server dies.  The comment in serve_listener promises it: the starter    *)
(* hands over the cookie before it unlocks the file, "thereby allowing     *)
(* other clients to connect", so no client's connection is taken for the   *)
(* one that brings the cookie.  bootstrap() keeps another order, and a     *)
(* client may lose its connection to a server that was started that way,   *)
(* and to no other.                                                        *)
EventuallyServed ==
  <>[](\A p \in Clients :
         sent[<<p, "main">>] # None =>
           \/ <<p, "main">> \in served
           \/ Unreachable(p)
           \/ /\ <<p, "main">> \in consumed
              /\ owner[target[p].addr] \in Bootstrappers)
=============================================================================
