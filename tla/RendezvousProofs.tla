-------------------------- MODULE RendezvousProofs --------------------------
(***************************************************************************)
(* The safety properties of Rendezvous, for any number of clients,         *)
(* bootstrappers and servers, all policies, and crashes at any point.      *)
(*                                                                         *)
(* The inductive invariant IInv is built in layers: the types; the lock    *)
(* (LockInv); what the file and the processes' copies of it may hold       *)
(* (FileInv, TargetInv), which needs the lock; that a process about to     *)
(* overwrite the file knows all advertised servers to be dead              *)
(* (PublishInv); who has a server that is not advertised (OrphanInv); and  *)
(* which connections and cookies can be under way (ConnInv).  Each layer   *)
(* has a lemma that says that every step keeps it, one step per action.    *)
(***************************************************************************)
EXTENDS Rendezvous, SequenceTheorems, TLAPS

(* The values of pc, and the contents of the cookie file and of target. *)
Labels == {"idle", "open", "read", "probe", "probe_send", "start", "fallback",
           "greet", "greet_send", "truncate", "write_cookie", "write_addr",
           "unlock", "connect", "send", "ok", "done", "err", "dead"}
Entries == [cookie : Server \cup {None}, addr : Server \cup {None}]

(* The parts of TypeOK: the types of the variables, and that whoever works *)
(* with the open cookie file holds its lock.                               *)
Types ==
  /\ lock \in Process \cup {None}
  /\ file \in Entries
  /\ pc \in [Process -> Labels]
  /\ policy \in [Process -> Policy]
  /\ target \in [Process -> Entries]
  /\ kind \in [Server -> {"internal", "external"}]
  /\ owner \in [Server -> Process \cup {None}]
  /\ state \in [Server -> {"none", "first", "loop", "dead"}]
  /\ scookie \in [Server -> Server \cup {None}]
  /\ queue \in [Server -> Seq(Connection)]
  /\ cur \in [Server -> Connection \cup {None}]
  /\ sent \in [Connection -> Server \cup {None}]
  /\ hung \subseteq Connection
  /\ deaths \in 0 .. MaxDeaths /\ refusals \in 0 .. MaxRefusals
  /\ published \subseteq Server /\ forsaken \subseteq Server
  /\ served \subseteq Connection /\ consumed \subseteq Connection

LockInv == \A p \in Process : Critical(p) => lock = p

(* The server a process works with is one that has been started, and the   *)
(* cookie the process will send or write is the one that was drawn for it. *)
TargetInv ==
  \A p \in Process :
    pc[p] \in {"greet", "greet_send", "truncate", "write_cookie", "write_addr",
               "unlock", "connect", "send", "probe_send"} =>
      /\ target[p].addr \in Server
      /\ target[p].cookie = target[p].addr
      /\ state[target[p].addr] # "none"

(* TypeOK says what its two parts say. *)
LEMMA TypeParts == TypeOK <=> Types /\ LockInv
BY DEF TypeOK, Types, LockInv, Labels, Entries

(* The connections a process may open are connections. *)
LEMMA Connections ==
  ASSUME NEW p \in Process, NEW k \in {"probe", "greet", "main"}
  PROVE  <<p, k>> \in Connection
BY DEF Connection

(* Cookie::send on a connection that a process may open. *)
LEMMA Sends ==
  ASSUME Types, NEW p \in Process, NEW k \in {"probe", "greet", "main"},
         sent' = [sent EXCEPT ![<<p, k>>] = target[p].cookie]
  PROVE  sent' \in [Connection -> Server \cup {None}]
<1> DEFINE c == <<p, k>>
           v == target[p].cookie
<1>1. c \in Connection
  BY Connections
<1>2. v \in Server \cup {None}
  BY DEF Types, Entries
<1>3. sent' = [sent EXCEPT ![c] = v] /\ sent \in [Connection -> Server \cup {None}]
  BY DEF Types
<1> HIDE DEF c, v
<1> QED BY <1>1, <1>2, <1>3

(* A process that goes on is at one of the labels. *)
LEMMA Goes ==
  ASSUME Types, NEW p \in Process, NEW l \in Labels, Goto(p, l)
  PROVE  pc' \in [Process -> Labels]
<1>1. pc \in [Process -> Labels] /\ pc' = [pc EXCEPT ![p] = l]
  BY DEF Types, Goto
<1> QED BY <1>1

(* A TcpStream::connect succeeds only towards a live server. *)
LEMMA Reachable ==
  ASSUME Types, NEW p \in Process, ~Unreachable(p)
  PROVE  /\ target[p].addr \in Server /\ target[p].addr # None
         /\ Alive(target[p].addr)
BY DEF Types, Unreachable, Entries

(* A failed connect or send is counted if the server lives. *)
LEMMA RefusalsCounted ==
  ASSUME Types, NEW p \in Process, Refused(p)
  PROVE  refusals' \in 0 .. MaxRefusals
BY MaxDeathsAssumption DEF Types, Refused

(* Only servers are given up on. *)
LEMMA ForsakenServers ==
  ASSUME Types, NEW p \in Process, Forsake(p)
  PROVE  forsaken' \subseteq Server /\ refusals' \in 0 .. MaxRefusals
<1>1. forsaken' \subseteq Server
  BY Reachable DEF Types, Forsake
<1> QED BY <1>1, RefusalsCounted DEF Forsake

(* A connection that the backlog of a listener takes leaves the queues     *)
(* sequences of connections.                                               *)
LEMMA Enqueued ==
  ASSUME Types, NEW p \in Process, NEW k \in {"probe", "greet", "main"},
         ~Unreachable(p), Enqueue(p, k)
  PROVE  queue' \in [Server -> Seq(Connection)]
<1> DEFINE s == target[p].addr
           c == <<p, k>>
<1>1. s \in Server /\ c \in Connection
  BY Reachable, Connections
<1>2. queue' = [queue EXCEPT ![s] = Append(queue[s], c)]
  BY DEF Enqueue
<1> HIDE DEF s, c
<1>3. Append(queue[s], c) \in Seq(Connection)
  BY <1>1, AppendProperties DEF Types
<1> QED BY <1>1, <1>2, <1>3 DEF Types

(* Every step keeps the types. WriteAddr needs TargetInv: what becomes     *)
(* published is the address of a server.                                   *)
LEMMA TypesNext == Types /\ TargetInv /\ [Next]_vars => Types'
<1> USE DEF Types, Labels, Entries, Goto, Unlock, fileVars, procVars, serverVars,
            netVars, failVars, histVars
<1> SUFFICES ASSUME Types, TargetInv, [Next]_vars PROVE Types'
  OBVIOUS
<1>0. ASSUME NEW p \in Process, Fail(p), refusals' \in 0 .. MaxRefusals,
             sent' \in [Connection -> Server \cup {None}]
      PROVE  Types'
  <2>1. hung' \subseteq Connection
    BY <1>0 DEF Fail, Connection
  <2> QED BY <1>0, <2>1 DEF Fail
<1>1. ASSUME NEW p \in Process, NEW pol \in Policy, Call(p, pol) PROVE Types'
  BY <1>1 DEF Call
<1>2. ASSUME NEW p \in Process, Open(p) PROVE Types'
  BY <1>2 DEF Open
<1>3. ASSUME NEW p \in Process, Read(p) PROVE Types'
  BY <1>3 DEF Read
<1>4. ASSUME NEW p \in Process, ConnectAdvertised(p) PROVE Types'
  BY <1>4, Enqueued DEF ConnectAdvertised
<1>5. ASSUME NEW p \in Process, InvalidateCookie(p) PROVE Types'
  BY <1>5, PolicyAssumption, ForsakenServers DEF InvalidateCookie, Empty, Process
<1>6. ASSUME NEW p \in Process, Probe(p) PROVE Types'
  <2>1. CASE Forsake(p) /\ UNCHANGED queue
    BY <1>6, <2>1, ForsakenServers DEF Probe
  <2>2. CASE ~Unreachable(p) /\ Enqueue(p, "probe")
    BY <1>6, <2>2, Enqueued, ForsakenServers DEF Probe
  <2> QED BY <1>6, <2>1, <2>2 DEF Probe
<1>7. ASSUME NEW p \in Process, ProbeSend(p) PROVE Types'
  <2>1. <<p, "probe">> \in Connection
    BY Connections
  <2>2. pc' \in [Process -> Labels]
    BY <1>7, Goes DEF ProbeSend
  <2>3. sent' \in [Connection -> Server \cup {None}]
    BY <1>7, Sends DEF ProbeSend
  <2>4. hung' \subseteq Connection /\ lock' \in Process \cup {None}
    BY <1>7, <2>1 DEF ProbeSend
  <2>5. forsaken' \subseteq Server /\ refusals' \in 0 .. MaxRefusals
    BY <1>7, ForsakenServers DEF ProbeSend
  <2> QED BY <1>7, <2>2, <2>3, <2>4, <2>5 DEF ProbeSend
<1>8. ASSUME NEW p \in Process, ForkFails(p) PROVE Types'
  <2>1. CASE Fail(p)
    BY <1>0, <1>8, <2>1, RefusalsCounted DEF ForkFails
  <2>2. CASE ~Fail(p)
    BY <1>8, <2>2 DEF ForkFails
  <2> QED BY <2>1, <2>2
<1>9. ASSUME NEW p \in Process, Greet(p) PROVE Types'
  <2>1. CASE Fail(p)
    BY <1>0, <1>9, <2>1, RefusalsCounted DEF Greet
  <2>2. CASE ~Fail(p)
    BY <1>9, <2>2, Enqueued DEF Greet
  <2> QED BY <2>1, <2>2
<1>10. ASSUME NEW p \in Process, GreetSend(p) PROVE Types'
  <2>1. CASE Fail(p)
    BY <1>0, <1>10, <2>1, RefusalsCounted DEF GreetSend
  <2>2. CASE ~Fail(p)
    <3>1. <<p, "greet">> \in Connection
      BY Connections
    <3>2. pc' \in [Process -> Labels]
      BY <1>10, <2>2, Goes DEF GreetSend
    <3>3. sent' \in [Connection -> Server \cup {None}]
      BY <1>10, <2>2, Sends DEF GreetSend
    <3>4. hung' \subseteq Connection
      <4>1. hung' = hung \cup {<<p, "greet">>}
        BY <1>10, <2>2 DEF GreetSend
      <4> QED BY <3>1, <4>1
    <3> QED BY <1>10, <2>2, <3>2, <3>3, <3>4 DEF GreetSend
  <2> QED BY <2>1, <2>2
<1>11. ASSUME NEW p \in Process, Truncate(p) PROVE Types'
  BY <1>11 DEF Truncate, Empty
<1>12. ASSUME NEW p \in Process, WriteCookie(p) PROVE Types'
  BY <1>12 DEF WriteCookie
<1>13. ASSUME NEW p \in Process, WriteAddr(p) PROVE Types'
  BY <1>13 DEF WriteAddr, TargetInv
<1>14. ASSUME NEW p \in Process, DropFile(p) PROVE Types'
  BY <1>14 DEF DropFile
<1>15. ASSUME NEW p \in Process, ConnectStarted(p) PROVE Types'
  <2>1. CASE Fail(p)
    BY <1>0, <1>15, <2>1, RefusalsCounted DEF ConnectStarted
  <2>2. CASE ~Fail(p)
    BY <1>15, <2>2, Enqueued DEF ConnectStarted
  <2> QED BY <2>1, <2>2
<1>16. ASSUME NEW p \in Process, SendCookie(p) PROVE Types'
  <2>1. CASE Fail(p)
    <3>1. sent' \in [Connection -> Server \cup {None}]
      BY <1>16, Sends DEF SendCookie
    <3>2. refusals' \in 0 .. MaxRefusals
      BY <1>16, RefusalsCounted DEF SendCookie
    <3> QED BY <1>0, <2>1, <3>1, <3>2
  <2>2. CASE ~Fail(p)
    <3>1. pc' \in [Process -> Labels]
      <4>1. Goto(p, "ok") /\ "ok" \in Labels
        BY <1>16, <2>2 DEF SendCookie
      <4> QED BY <4>1, Goes
    <3>2. sent' \in [Connection -> Server \cup {None}]
      BY <1>16, <2>2, Sends DEF SendCookie
    <3>3. lock' \in Process \cup {None}
      BY <1>16, <2>2 DEF SendCookie
    <3> QED BY <1>16, <2>2, <3>1, <3>2, <3>3 DEF SendCookie
  <2> QED BY <2>1, <2>2
<1>17. ASSUME NEW p \in Process, Disconnect(p) PROVE Types'
  BY <1>17, Connections DEF Disconnect
<1>18. ASSUME NEW p \in Process, Crash(p) PROVE Types'
  BY <1>18 DEF Crash, Connection
<1>19. ASSUME NEW p \in Process, NEW s \in Server, StartExternal(p, s) PROVE Types'
  BY <1>19 DEF StartExternal, Launch
<1>20. ASSUME NEW p \in Process, NEW s \in Server, StartInternal(p, s) PROVE Types'
  BY <1>20 DEF StartInternal, Launch
<1>21. ASSUME NEW s \in Server, Accept(s) PROVE Types'
  BY <1>21 DEF Accept, Alive
<1>22. ASSUME NEW s \in Server, ReceiveFirst(s) PROVE Types'
  BY <1>22 DEF ReceiveFirst
<1>23. ASSUME NEW s \in Server, ReceiveFirstFails(s) PROVE Types'
  BY <1>23 DEF ReceiveFirstFails, Exit
<1>24. ASSUME NEW s \in Server, Receive(s) PROVE Types'
  BY <1>24 DEF Receive
<1>25. ASSUME NEW s \in Server, NextConnection(s) PROVE Types'
  BY <1>25 DEF NextConnection
<1>26. ASSUME NEW s \in Server, Die(s) PROVE Types'
  BY <1>26, MaxDeathsAssumption DEF Die, Exit
<1>27. CASE UNCHANGED vars
  BY <1>27 DEF vars
<1> HIDE DEF Types, Labels, Entries, Goto, Unlock, fileVars, procVars, serverVars,
             netVars, failVars, histVars
<1> QED
  BY PolicyAssumption, <1>1, <1>2, <1>3, <1>4, <1>5, <1>6, <1>7, <1>8, <1>9,
     <1>10, <1>11, <1>12, <1>13, <1>14, <1>15, <1>16, <1>17, <1>18, <1>19,
     <1>20, <1>21, <1>22, <1>23, <1>24, <1>25, <1>26, <1>27
  DEF Next, Process, Policy, ProcessStep, ServerStep

-----------------------------------------------------------------------------
(* Servers only age: one that was started stays started, and the dead stay *)
(* dead. No other step than Launch makes a server live.                    *)
Ages ==
  \A t \in Server :
    /\ state[t] # "none" => state'[t] # "none"
    /\ Alive(t)' => Alive(t)

(* serve_listener never touches the cookie file or the state of a client. *)
LEMMA ServerFrame ==
  ASSUME Types, NEW s \in Server, ServerStep(s) \/ Die(s)
  PROVE  UNCHANGED <<fileVars, procVars, kind, owner, published, forsaken>> /\ Ages
BY DEF ServerStep, Accept, ReceiveFirst, ReceiveFirstFails, Receive, NextConnection,
       Die, Exit, Ages, Alive, Types, fileVars, procVars, netVars, failVars, histVars

(* A crash leaves the file as it is, and kills servers only. *)
LEMMA CrashFrame ==
  ASSUME Types, NEW p \in Process, Crash(p)
  PROVE  UNCHANGED <<file, policy, target, kind, owner, published, forsaken>> /\ Ages
BY DEF Crash, Ages, Alive, Types, histVars

(* The lock of the cookie file protects the steps between CookieFile::open *)
(* and the drop of the file, for clients and bootstrappers alike, whatever *)
(* fails in between.                                                       *)
LEMMA LockNext == Types /\ LockInv /\ [Next]_vars => LockInv'
<1> USE DEF Types, Labels, Entries, LockInv, Critical, Goto, Unlock, fileVars,
            procVars, serverVars, netVars, failVars, histVars
<1> SUFFICES ASSUME Types, LockInv, [Next]_vars PROVE LockInv'
  OBVIOUS
<1>0. ASSUME NEW p \in Process, Fail(p) PROVE LockInv'
  BY <1>0 DEF Fail
<1>1. ASSUME NEW p \in Process, NEW pol \in Policy, Call(p, pol) PROVE LockInv'
  BY <1>1 DEF Call
<1>2. ASSUME NEW p \in Process, Open(p) PROVE LockInv'
  BY <1>2, ProcessAssumption DEF Open
<1>3. ASSUME NEW p \in Process, Read(p) PROVE LockInv'
  BY <1>3 DEF Read
<1>4. ASSUME NEW p \in Process, ConnectAdvertised(p) PROVE LockInv'
  BY <1>4 DEF ConnectAdvertised
<1>5. ASSUME NEW p \in Process, InvalidateCookie(p) PROVE LockInv'
  BY <1>5 DEF InvalidateCookie
<1>6. ASSUME NEW p \in Process, Probe(p) PROVE LockInv'
  BY <1>6 DEF Probe
<1>7. ASSUME NEW p \in Process, ProbeSend(p) PROVE LockInv'
  BY <1>7 DEF ProbeSend
<1>8. ASSUME NEW p \in Process, ForkFails(p) PROVE LockInv'
  <2>1. CASE Fail(p)
    BY <1>0, <1>8, <2>1 DEF ForkFails
  <2>2. CASE ~Fail(p)
    BY <1>8, <2>2 DEF ForkFails
  <2> QED BY <2>1, <2>2
<1>9. ASSUME NEW p \in Process, Greet(p) PROVE LockInv'
  <2>1. CASE Fail(p)
    BY <1>0, <1>9, <2>1 DEF Greet
  <2>2. CASE ~Fail(p)
    BY <1>9, <2>2 DEF Greet
  <2> QED BY <2>1, <2>2
<1>10. ASSUME NEW p \in Process, GreetSend(p) PROVE LockInv'
  <2>1. CASE Fail(p)
    BY <1>0, <1>10, <2>1 DEF GreetSend
  <2>2. CASE ~Fail(p)
    BY <1>10, <2>2 DEF GreetSend, Process
  <2> QED BY <2>1, <2>2
<1>11. ASSUME NEW p \in Process, Truncate(p) PROVE LockInv'
  BY <1>11 DEF Truncate
<1>12. ASSUME NEW p \in Process, WriteCookie(p) PROVE LockInv'
  BY <1>12 DEF WriteCookie
<1>13. ASSUME NEW p \in Process, WriteAddr(p) PROVE LockInv'
  BY <1>13 DEF WriteAddr
<1>14. ASSUME NEW p \in Process, DropFile(p) PROVE LockInv'
  BY <1>14 DEF DropFile
<1>15. ASSUME NEW p \in Process, ConnectStarted(p) PROVE LockInv'
  <2>1. CASE Fail(p)
    BY <1>0, <1>15, <2>1 DEF ConnectStarted
  <2>2. CASE ~Fail(p)
    BY <1>15, <2>2 DEF ConnectStarted
  <2> QED BY <2>1, <2>2
<1>16. ASSUME NEW p \in Process, SendCookie(p) PROVE LockInv'
  <2>1. CASE Fail(p)
    BY <1>0, <1>16, <2>1 DEF SendCookie
  <2>2. CASE ~Fail(p)
    <3>1. /\ pc' = [pc EXCEPT ![p] = "ok"]
          /\ lock' = IF lock = p THEN None ELSE lock
      BY <1>16, <2>2 DEF SendCookie
    <3> QED BY <3>1
  <2> QED BY <2>1, <2>2
<1>17. ASSUME NEW p \in Process, Disconnect(p) PROVE LockInv'
  BY <1>17 DEF Disconnect
<1>18. ASSUME NEW p \in Process, Crash(p) PROVE LockInv'
  BY <1>18 DEF Crash
<1>19. ASSUME NEW p \in Process, NEW s \in Server, StartExternal(p, s) PROVE LockInv'
  BY <1>19 DEF StartExternal, Launch
<1>20. ASSUME NEW p \in Process, NEW s \in Server, StartInternal(p, s) PROVE LockInv'
  BY <1>20 DEF StartInternal, Launch
<1>21. ASSUME NEW s \in Server, ServerStep(s) \/ Die(s) PROVE LockInv'
  BY <1>21, ServerFrame
<1>22. CASE UNCHANGED vars
  BY <1>22 DEF vars
<1> HIDE DEF Types, Labels, Entries, LockInv, Critical, Goto, Unlock, fileVars, procVars,
             serverVars, netVars, failVars, histVars
<1> QED
  BY PolicyAssumption, <1>1, <1>2, <1>3, <1>4, <1>5, <1>6, <1>7, <1>8, <1>9,
     <1>10, <1>11, <1>12, <1>13, <1>14, <1>15, <1>16, <1>17, <1>18, <1>19,
     <1>20, <1>21, <1>22
  DEF Next, ProcessStep, Process, Policy

-----------------------------------------------------------------------------
(* A complete entry of the file names a server that was started, with its  *)
(* own cookie; what a process has read is still there while it probes the  *)
(* server; and a half-written entry is the writer's own.                   *)
FileInv ==
  /\ file.addr # None => file.cookie = file.addr /\ state[file.addr] # "none"
  /\ \A p \in Process :
       /\ pc[p] \in {"probe", "probe_send"} => target[p] = file
       /\ pc[p] = "write_cookie" => file = Empty
       /\ pc[p] = "write_addr" =>
            file = [cookie |-> target[p].cookie, addr |-> None]

(* A process gets its target from the file, which FileInv says is          *)
(* consistent, or from Launch.                                             *)
LEMMA TargetNext == Types /\ FileInv /\ TargetInv /\ [Next]_vars => TargetInv'
<1> USE DEF Types, Labels, Entries, TargetInv, Goto, Unlock, fileVars,
            procVars, serverVars, netVars, failVars, histVars
<1> SUFFICES ASSUME Types, FileInv, TargetInv, [Next]_vars PROVE TargetInv'
  OBVIOUS
<1>0. ASSUME NEW p \in Process, Fail(p) PROVE TargetInv'
  BY <1>0 DEF Fail
<1>1. ASSUME NEW p \in Process, NEW pol \in Policy, Call(p, pol) PROVE TargetInv'
  BY <1>1 DEF Call
<1>2. ASSUME NEW p \in Process, Open(p) PROVE TargetInv'
  BY <1>2 DEF Open
<1>3. ASSUME NEW p \in Process, Read(p) PROVE TargetInv'
  BY <1>3 DEF Read
<1>4. ASSUME NEW p \in Process, ConnectAdvertised(p) PROVE TargetInv'
  BY <1>4, Reachable DEF ConnectAdvertised, FileInv, Alive
<1>5. ASSUME NEW p \in Process, InvalidateCookie(p) PROVE TargetInv'
  BY <1>5 DEF InvalidateCookie
<1>6. ASSUME NEW p \in Process, Probe(p) PROVE TargetInv'
  BY <1>6, Reachable DEF Probe, FileInv, Alive
<1>7. ASSUME NEW p \in Process, ProbeSend(p) PROVE TargetInv'
  BY <1>7 DEF ProbeSend
<1>8. ASSUME NEW p \in Process, ForkFails(p) PROVE TargetInv'
  <2>1. CASE Fail(p)
    BY <1>0, <1>8, <2>1 DEF ForkFails
  <2>2. CASE ~Fail(p)
    BY <1>8, <2>2 DEF ForkFails
  <2> QED BY <2>1, <2>2
<1>9. ASSUME NEW p \in Process, Greet(p) PROVE TargetInv'
  <2>1. CASE Fail(p)
    BY <1>0, <1>9, <2>1 DEF Greet
  <2>2. CASE ~Fail(p)
    BY <1>9, <2>2 DEF Greet
  <2> QED BY <2>1, <2>2
<1>10. ASSUME NEW p \in Process, GreetSend(p) PROVE TargetInv'
  <2>1. CASE Fail(p)
    BY <1>0, <1>10, <2>1 DEF GreetSend
  <2>2. CASE ~Fail(p)
    BY <1>10, <2>2 DEF GreetSend
  <2> QED BY <2>1, <2>2
<1>11. ASSUME NEW p \in Process, Truncate(p) PROVE TargetInv'
  BY <1>11 DEF Truncate
<1>12. ASSUME NEW p \in Process, WriteCookie(p) PROVE TargetInv'
  BY <1>12 DEF WriteCookie
<1>13. ASSUME NEW p \in Process, WriteAddr(p) PROVE TargetInv'
  BY <1>13 DEF WriteAddr
<1>14. ASSUME NEW p \in Process, DropFile(p) PROVE TargetInv'
  BY <1>14 DEF DropFile
<1>15. ASSUME NEW p \in Process, ConnectStarted(p) PROVE TargetInv'
  <2>1. CASE Fail(p)
    BY <1>0, <1>15, <2>1 DEF ConnectStarted
  <2>2. CASE ~Fail(p)
    BY <1>15, <2>2 DEF ConnectStarted
  <2> QED BY <2>1, <2>2
<1>16. ASSUME NEW p \in Process, SendCookie(p) PROVE TargetInv'
  <2>1. CASE Fail(p)
    BY <1>0, <1>16, <2>1 DEF SendCookie
  <2>2. CASE ~Fail(p)
    BY <1>16, <2>2 DEF SendCookie
  <2> QED BY <2>1, <2>2
<1>17. ASSUME NEW p \in Process, Disconnect(p) PROVE TargetInv'
  BY <1>17 DEF Disconnect
<1>18. ASSUME NEW p \in Process, Crash(p) PROVE TargetInv'
  BY <1>18, CrashFrame DEF Crash, Ages
<1>19. ASSUME NEW p \in Process, NEW s \in Server, StartExternal(p, s) PROVE TargetInv'
  BY <1>19 DEF StartExternal, Launch
<1>20. ASSUME NEW p \in Process, NEW s \in Server, StartInternal(p, s) PROVE TargetInv'
  BY <1>20 DEF StartInternal, Launch
<1>21. ASSUME NEW s \in Server, ServerStep(s) \/ Die(s) PROVE TargetInv'
  BY <1>21, ServerFrame DEF Ages
<1>22. CASE UNCHANGED vars
  BY <1>22 DEF vars
<1> HIDE DEF Types, Labels, Entries, TargetInv, Goto, Unlock, fileVars, procVars, serverVars,
             netVars, failVars, histVars
<1> QED
  BY PolicyAssumption, <1>1, <1>2, <1>3, <1>4, <1>5, <1>6, <1>7, <1>8, <1>9,
     <1>10, <1>11, <1>12, <1>13, <1>14, <1>15, <1>16, <1>17, <1>18, <1>19,
     <1>20, <1>21, <1>22
  DEF Next, ProcessStep, Process, Policy

(* No other process reads or writes the file between Truncate and          *)
(* WriteAddr, nor between Read and the probe: all of them hold the lock.   *)
LEMMA FileNext == Types /\ LockInv /\ TargetInv /\ FileInv /\ [Next]_vars => FileInv'
<1> USE DEF Types, Labels, Entries, LockInv, Critical, FileInv, Goto, Unlock, fileVars,
            procVars, serverVars, netVars, failVars, histVars
<1> SUFFICES ASSUME Types, LockInv, TargetInv, FileInv, [Next]_vars PROVE FileInv'
  OBVIOUS
<1>0. ASSUME NEW p \in Process, Fail(p) PROVE FileInv'
  BY <1>0 DEF Fail
<1>1. ASSUME NEW p \in Process, NEW pol \in Policy, Call(p, pol) PROVE FileInv'
  BY <1>1 DEF Call
<1>2. ASSUME NEW p \in Process, Open(p) PROVE FileInv'
  BY <1>2 DEF Open
<1>3. ASSUME NEW p \in Process, Read(p) PROVE FileInv'
  BY <1>3 DEF Read
<1>4. ASSUME NEW p \in Process, ConnectAdvertised(p) PROVE FileInv'
  BY <1>4 DEF ConnectAdvertised
<1>5. ASSUME NEW p \in Process, InvalidateCookie(p) PROVE FileInv'
  BY <1>5 DEF InvalidateCookie, Empty
<1>6. ASSUME NEW p \in Process, Probe(p) PROVE FileInv'
  BY <1>6 DEF Probe
<1>7. ASSUME NEW p \in Process, ProbeSend(p) PROVE FileInv'
  BY <1>7 DEF ProbeSend
<1>8. ASSUME NEW p \in Process, ForkFails(p) PROVE FileInv'
  <2>1. CASE Fail(p)
    BY <1>0, <1>8, <2>1 DEF ForkFails
  <2>2. CASE ~Fail(p)
    BY <1>8, <2>2 DEF ForkFails
  <2> QED BY <2>1, <2>2
<1>9. ASSUME NEW p \in Process, Greet(p) PROVE FileInv'
  <2>1. CASE Fail(p)
    BY <1>0, <1>9, <2>1 DEF Greet
  <2>2. CASE ~Fail(p)
    BY <1>9, <2>2 DEF Greet
  <2> QED BY <2>1, <2>2
<1>10. ASSUME NEW p \in Process, GreetSend(p) PROVE FileInv'
  <2>1. CASE Fail(p)
    BY <1>0, <1>10, <2>1 DEF GreetSend
  <2>2. CASE ~Fail(p)
    <3>1. PICK l \in {"done", "truncate", "unlock"} : pc' = [pc EXCEPT ![p] = l]
      BY <1>10, <2>2 DEF GreetSend
    <3>2. UNCHANGED <<file, target, state>>
      BY <1>10, <2>2 DEF GreetSend
    <3>3. \A q \in Process : pc'[q] \in {"probe", "probe_send", "write_cookie",
                                         "write_addr"} => pc[q] = pc'[q]
      BY <3>1
    <3> QED BY <3>2, <3>3
  <2> QED BY <2>1, <2>2
<1>11. ASSUME NEW p \in Process, Truncate(p) PROVE FileInv'
  BY <1>11 DEF Truncate, Empty
<1>12. ASSUME NEW p \in Process, WriteCookie(p) PROVE FileInv'
  <2>1. /\ pc[p] = "write_cookie" /\ pc' = [pc EXCEPT ![p] = "write_addr"]
        /\ file' = [file EXCEPT !.cookie = target[p].cookie]
        /\ UNCHANGED <<target, state>>
    BY <1>12 DEF WriteCookie
  <2>2. file = Empty /\ file' = [cookie |-> target[p].cookie, addr |-> None]
    <3>1. file = [cookie |-> None, addr |-> None]
      BY <2>1 DEF Empty
    <3> QED BY <2>1, <3>1 DEF Empty
  <2>3. \A q \in Process : pc'[q] \in {"probe", "probe_send", "write_cookie",
                                       "write_addr"} => q = p
    BY <2>1
  <2>4. file'.addr = None /\ pc'[p] = "write_addr" /\ target' = target
    BY <2>1, <2>2
  <2> QED BY <2>2, <2>3, <2>4
<1>13. ASSUME NEW p \in Process, WriteAddr(p) PROVE FileInv'
  BY <1>13 DEF WriteAddr, TargetInv
<1>14. ASSUME NEW p \in Process, DropFile(p) PROVE FileInv'
  BY <1>14 DEF DropFile
<1>15. ASSUME NEW p \in Process, ConnectStarted(p) PROVE FileInv'
  <2>1. CASE Fail(p)
    BY <1>0, <1>15, <2>1 DEF ConnectStarted
  <2>2. CASE ~Fail(p)
    BY <1>15, <2>2 DEF ConnectStarted
  <2> QED BY <2>1, <2>2
<1>16. ASSUME NEW p \in Process, SendCookie(p) PROVE FileInv'
  <2>1. CASE Fail(p)
    BY <1>0, <1>16, <2>1 DEF SendCookie
  <2>2. CASE ~Fail(p)
    BY <1>16, <2>2 DEF SendCookie
  <2> QED BY <2>1, <2>2
<1>17. ASSUME NEW p \in Process, Disconnect(p) PROVE FileInv'
  BY <1>17 DEF Disconnect
<1>18. ASSUME NEW p \in Process, Crash(p) PROVE FileInv'
  BY <1>18, CrashFrame DEF Crash, Ages
<1>19. ASSUME NEW p \in Process, NEW s \in Server, StartExternal(p, s) PROVE FileInv'
  BY <1>19 DEF StartExternal, Launch
<1>20. ASSUME NEW p \in Process, NEW s \in Server, StartInternal(p, s) PROVE FileInv'
  BY <1>20 DEF StartInternal, Launch
<1>21. ASSUME NEW s \in Server, ServerStep(s) \/ Die(s) PROVE FileInv'
  BY <1>21, ServerFrame DEF Ages
<1>22. CASE UNCHANGED vars
  BY <1>22 DEF vars
<1> HIDE DEF Types, Labels, Entries, LockInv, Critical, FileInv, Goto, Unlock, fileVars, procVars,
             serverVars, netVars, failVars, histVars
<1> QED
  BY PolicyAssumption, <1>1, <1>2, <1>3, <1>4, <1>5, <1>6, <1>7, <1>8, <1>9,
     <1>10, <1>11, <1>12, <1>13, <1>14, <1>15, <1>16, <1>17, <1>18, <1>19,
     <1>20, <1>21, <1>22
  DEF Next, ProcessStep, Process, Policy

-----------------------------------------------------------------------------
(* p has found no running server and has not yet written its own to the    *)
(* file.                                                                   *)
Starting(p) ==
  \/ pc[p] \in {"start", "fallback", "truncate", "write_cookie", "write_addr"}
  \/ p \in Clients /\ pc[p] \in {"greet", "greet_send"}

(* PublishedStays, with what makes it inductive: a process that is         *)
(* starting a server, and will overwrite the file, knows that every server *)
(* advertised so far is dead or has been forsaken. Dead servers stay dead, *)
(* so what it learned by its probe is not stale when it writes.            *)
PublishInv ==
  /\ \A s \in published : state[s] # "none"
  /\ PublishedStays
  /\ \A p \in Process : Starting(p) => \A s \in published \ forsaken : ~Alive(s)

(* Whoever clears or overwrites the file (InvalidateCookie, Truncate) has  *)
(* seen that the server it names is gone, or has failed to reach it.       *)
LEMMA PublishNext ==
  Types /\ LockInv /\ TargetInv /\ FileInv /\ PublishInv /\ [Next]_vars => PublishInv'
<1> USE DEF Types, Labels, Entries, LockInv, Critical, Starting, PublishInv,
            PublishedStays, Alive, Goto, Unlock, fileVars, procVars, serverVars,
            netVars, failVars, histVars
<1> SUFFICES ASSUME Types, LockInv, TargetInv, FileInv, PublishInv, [Next]_vars
             PROVE  PublishInv'
  OBVIOUS
<1>0. ASSUME NEW p \in Process, Fail(p) PROVE PublishInv'
  BY <1>0 DEF Fail
<1>1. ASSUME NEW p \in Process, NEW pol \in Policy, Call(p, pol) PROVE PublishInv'
  BY <1>1 DEF Call
<1>2. ASSUME NEW p \in Process, Open(p) PROVE PublishInv'
  BY <1>2 DEF Open
<1>3. ASSUME NEW p \in Process, Read(p) PROVE PublishInv'
  BY <1>3, ProcessAssumption DEF Read
<1>4. ASSUME NEW p \in Process, ConnectAdvertised(p) PROVE PublishInv'
  BY <1>4 DEF ConnectAdvertised
<1>5. ASSUME NEW p \in Process, InvalidateCookie(p) PROVE PublishInv'
  BY <1>5, ProcessAssumption DEF InvalidateCookie, Forsake, FileInv, Unreachable, Empty
<1>6. ASSUME NEW p \in Process, Probe(p) PROVE PublishInv'
  BY <1>6, ProcessAssumption DEF Probe, Forsake, FileInv, Unreachable
<1>7. ASSUME NEW p \in Process, ProbeSend(p) PROVE PublishInv'
  <2>1. CASE Forsake(p) /\ pc' = [pc EXCEPT ![p] = "start"]
    <3>1. UNCHANGED <<file, target, published, state>>
      BY <1>7 DEF ProbeSend
    <3>2. target[p] = file /\ pc[p] = "probe_send"
      BY <1>7 DEF ProbeSend, FileInv
    <3>3. \A s \in published \ forsaken' : ~Alive(s)
      BY <2>1, <3>2, ProcessAssumption DEF Forsake, Unreachable
    <3>4. forsaken \subseteq forsaken'
      BY <2>1 DEF Forsake
    <3> QED BY <2>1, <3>1, <3>3, <3>4
  <2>2. CASE pc' = [pc EXCEPT ![p] = "done"] /\ UNCHANGED forsaken
    <3>1. UNCHANGED <<file, target, published, state>>
      BY <1>7 DEF ProbeSend
    <3> QED BY <2>2, <3>1
  <2> QED BY <1>7, <2>1, <2>2 DEF ProbeSend
<1>8. ASSUME NEW p \in Process, ForkFails(p) PROVE PublishInv'
  <2>1. CASE Fail(p)
    BY <1>0, <1>8, <2>1 DEF ForkFails
  <2>2. CASE ~Fail(p)
    BY <1>8, <2>2 DEF ForkFails
  <2> QED BY <2>1, <2>2
<1>9. ASSUME NEW p \in Process, Greet(p) PROVE PublishInv'
  <2>1. CASE Fail(p)
    BY <1>0, <1>9, <2>1 DEF Greet
  <2>2. CASE ~Fail(p)
    BY <1>9, <2>2 DEF Greet
  <2> QED BY <2>1, <2>2
<1>10. ASSUME NEW p \in Process, GreetSend(p) PROVE PublishInv'
  <2>1. CASE Fail(p)
    BY <1>0, <1>10, <2>1 DEF GreetSend
  <2>2. CASE ~Fail(p)
    <3>1. UNCHANGED <<file, target, published, forsaken, state>> /\ pc[p] = "greet_send"
      BY <1>10, <2>2 DEF GreetSend
    <3>2. CASE p \in Bootstrappers
      <4>1. pc' = [pc EXCEPT ![p] = "done"]
        BY <1>10, <2>2, <3>2 DEF GreetSend
      <4> QED BY <3>1, <4>1
    <3>3. CASE p \in Clients
      <4>1. pc' = [pc EXCEPT ![p] = "truncate"] \/ pc' = [pc EXCEPT ![p] = "unlock"]
        BY <1>10, <2>2, <3>3, ProcessAssumption DEF GreetSend
      <4> QED BY <3>1, <3>3, <4>1
    <3> QED BY <3>2, <3>3 DEF Process
  <2> QED BY <2>1, <2>2
<1>11. ASSUME NEW p \in Process, Truncate(p) PROVE PublishInv'
  BY <1>11 DEF Truncate, Empty
<1>12. ASSUME NEW p \in Process, WriteCookie(p) PROVE PublishInv'
  BY <1>12 DEF WriteCookie
<1>13. ASSUME NEW p \in Process, WriteAddr(p) PROVE PublishInv'
  BY <1>13, ProcessAssumption DEF WriteAddr, FileInv, TargetInv
<1>14. ASSUME NEW p \in Process, DropFile(p) PROVE PublishInv'
  BY <1>14 DEF DropFile
<1>15. ASSUME NEW p \in Process, ConnectStarted(p) PROVE PublishInv'
  <2>1. CASE Fail(p)
    BY <1>0, <1>15, <2>1 DEF ConnectStarted
  <2>2. CASE ~Fail(p)
    BY <1>15, <2>2 DEF ConnectStarted
  <2> QED BY <2>1, <2>2
<1>16. ASSUME NEW p \in Process, SendCookie(p) PROVE PublishInv'
  <2>1. CASE Fail(p)
    BY <1>0, <1>16, <2>1 DEF SendCookie
  <2>2. CASE ~Fail(p)
    BY <1>16, <2>2 DEF SendCookie
  <2> QED BY <2>1, <2>2
<1>17. ASSUME NEW p \in Process, Disconnect(p) PROVE PublishInv'
  BY <1>17 DEF Disconnect
<1>18. ASSUME NEW p \in Process, Crash(p) PROVE PublishInv'
  BY <1>18, CrashFrame DEF Crash, Ages
<1>19. ASSUME NEW p \in Process, NEW s \in Server, StartExternal(p, s) PROVE PublishInv'
  BY <1>19 DEF StartExternal, Launch
<1>20. ASSUME NEW p \in Process, NEW s \in Server, StartInternal(p, s) PROVE PublishInv'
  BY <1>20 DEF StartInternal, Launch
<1>21. ASSUME NEW s \in Server, ServerStep(s) \/ Die(s) PROVE PublishInv'
  BY <1>21, ServerFrame DEF Ages
<1>22. CASE UNCHANGED vars
  BY <1>22 DEF vars
<1> HIDE DEF Types, Labels, Entries, LockInv, Critical, Starting, PublishInv,
             PublishedStays, Alive, Goto, Unlock, fileVars, procVars, serverVars,
             netVars, failVars, histVars
<1> QED
  BY PolicyAssumption, <1>1, <1>2, <1>3, <1>4, <1>5, <1>6, <1>7, <1>8, <1>9,
     <1>10, <1>11, <1>12, <1>13, <1>14, <1>15, <1>16, <1>17, <1>18, <1>19,
     <1>20, <1>21, <1>22
  DEF Next, ProcessStep, Process, Policy

(* An external server that runs without being advertised has a client for  *)
(* its starter, which is on its way to the file, has failed or has         *)
(* crashed.                                                                *)
OrphanInv ==
  \A s \in Server :
    kind[s] = "external" /\ Alive(s) /\ s \notin published =>
      /\ owner[s] \in Clients
      /\ \/ /\ pc[owner[s]] \in {"greet", "greet_send", "truncate",
                                 "write_cookie", "write_addr"}
            /\ target[owner[s]].addr = s
         \/ pc[owner[s]] \in {"err", "dead"}

(* StartExternal is followed by Greet, GreetSend and CookieFile::write,    *)
(* and only an error or a crash leads out of that sequence.                *)
LEMMA OrphanNext == Types /\ OrphanInv /\ [Next]_vars => OrphanInv'
<1> USE DEF Types, Labels, Entries, OrphanInv, Alive, Goto, Unlock, Process, fileVars,
            procVars, serverVars, netVars, failVars, histVars
<1> SUFFICES ASSUME Types, OrphanInv, [Next]_vars PROVE OrphanInv'
  OBVIOUS
<1>0. ASSUME NEW p \in Process, Fail(p) PROVE OrphanInv'
  BY <1>0 DEF Fail
<1>1. ASSUME NEW p \in Process, NEW pol \in Policy, Call(p, pol) PROVE OrphanInv'
  BY <1>1 DEF Call
<1>2. ASSUME NEW p \in Process, Open(p) PROVE OrphanInv'
  BY <1>2 DEF Open
<1>3. ASSUME NEW p \in Process, Read(p) PROVE OrphanInv'
  BY <1>3 DEF Read
<1>4. ASSUME NEW p \in Process, ConnectAdvertised(p) PROVE OrphanInv'
  BY <1>4 DEF ConnectAdvertised
<1>5. ASSUME NEW p \in Process, InvalidateCookie(p) PROVE OrphanInv'
  BY <1>5 DEF InvalidateCookie
<1>6. ASSUME NEW p \in Process, Probe(p) PROVE OrphanInv'
  BY <1>6 DEF Probe
<1>7. ASSUME NEW p \in Process, ProbeSend(p) PROVE OrphanInv'
  BY <1>7 DEF ProbeSend
<1>8. ASSUME NEW p \in Process, ForkFails(p) PROVE OrphanInv'
  <2>1. CASE Fail(p)
    BY <1>0, <1>8, <2>1 DEF ForkFails
  <2>2. CASE ~Fail(p)
    <3>1. /\ UNCHANGED <<kind, owner, state, published, target>>
          /\ pc[p] = "start" /\ pc' = [pc EXCEPT ![p] = "fallback"]
      BY <1>8, <2>2 DEF ForkFails
    <3> QED BY <3>1
  <2> QED BY <2>1, <2>2
<1>9. ASSUME NEW p \in Process, Greet(p) PROVE OrphanInv'
  <2>1. CASE Fail(p)
    BY <1>0, <1>9, <2>1 DEF Greet
  <2>2. CASE ~Fail(p)
    <3>1. /\ UNCHANGED <<kind, owner, state, published, target>>
          /\ pc[p] = "greet" /\ pc' = [pc EXCEPT ![p] = "greet_send"]
      BY <1>9, <2>2 DEF Greet
    <3> QED BY <3>1
  <2> QED BY <2>1, <2>2
<1>10. ASSUME NEW p \in Process, GreetSend(p) PROVE OrphanInv'
  <2>1. CASE Fail(p)
    BY <1>0, <1>10, <2>1 DEF GreetSend
  <2>2. CASE ~Fail(p)
    BY <1>10, <2>2, ProcessAssumption DEF GreetSend
  <2> QED BY <2>1, <2>2
<1>11. ASSUME NEW p \in Process, Truncate(p) PROVE OrphanInv'
  BY <1>11 DEF Truncate
<1>12. ASSUME NEW p \in Process, WriteCookie(p) PROVE OrphanInv'
  BY <1>12 DEF WriteCookie
<1>13. ASSUME NEW p \in Process, WriteAddr(p) PROVE OrphanInv'
  BY <1>13 DEF WriteAddr
<1>14. ASSUME NEW p \in Process, DropFile(p) PROVE OrphanInv'
  BY <1>14 DEF DropFile
<1>15. ASSUME NEW p \in Process, ConnectStarted(p) PROVE OrphanInv'
  <2>1. CASE Fail(p)
    BY <1>0, <1>15, <2>1 DEF ConnectStarted
  <2>2. CASE ~Fail(p)
    <3>1. /\ UNCHANGED <<kind, owner, state, published, target>>
          /\ pc[p] = "connect" /\ pc' = [pc EXCEPT ![p] = "send"]
      BY <1>15, <2>2 DEF ConnectStarted
    <3> QED BY <3>1
  <2> QED BY <2>1, <2>2
<1>16. ASSUME NEW p \in Process, SendCookie(p) PROVE OrphanInv'
  <2>1. CASE Fail(p)
    BY <1>0, <1>16, <2>1 DEF SendCookie
  <2>2. CASE ~Fail(p)
    <3>1. /\ UNCHANGED <<kind, owner, state, published, target>>
          /\ pc[p] = "send" /\ pc' = [pc EXCEPT ![p] = "ok"]
      BY <1>16, <2>2 DEF SendCookie
    <3> QED BY <3>1
  <2> QED BY <2>1, <2>2
<1>17. ASSUME NEW p \in Process, Disconnect(p) PROVE OrphanInv'
  BY <1>17 DEF Disconnect
<1>18. ASSUME NEW p \in Process, Crash(p) PROVE OrphanInv'
  BY <1>18, CrashFrame DEF Crash, Ages
<1>19. ASSUME NEW p \in Process, NEW s \in Server, StartExternal(p, s) PROVE OrphanInv'
  BY <1>19 DEF StartExternal, Launch
<1>20. ASSUME NEW p \in Process, NEW s \in Server, StartInternal(p, s) PROVE OrphanInv'
  BY <1>20 DEF StartInternal, Launch
<1>21. ASSUME NEW s \in Server, ServerStep(s) \/ Die(s) PROVE OrphanInv'
  BY <1>21, ServerFrame DEF Ages
<1>22. CASE UNCHANGED vars
  BY <1>22 DEF vars
<1> HIDE DEF Types, Labels, Entries, OrphanInv, Alive, Goto, Unlock, Process, fileVars,
             procVars, serverVars, netVars, failVars, histVars
<1> QED
  BY PolicyAssumption, <1>1, <1>2, <1>3, <1>4, <1>5, <1>6, <1>7, <1>8, <1>9,
     <1>10, <1>11, <1>12, <1>13, <1>14, <1>15, <1>16, <1>17, <1>18, <1>19,
     <1>20, <1>21, <1>22
  DEF Next, ProcessStep, Process, Policy
-----------------------------------------------------------------------------
(* The connections a server has in its backlog or reads from. *)
Kinds == {"probe", "greet", "main"}
Conns(s) == {queue[s][i] : i \in 1 .. Len(queue[s])} \cup ({cur[s]} \ {None})

(* The calls that have returned, or whose process has died. *)
Over == {"ok", "done", "err", "dead"}

(* p may have opened its connection k. A client never probes: it goes on   *)
(* with the connection it made, and may come back to reading the file.     *)
Opened(p, k) ==
  \/ k = "probe" /\ pc[p] \notin {"idle", "open", "read", "probe"}
  \/ k = "greet" /\ pc[p] \in Over \cup {"greet_send"}
  \/ k = "greet" /\ p \in Clients
       /\ pc[p] \in {"truncate", "write_cookie", "write_addr", "unlock",
                     "connect", "send"}
  \/ k = "main" /\ pc[p] \in Over \cup {"send"}

(* p has opened its connection k and sends its cookie next. *)
Sending(p, k) ==
  \/ k = "probe" /\ pc[p] = "probe_send"
  \/ k = "greet" /\ pc[p] = "greet_send"
  \/ k = "main" /\ pc[p] = "send"

(* A cookie is only sent on a connection that was opened, and only a       *)
(* bootstrapper probes.                                                    *)
SentInv ==
  \A p \in Process, k \in Kinds :
    sent[<<p, k>>] # None => Opened(p, k) /\ (k = "probe" => p \in Bootstrappers)

(* A connection waits at the server whose cookie its process brings:       *)
(* nothing has been sent on it, or the cookie of that server has, and the  *)
(* cookie that is about to be sent is that one too.                        *)
ConnsInv ==
  \A p \in Process, k \in Kinds, s \in Server : <<p, k>> \in Conns(s) =>
    /\ Opened(p, k)
    /\ k = "probe" => p \in Bootstrappers
    /\ sent[<<p, k>>] \in {None, s}
    /\ Sending(p, k) => target[p].cookie = s

(* The invariant behind NobodyRejected. The cookie of a server in its loop *)
(* came with some connection; by ConnsInv it is the one that was drawn for *)
(* the server.                                                             *)
ConnInv ==
  /\ \A p \in Process : pc[p] = "probe_send" => p \in Bootstrappers
  /\ SentInv
  /\ ConnsInv
  /\ \A s \in Server : state[s] = "loop" => scookie[s] = s

(* What a process has opened depends on its own state only. *)
LEMMA OpenedFrame ==
  ASSUME NEW q \in Process, pc'[q] = pc[q]
  PROVE  \A k \in Kinds : /\ Opened(q, k)' <=> Opened(q, k)
                          /\ Sending(q, k)' <=> Sending(q, k)
BY DEF Opened, Sending

(* A step that sends nothing, opens nothing and only takes connections     *)
(* away from servers keeps ConnInv.                                        *)
LEMMA ConnKept ==
  ASSUME Types, ConnInv,
         \A q \in Process, k \in Kinds :
           /\ Opened(q, k) /\ (k = "probe" => q \in Bootstrappers) => Opened(q, k)'
           /\ Sending(q, k)' => Sending(q, k) /\ UNCHANGED target[q],
         UNCHANGED sent,
         \A s \in Server : /\ Conns(s)' \subseteq Conns(s)
                           /\ state'[s] = "loop" => scookie'[s] = s
  PROVE  ConnInv'
<1>1. SentInv'
  BY DEF ConnInv, SentInv
<1>2. ConnsInv'
  BY DEF ConnInv, ConnsInv
<1>3. \A q \in Process : pc'[q] = "probe_send" => q \in Bootstrappers
  BY DEF ConnInv, Sending, Kinds
<1> QED BY <1>1, <1>2, <1>3 DEF ConnInv

(* The same, for a step of process p that leaves the connections alone. *)
LEMMA QuietStep ==
  ASSUME Types, ConnInv, NEW p \in Process,
         \A q \in Process : q # p => pc'[q] = pc[q] /\ target'[q] = target[q],
         \A k \in Kinds : Opened(p, k) /\ (k = "probe" => p \in Bootstrappers)
                            => Opened(p, k)',
         \A k \in Kinds : ~Sending(p, k)',
         UNCHANGED <<sent, queue, cur, scookie>>,
         \A s \in Server : state'[s] = "loop" => state[s] = "loop"
  PROVE  ConnInv'
<1>1. \A q \in Process, k \in Kinds :
        /\ Opened(q, k) /\ (k = "probe" => q \in Bootstrappers) => Opened(q, k)'
        /\ Sending(q, k)' => Sending(q, k) /\ UNCHANGED target[q]
  BY OpenedFrame
<1>2. \A s \in Server : /\ Conns(s)' \subseteq Conns(s)
                        /\ state'[s] = "loop" => scookie'[s] = s
  BY DEF Conns, ConnInv
<1> QED BY <1>1, <1>2, ConnKept

(* Cookie::send: what p sends on connection k is the cookie of the server  *)
(* at the other end.                                                       *)
LEMMA SendStep ==
  ASSUME Types, TargetInv, ConnInv, NEW p \in Process, NEW k \in Kinds,
         Sending(p, k), Opened(p, k)', pc'[p] # "probe_send",
         \A q \in Process : q # p => pc'[q] = pc[q],
         \A j \in Kinds : Opened(p, j) => Opened(p, j)',
         \A j \in Kinds : ~Sending(p, j)',
         sent' = [sent EXCEPT ![<<p, k>>] = target[p].cookie],
         UNCHANGED <<target, queue, cur, state, scookie>>
  PROVE  ConnInv'
<1>1. \A q \in Process, j \in Kinds :
        /\ Opened(q, j) => Opened(q, j)'
        /\ Sending(q, j)' => Sending(q, j)
  BY OpenedFrame
<1>2. \A s \in Server : Conns(s)' = Conns(s)
  BY DEF Conns
<1>3. k = "probe" => p \in Bootstrappers
  BY DEF ConnInv, Sending
<1>4. \A q \in Process, j \in Kinds : <<q, j>> \in Connection
  BY Connections DEF Kinds
<1>5. \A q \in Process, j \in Kinds :
        sent'[<<q, j>>] = IF q = p /\ j = k THEN target[p].cookie ELSE sent[<<q, j>>]
  BY <1>4 DEF Types
<1>6. SentInv'
  BY <1>1, <1>3, <1>5 DEF ConnInv, SentInv
<1>7. ConnsInv'
  BY <1>1, <1>2, <1>3, <1>5 DEF ConnInv, ConnsInv
<1>8. \A q \in Process : pc'[q] = "probe_send" => q \in Bootstrappers
  BY DEF ConnInv
<1> QED BY <1>6, <1>7, <1>8 DEF ConnInv

(* TcpStream::connect adds the new connection to the backlog of the        *)
(* target, and nothing else.                                               *)
LEMMA EnqueuedConns ==
  ASSUME Types, NEW p \in Process, NEW k \in Kinds, ~Unreachable(p), Enqueue(p, k),
         UNCHANGED cur
  PROVE  \A s \in Server :
           Conns(s)' \subseteq Conns(s) \cup (IF s = target[p].addr THEN {<<p, k>>} ELSE {})
<1> DEFINE t == target[p].addr
           c == <<p, k>>
<1>1. t \in Server /\ c \in Connection
  BY Reachable, Connections DEF Kinds
<1>2. queue' = [queue EXCEPT ![t] = Append(queue[t], c)]
  BY DEF Enqueue
<1> SUFFICES ASSUME NEW s \in Server
             PROVE  Conns(s)' \subseteq Conns(s) \cup (IF s = t THEN {c} ELSE {})
  OBVIOUS
<1> HIDE DEF t, c
<1>3. CASE s # t
  BY <1>1, <1>2, <1>3 DEF Conns, Types
<1>4. CASE s = t
  <2> DEFINE old == queue[t]
             new == queue'[t]
  <2>1. old \in Seq(Connection) /\ new = Append(old, c)
    BY <1>1, <1>2 DEF Types
  <2> HIDE DEF old, new
  <2>2. /\ Len(old) \in Nat /\ Len(new) = Len(old) + 1
        /\ \A i \in 1 .. Len(old) : new[i] = old[i]
        /\ new[Len(old) + 1] = c
    BY <2>1, <1>1, AppendProperties
  <2>3. \A i \in 1 .. Len(new) : new[i] = c \/ \E j \in 1 .. Len(old) : new[i] = old[j]
    BY <2>2
  <2> QED BY <1>4, <2>3 DEF Conns, old, new
<1> QED BY <1>3, <1>4

(* TcpStream::connect: the new connection is the first of its kind for p,  *)
(* nothing has been sent on it, and p's cookie is the target's.            *)
LEMMA OpenStep ==
  ASSUME Types, ConnInv, NEW p \in Process, NEW k \in Kinds,
         ~Unreachable(p), Enqueue(p, k),
         k = "probe" => p \in Bootstrappers,
         target[p].cookie = target[p].addr,
         ~Opened(p, k), Opened(p, k)',
         pc'[p] = "probe_send" => k = "probe",
         \A q \in Process : q # p => pc'[q] = pc[q],
         \A j \in Kinds : Opened(p, j) /\ (j = "probe" => p \in Bootstrappers)
                            => Opened(p, j)',
         \A j \in Kinds : Sending(p, j)' <=> j = k,
         UNCHANGED <<sent, target, cur, state, scookie>>
  PROVE  ConnInv'
<1>1. \A q \in Process, j \in Kinds :
        /\ Opened(q, j) /\ (j = "probe" => q \in Bootstrappers) => Opened(q, j)'
        /\ Sending(q, j)' => Sending(q, j) \/ (q = p /\ j = k)
  BY OpenedFrame
<1>2. \A s \in Server, q \in Process, j \in Kinds : <<q, j>> \in Conns(s)' =>
        <<q, j>> \in Conns(s) \/ (q = p /\ j = k /\ s = target[p].addr)
  BY EnqueuedConns
<1>3. sent[<<p, k>>] = None /\ \A s \in Server : <<p, k>> \notin Conns(s)
  BY DEF ConnInv, SentInv, ConnsInv
<1>4. SentInv'
  BY <1>1 DEF ConnInv, SentInv
<1>5. ConnsInv'
  BY <1>1, <1>2, <1>3 DEF ConnInv, ConnsInv
<1>6. \A q \in Process : pc'[q] = "probe_send" => q \in Bootstrappers
  BY DEF ConnInv
<1> QED BY <1>4, <1>5, <1>6 DEF ConnInv
(* serve_listener: accepting moves a connection from the backlog, closing  *)
(* removes it, and the first cookie received is the server's.              *)
LEMMA ServerConn ==
  ASSUME Types, ConnInv, NEW s \in Server, ServerStep(s) \/ Die(s)
  PROVE  ConnInv'
<1>1. UNCHANGED <<pc, target, sent>>
  BY DEF ServerStep, Accept, ReceiveFirst, ReceiveFirstFails, Receive, NextConnection,
         Die, procVars, netVars
<1>2. \A q \in Process, k \in Kinds :
        /\ Opened(q, k) /\ (k = "probe" => q \in Bootstrappers) => Opened(q, k)'
        /\ Sending(q, k)' => Sending(q, k) /\ UNCHANGED target[q]
  BY <1>1, OpenedFrame
<1>3. ASSUME NEW t \in Server PROVE Conns(t)' \subseteq Conns(t)
  <2>1. CASE Accept(s)
    <3>1. CASE t # s
      BY <2>1, <3>1 DEF Accept, Conns, Types
    <3>2. CASE t = s
      <4> DEFINE old == queue[s]
      <4>1. /\ old \in Seq(Connection) /\ old # << >>
            /\ queue'[s] = Tail(old) /\ cur'[s] = Head(old)
        BY <2>1 DEF Accept, Types
      <4> HIDE DEF old
      <4>2. /\ Len(old) \in Nat /\ Len(old) > 0 /\ Head(old) = old[1]
            /\ Len(Tail(old)) = Len(old) - 1
            /\ \A i \in 1 .. Len(Tail(old)) : Tail(old)[i] = old[i + 1]
        BY <4>1, HeadTailProperties, EmptySeq, LenProperties
      <4>3. \A i \in 1 .. Len(Tail(old)) : \E j \in 1 .. Len(old) : Tail(old)[i] = old[j]
        BY <4>2
      <4> QED BY <3>2, <4>1, <4>2, <4>3 DEF Conns, old
    <3> QED BY <3>1, <3>2
  <2>2. CASE Exit(s)
    <3>1. t = s => queue'[t] = << >> /\ cur'[t] = None
      BY <2>2 DEF Exit, Types
    <3>2. t # s => queue'[t] = queue[t] /\ cur'[t] = cur[t]
      BY <2>2 DEF Exit, Types
    <3> QED BY <3>1, <3>2 DEF Conns
  <2>3. CASE UNCHANGED queue /\ cur'[t] \in {cur[t], None}
    BY <2>3 DEF Conns
  <2>4. ReceiveFirst(s) \/ Receive(s) \/ NextConnection(s) =>
          UNCHANGED queue /\ cur'[t] \in {cur[t], None}
    BY DEF ReceiveFirst, Receive, NextConnection, Types, netVars
  <2> QED BY <2>1, <2>2, <2>3, <2>4 DEF ServerStep, ReceiveFirstFails, Die
<1>4. ASSUME NEW t \in Server, state'[t] = "loop" PROVE scookie'[t] = t
  <2>1. CASE ReceiveFirst(s)
    <3>1. t # s => state[t] = "loop" /\ scookie'[t] = scookie[t]
      BY <2>1, <1>4 DEF ReceiveFirst, Types
    <3>2. t = s => scookie'[t] = sent[cur[s]] /\ sent[cur[s]] # None
                     /\ cur[s] \in Connection
      BY <2>1 DEF ReceiveFirst, Types
    <3>3. t = s => sent[cur[s]] \in {None, s}
      <4> SUFFICES ASSUME t = s PROVE sent[cur[s]] \in {None, s}
        OBVIOUS
      <4>1. PICK q \in Process, k \in Kinds : cur[s] = <<q, k>>
        BY <3>2 DEF Connection, Kinds
      <4>2. <<q, k>> \in Conns(s)
        BY <4>1, <2>1 DEF ReceiveFirst, Conns
      <4> QED BY <4>1, <4>2 DEF ConnInv, ConnsInv
    <3> QED BY <3>1, <3>2, <3>3 DEF ConnInv
  <2>2. CASE ~ReceiveFirst(s)
    <3>1. scookie'[t] = scookie[t] /\ state[t] = "loop"
      BY <2>2, <1>4 DEF ServerStep, Accept, ReceiveFirstFails, Receive,
         NextConnection, Die, Exit, Types
    <3> QED BY <3>1 DEF ConnInv
  <2> QED BY <2>1, <2>2
<1> QED BY <1>1, <1>2, <1>3, <1>4, ConnKept

(* The crash of a process takes its threads' connections away. *)
LEMMA CrashConn ==
  ASSUME Types, ConnInv, NEW p \in Process, Crash(p)
  PROVE  ConnInv'
<1>1. /\ pc' = [pc EXCEPT ![p] = "dead"] /\ UNCHANGED <<target, sent, scookie>>
      /\ \A s \in Server : /\ state'[s] = "loop" => state[s] = "loop"
                           /\ \/ queue'[s] = queue[s] /\ cur'[s] = cur[s]
                              \/ queue'[s] = << >> /\ cur'[s] = None
  BY DEF Crash, Goto
<1>2. \A q \in Process, k \in Kinds :
        /\ Opened(q, k) /\ (k = "probe" => q \in Bootstrappers) => Opened(q, k)'
        /\ Sending(q, k)' => Sending(q, k) /\ UNCHANGED target[q]
  <2> SUFFICES ASSUME NEW q \in Process, NEW k \in Kinds
               PROVE  /\ Opened(q, k) => Opened(q, k)'
                      /\ Sending(q, k)' => Sending(q, k)
    BY <1>1
  <2>1. CASE q # p
    BY <1>1, <2>1, OpenedFrame DEF Types
  <2>2. CASE q = p
    BY <1>1, <2>2 DEF Opened, Sending, Over, Kinds, Types
  <2> QED BY <2>1, <2>2
<1>3. ASSUME NEW s \in Server PROVE Conns(s)' \subseteq Conns(s)
  <2>0. \/ queue'[s] = queue[s] /\ cur'[s] = cur[s]
        \/ queue'[s] = << >> /\ cur'[s] = None
    BY <1>1
  <2>1. CASE queue'[s] = queue[s] /\ cur'[s] = cur[s]
    BY <2>1 DEF Conns
  <2>2. CASE queue'[s] = << >> /\ cur'[s] = None
    BY <2>2 DEF Conns
  <2> QED BY <2>0, <2>1, <2>2
<1>4. \A s \in Server : state'[s] = "loop" => scookie'[s] = s
  BY <1>1 DEF ConnInv
<1> QED BY <1>1, <1>2, <1>3, <1>4, ConnKept

(* Every step keeps ConnInv. *)
LEMMA ConnNext ==
  Types /\ TargetInv /\ FileInv /\ ConnInv /\ [Next]_vars => ConnInv'
<1> USE DEF Types, Labels, Goto, fileVars, procVars, serverVars, netVars, Opened, Sending,
            Over, Kinds
<1> SUFFICES ASSUME Types, TargetInv, FileInv, ConnInv, [Next]_vars PROVE ConnInv'
  OBVIOUS
<1>0. ASSUME NEW p \in Process, Fail(p), UNCHANGED sent PROVE ConnInv'
  BY <1>0, QuietStep DEF Fail
<1>1. ASSUME NEW p \in Process, NEW pol \in Policy, Call(p, pol) PROVE ConnInv'
  BY <1>1, QuietStep DEF Call
<1>2. ASSUME NEW p \in Process, Open(p) PROVE ConnInv'
  BY <1>2, QuietStep DEF Open
<1>3. ASSUME NEW p \in Process, Read(p) PROVE ConnInv'
  BY <1>3, QuietStep DEF Read
<1>4. ASSUME NEW p \in Process, ConnectAdvertised(p) PROVE ConnInv'
  <2>1. target[p].cookie = target[p].addr
    BY <1>4, Reachable DEF ConnectAdvertised, FileInv
  <2> QED BY <1>4, <2>1, OpenStep, ProcessAssumption DEF ConnectAdvertised
<1>5. ASSUME NEW p \in Process, InvalidateCookie(p) PROVE ConnInv'
  BY <1>5, QuietStep, ProcessAssumption DEF InvalidateCookie
<1>6. ASSUME NEW p \in Process, Probe(p) PROVE ConnInv'
  <2>1. CASE Goto(p, "start") /\ UNCHANGED queue
    BY <1>6, <2>1, QuietStep DEF Probe
  <2>2. CASE ~Unreachable(p) /\ Enqueue(p, "probe") /\ Goto(p, "probe_send")
    <3>1. target[p].cookie = target[p].addr
      BY <1>6, <2>2, Reachable DEF Probe, FileInv
    <3> QED BY <1>6, <2>2, <3>1, OpenStep DEF Probe
  <2> QED BY <1>6, <2>1, <2>2 DEF Probe
<1>7. ASSUME NEW p \in Process, ProbeSend(p) PROVE ConnInv'
  <2>1. CASE UNCHANGED sent
    BY <1>7, <2>1, QuietStep DEF ProbeSend
  <2>2. CASE sent' # sent
    BY <1>7, <2>2, SendStep DEF ProbeSend
  <2> QED BY <2>1, <2>2
<1>8. ASSUME NEW p \in Process, ForkFails(p) PROVE ConnInv'
  <2>1. CASE Fail(p)
    BY <1>0, <1>8, <2>1 DEF ForkFails
  <2>2. CASE ~Fail(p)
    BY <1>8, <2>2, QuietStep DEF ForkFails
  <2> QED BY <2>1, <2>2
<1>9. ASSUME NEW p \in Process, Greet(p) PROVE ConnInv'
  <2>1. CASE Fail(p)
    BY <1>0, <1>9, <2>1 DEF Greet
  <2>2. CASE ~Fail(p)
    BY <1>9, <2>2, OpenStep DEF Greet, TargetInv
  <2> QED BY <2>1, <2>2
<1>10. ASSUME NEW p \in Process, GreetSend(p) PROVE ConnInv'
  <2>1. CASE Fail(p) /\ UNCHANGED sent
    BY <1>0, <2>1
  <2>2. CASE ~(Fail(p) /\ UNCHANGED sent)
    BY <1>10, <2>2, SendStep DEF GreetSend, Process
  <2> QED BY <2>1, <2>2
<1>11. ASSUME NEW p \in Process, Truncate(p) PROVE ConnInv'
  BY <1>11, QuietStep DEF Truncate
<1>12. ASSUME NEW p \in Process, WriteCookie(p) PROVE ConnInv'
  BY <1>12, QuietStep DEF WriteCookie
<1>13. ASSUME NEW p \in Process, WriteAddr(p) PROVE ConnInv'
  BY <1>13, QuietStep DEF WriteAddr
<1>14. ASSUME NEW p \in Process, DropFile(p) PROVE ConnInv'
  BY <1>14, QuietStep DEF DropFile, Process
<1>15. ASSUME NEW p \in Process, ConnectStarted(p) PROVE ConnInv'
  <2>1. CASE Fail(p)
    BY <1>0, <1>15, <2>1 DEF ConnectStarted
  <2>2. CASE ~Fail(p)
    BY <1>15, <2>2, OpenStep DEF ConnectStarted, TargetInv
  <2> QED BY <2>1, <2>2
<1>16. ASSUME NEW p \in Process, SendCookie(p) PROVE ConnInv'
  <2>1. CASE Fail(p) /\ UNCHANGED sent
    BY <1>0, <2>1
  <2>2. CASE Fail(p) /\ sent' = [sent EXCEPT ![<<p, "main">>] = target[p].cookie]
    BY <1>16, <2>2, SendStep DEF SendCookie, Fail
  <2>3. CASE ~Fail(p)
    BY <1>16, <2>3, SendStep DEF SendCookie
  <2> QED BY <1>16, <2>1, <2>2, <2>3 DEF SendCookie
<1>17. ASSUME NEW p \in Process, Disconnect(p) PROVE ConnInv'
  BY <1>17, QuietStep DEF Disconnect
<1>18. ASSUME NEW p \in Process, Crash(p) PROVE ConnInv'
  BY <1>18, CrashConn
<1>19. ASSUME NEW p \in Process, NEW s \in Server, StartExternal(p, s) PROVE ConnInv'
  BY <1>19, QuietStep DEF StartExternal, Launch
<1>20. ASSUME NEW p \in Process, NEW s \in Server, StartInternal(p, s) PROVE ConnInv'
  BY <1>20, QuietStep DEF StartInternal, Launch
<1>21. ASSUME NEW s \in Server, ServerStep(s) \/ Die(s) PROVE ConnInv'
  BY <1>21, ServerConn
<1>22. CASE UNCHANGED vars
  <2>1. UNCHANGED <<pc, target, sent, queue, cur, state, scookie>>
    BY <1>22 DEF vars
  <2>2. \A s \in Server : Conns(s)' = Conns(s)
    BY <2>1 DEF Conns
  <2> QED BY <2>1, <2>2 DEF ConnInv, SentInv, ConnsInv
<1> HIDE DEF Types, Labels, Goto, fileVars, procVars, serverVars, netVars, Opened, Sending,
            Over, Kinds
<1> QED
  BY PolicyAssumption, <1>1, <1>2, <1>3, <1>4, <1>5, <1>6, <1>7, <1>8, <1>9,
     <1>10, <1>11, <1>12, <1>13, <1>14, <1>15, <1>16, <1>17, <1>18, <1>19,
     <1>20, <1>21, <1>22
  DEF Next, ProcessStep, Process, Policy

-----------------------------------------------------------------------------
(* The inductive invariant. *)
IInv == /\ Types /\ LockInv /\ TargetInv /\ FileInv
        /\ PublishInv /\ OrphanInv /\ ConnInv

(* It holds before anything was started, when the cookie file does not     *)
(* exist.                                                                  *)
LEMMA IInvInit == Init => IInv
<1> SUFFICES ASSUME Init PROVE IInv
  OBVIOUS
<1>1. Types
  <2>1. << >> \in Seq(Connection)
    BY EmptySeq
  <2>2. queue \in [Server -> Seq(Connection)]
    BY <2>1 DEF Init
  <2> QED BY <2>2, MaxDeathsAssumption DEF Init, Types, Labels, Entries, Empty, Policy
<1>2. LockInv /\ TargetInv
  BY DEF Init, LockInv, Critical, TargetInv
<1>3. FileInv /\ PublishInv
  BY DEF Init, FileInv, Empty, PublishInv, PublishedStays, Starting
<1>4. OrphanInv
  BY DEF Init, OrphanInv, Alive
<1>5. ConnInv
  <2>1. \A p \in Process, k \in Kinds : sent[<<p, k>>] = None
    BY Connections DEF Init, Kinds
  <2>2. \A s \in Server : Conns(s) = {}
    BY DEF Init, Conns
  <2> QED BY <2>1, <2>2 DEF Init, ConnInv, SentInv, ConnsInv
<1> QED BY <1>1, <1>2, <1>3, <1>4, <1>5 DEF IInv

(* Every step of every process and server keeps it. *)
LEMMA IInvNext == IInv /\ [Next]_vars => IInv'
BY TypesNext, LockNext, TargetNext, FileNext, PublishNext, OrphanNext, ConnNext DEF IInv

(* So it holds always. *)
LEMMA IInvInvariant == Spec => []IInv
BY IInvInit, IInvNext, PTL DEF Spec

(* The state of Descriptor, CookieFile and Server has its types, and       *)
(* nobody works with the open cookie file without its lock, for any number *)
(* of clients, bootstrappers and servers, any policies and any crashes.    *)
THEOREM TypeCorrect == Spec => []TypeOK
<1>1. IInv => TypeOK
  BY TypeParts DEF IInv
<1> QED BY <1>1, IInvInvariant, PTL

(* connect_with_policy and bootstrap never clear or overwrite the entry of *)
(* a live server in the cookie file, unless some process has found it      *)
(* there and failed to reach it: the decision to replace an entry, taken   *)
(* after a failed connection, is not stale when the file is written.       *)
THEOREM AdvertisedStays == Spec => []PublishedStays
<1>1. IInv => PublishedStays
  BY DEF IInv, PublishInv
<1> QED BY <1>1, IInvInvariant, PTL

(* A server process that fork() started and that no one can find through   *)
(* the cookie file is in the hands of the holder of the lock, or its       *)
(* starter failed or crashed between start() and CookieFile::write.        *)
THEOREM NoOrphans == Spec => []OrphansOnlyByFailure
<1>1. IInv => OrphansOnlyByFailure
  <2> SUFFICES ASSUME IInv PROVE OrphansOnlyByFailure
    OBVIOUS
  <2>1. TypeOK
    BY TypeParts DEF IInv
  <2>2. ASSUME NEW s \in Server,
               kind[s] = "external", Alive(s), s \notin published
        PROVE  \/ lock = owner[s] /\ target[owner[s]].addr = s /\ Critical(owner[s])
               \/ pc[owner[s]] \in {"err", "dead"}
    BY <2>2 DEF IInv, OrphanInv, LockInv, Critical, Process
  <2> QED BY <2>1, <2>2 DEF OrphansOnlyByFailure
<1> QED BY <1>1, IInvInvariant, PTL

(* serve_listener never turns a connection away for its cookie: whichever  *)
(* connection came first and delivered the cookie, all the others bring    *)
(* the same one.                                                           *)
THEOREM CookiesAgree == Spec => []NobodyRejected
<1>1. IInv => NobodyRejected
  <2> SUFFICES ASSUME IInv, NEW s \in Server, state[s] = "loop", cur[s] # None
               PROVE  sent[cur[s]] \in {None, scookie[s]}
    BY DEF NobodyRejected
  <2>1. cur[s] \in Connection
    BY DEF IInv, Types
  <2>2. PICK p \in Process, k \in Kinds : cur[s] = <<p, k>>
    BY <2>1 DEF Connection, Kinds
  <2>3. <<p, k>> \in Conns(s)
    BY <2>2 DEF Conns
  <2> QED BY <2>2, <2>3 DEF IInv, ConnInv, ConnsInv
<1> QED BY <1>1, IInvInvariant, PTL
=============================================================================
