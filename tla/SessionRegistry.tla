--------------------------- MODULE SessionRegistry ---------------------------
(***************************************************************************)
(* The internal TCP star: TcpDispatchServer's registry of sessions, its     *)
(* heartbeat patrol and its connection handlers, with the two clients that  *)
(* talk to it: ModuleTcpClient of the algorithm layer (Python), and the     *)
(* motion service (C++), whose heartbeat thread gives an unregistered       *)
(* connection up.                                                           *)
(*                                                                          *)
(* Connections fail in every way TCP has: closed with a FIN that arrives    *)
(* late, reset at the server, or cut without a word.  Payload, framing and  *)
(* business messages are left out.                                          *)
(***************************************************************************)
EXTENDS Integers, Sequences

CONSTANTS Modules,    \* the module ids with a client process
          Patient,    \* those whose client is a ModuleTcpClient
          Conns,      \* identities of TCP connections (reused when free)
          NoConn, NoModule,
          MaxFaults,  \* bound on the failures of a behaviour
          MaxQueue    \* bound on the frames a client has on the wire

ASSUME RegistryAssumption == /\ Patient \subseteq Modules
                             /\ NoModule \notin Modules /\ "heartbeat" \notin Modules
                             /\ NoConn \notin Conns
                             /\ MaxFaults \in Nat /\ MaxQueue \in Nat \ {0}

VARIABLES
  sessions,   \* server._sessions: the session of every module, or NoConn
  ident,      \* session.module_id of every connection
  server,     \* its server end: "none", "open", "closing" (is_closing())
  stale,      \* sessions with no heartbeat since the last patrol round
  calls,      \* ghost: sessions registered minus on_disconnect calls
  conn,       \* the connection each client has open, or NoConn
  acked,      \* clients that have read register_ack on it
  path,       \* the network: "up", "cut" (silence), "shut" (FIN sent)
  c2s, s2c,   \* frames on the wire or in a read buffer
  faults

registry == <<sessions, ident, server, stale, calls>>
clients  == <<conn, acked>>
wires    == <<path, c2s, s2c>>
vars     == <<registry, clients, wires, faults>>

Requests == Modules \cup {"heartbeat"}    \* a module stands for its register
Answers  == {"register_ack", "error_report"}

TypeOK ==
  /\ sessions \in [Modules -> Conns \cup {NoConn}]
  /\ ident \in [Conns -> Modules \cup {NoModule}]
  /\ server \in [Conns -> {"none", "open", "closing"}]
  /\ stale \in SUBSET Conns
  /\ calls \in [Modules -> Int]
  /\ conn \in [Modules -> Conns \cup {NoConn}]
  /\ acked \in SUBSET Modules
  /\ path \in [Conns -> {"up", "cut", "shut"}]
  /\ c2s \in [Conns -> Seq(Requests)]
  /\ s2c \in [Conns -> Seq(Answers)]
  /\ faults \in Nat

Init ==
  /\ sessions = [m \in Modules |-> NoConn]
  /\ ident = [c \in Conns |-> NoModule]
  /\ server = [c \in Conns |-> "none"]
  /\ stale = {} /\ calls = [m \in Modules |-> 0]
  /\ conn = [m \in Modules |-> NoConn] /\ acked = {}
  /\ path = [c \in Conns |-> "shut"]
  /\ c2s = [c \in Conns |-> <<>>] /\ s2c = [c \in Conns |-> <<>>]
  /\ faults = 0

Fault == faults < MaxFaults /\ faults' = faults + 1

(* Definitions named ..._M are mutants: the definition that follows with a  *)
(* plausible bug.  No action uses them; they test the properties.           *)

registered(c) == ident[c] # NoModule /\ sessions[ident[c]] = c

is_online(m) == sessions[m] # NoConn /\ server[sessions[m]] = "open"

unregister_M(c) ==
  IF registered(c) THEN /\ sessions' = [sessions EXCEPT ![ident[c]] = NoConn]
                        /\ UNCHANGED calls
                   ELSE UNCHANGED <<sessions, calls>>

(* _unregister: the registry entry goes, and on_disconnect is called, only  *)
(* if the session is the one registered.                                    *)
unregister(c) ==
  IF registered(c) THEN /\ sessions' = [sessions EXCEPT ![ident[c]] = NoConn]
                        /\ calls' = [calls EXCEPT ![ident[c]] = @ - 1]
                   ELSE UNCHANGED <<sessions, calls>>

(* _reply: lost when the connection is not whole.                           *)
reply(c, a) == IF path[c] = "up" /\ server[c] = "open"
               THEN [s2c EXCEPT ![c] = Append(@, a)] ELSE s2c
-----------------------------------------------------------------------------
(* The clients                                                              *)

Free(c) == server[c] = "none" /\ \A m \in Modules : conn[m] # c

(* open_connection / TcpClient::connect, then register; the server accepts  *)
(* and starts _handle_client.                                               *)
Connect(m) ==
  /\ conn[m] = NoConn
  /\ \E c \in Conns :
       /\ Free(c)
       /\ conn' = [conn EXCEPT ![m] = c]
       /\ path' = [path EXCEPT ![c] = "up"]
       /\ server' = [server EXCEPT ![c] = "open"]
       /\ ident' = [ident EXCEPT ![c] = NoModule]
       /\ stale' = stale \ {c}
       /\ c2s' = [c2s EXCEPT ![c] = <<m>>]
       /\ s2c' = [s2c EXCEPT ![c] = <<>>]
  /\ acked' = acked \ {m}
  /\ UNCHANGED <<sessions, calls, faults>>

(* _heartbeat_loop, or the heartbeat thread once registered.                *)
Heartbeat(m) ==
  /\ conn[m] # NoConn /\ path[conn[m]] = "up"
  /\ m \in Patient \/ m \in acked
  /\ Len(c2s[conn[m]]) < MaxQueue
  /\ c2s' = [c2s EXCEPT ![conn[m]] = Append(@, "heartbeat")]
  /\ UNCHANGED <<registry, clients, path, s2c, faults>>

(* _dispatch / handle_line: only the acknowledgement is remembered; the     *)
(* refusal of a register is logged.                                         *)
ClientReads(m) ==
  /\ conn[m] # NoConn /\ s2c[conn[m]] # <<>>
  /\ s2c' = [s2c EXCEPT ![conn[m]] = Tail(@)]
  /\ acked' = IF Head(s2c[conn[m]]) = "register_ack" THEN acked \cup {m} ELSE acked
  /\ UNCHANGED <<registry, conn, path, c2s, faults>>

(* The client closes its end; the reconnect loop is next.                   *)
HangUp(m) ==
  /\ conn' = [conn EXCEPT ![m] = NoConn]
  /\ acked' = acked \ {m}
  /\ path' = [path EXCEPT ![conn[m]] = IF @ = "up" THEN "shut" ELSE @]
  /\ s2c' = [s2c EXCEPT ![conn[m]] = <<>>]
  /\ UNCHANGED <<registry, c2s>>

(* What a client that waits for nothing more has seen of the connection.    *)
Answered(c) == path[c] = "cut" \/ (c2s[c] = <<>> /\ s2c[c] = <<>>)

(* The heartbeat thread of the motion service: not registered after 3 s.    *)
GiveUp(m) ==
  /\ m \notin Patient /\ conn[m] # NoConn /\ m \notin acked
  /\ Answered(conn[m])
  /\ HangUp(m)
  /\ UNCHANGED faults

(* The same where the server needs longer than that for its answer.         *)
GiveUpEarly(m) ==
  /\ m \notin Patient /\ conn[m] # NoConn /\ m \notin acked
  /\ ~Answered(conn[m]) /\ Fault
  /\ HangUp(m)

(* End of file, reset, or a failing send.                                   *)
ClientSeesEnd(m) ==
  /\ conn[m] # NoConn
  /\ server[conn[m]] # "open" \/ path[conn[m]] = "cut"
  /\ HangUp(m)
  /\ UNCHANGED faults

(* The client's process ends and is started again.                          *)
ClientRestarts(m) ==
  /\ conn[m] # NoConn /\ Fault
  /\ HangUp(m)

(* The connection goes silent: nothing more arrives at either end.          *)
Cut(c) ==
  /\ path[c] = "up" /\ server[c] # "none" /\ Fault
  /\ path' = [path EXCEPT ![c] = "cut"]
  /\ c2s' \in {c2s, [c2s EXCEPT ![c] = <<>>]}
  /\ s2c' = [s2c EXCEPT ![c] = <<>>]
  /\ UNCHANGED <<registry, clients>>
-----------------------------------------------------------------------------
(* The server                                                               *)

(* _handle_register.  A healthy session of the same name is kept and the    *)
(* newcomer refused, its connection left open; one that is closing is       *)
(* unregistered first.                                                      *)
RegisterRefused(c) ==
  /\ server[c] # "none" /\ c2s[c] # <<>> /\ Head(c2s[c]) \in Modules
  /\ LET m == Head(c2s[c]) IN sessions[m] # c /\ is_online(m)
  /\ c2s' = [c2s EXCEPT ![c] = Tail(@)]
  /\ s2c' = reply(c, "error_report")
  /\ UNCHANGED <<registry, clients, path, faults>>

Registered_M(c) ==
  /\ server[c] # "none" /\ c2s[c] # <<>> /\ Head(c2s[c]) \in Modules
  /\ LET m == Head(c2s[c])
     IN /\ ident' = [ident EXCEPT ![c] = m]
        /\ sessions' = [sessions EXCEPT ![m] = c]
        /\ calls' = [calls EXCEPT ![m] = IF sessions[m] = NoConn THEN @ + 1 ELSE @]
  /\ stale' = stale \ {c}
  /\ c2s' = [c2s EXCEPT ![c] = Tail(@)]
  /\ s2c' = reply(c, "register_ack")
  /\ UNCHANGED <<server, clients, path, faults>>

Registered(c) ==
  /\ server[c] # "none" /\ c2s[c] # <<>> /\ Head(c2s[c]) \in Modules
  /\ LET m == Head(c2s[c])
     IN /\ sessions[m] = c \/ ~is_online(m)
        /\ ident' = [ident EXCEPT ![c] = m]
        /\ sessions' = [sessions EXCEPT ![m] = c]
        \* one more session, and one on_disconnect for a session replaced
        /\ calls' = [calls EXCEPT ![m] = CASE sessions[m] = c      -> @
                                           [] sessions[m] = NoConn -> @ + 1
                                           [] OTHER                -> @ + 1 - 1]
  /\ stale' = stale \ {c}
  /\ c2s' = [c2s EXCEPT ![c] = Tail(@)]
  /\ s2c' = reply(c, "register_ack")
  /\ UNCHANGED <<server, clients, path, faults>>

(* A heartbeat counts for an identified session; others get NOT_REGISTERED. *)
HeartbeatSeen(c) ==
  /\ server[c] # "none" /\ c2s[c] # <<>> /\ Head(c2s[c]) = "heartbeat"
  /\ c2s' = [c2s EXCEPT ![c] = Tail(@)]
  /\ stale' = IF ident[c] # NoModule THEN stale \ {c} ELSE stale
  /\ UNCHANGED <<sessions, ident, server, calls, clients, path, s2c, faults>>

EndHandler_M(c) ==
  /\ server' = [server EXCEPT ![c] = "none"]
  /\ stale' = stale \ {c}
  /\ c2s' = [c2s EXCEPT ![c] = <<>>]
  /\ UNCHANGED <<sessions, calls, ident, clients, path, s2c>>

(* The finally clause of _handle_client.                                    *)
EndHandler(c) ==
  /\ unregister(c)
  /\ server' = [server EXCEPT ![c] = "none"]
  /\ stale' = stale \ {c}
  /\ c2s' = [c2s EXCEPT ![c] = <<>>]
  /\ UNCHANGED <<ident, clients, path, s2c>>

(* readline returns b"" after the last buffered frame, or the writer was    *)
(* closed.                                                                  *)
HandlerEnds(c) ==
  /\ server[c] # "none"
  /\ server[c] = "closing" \/ (path[c] = "shut" /\ c2s[c] = <<>>)
  /\ EndHandler(c)
  /\ UNCHANGED faults

(* An exception in the handler: a reply that takes 3 s, a frame too long.   *)
HandlerFails(c) ==
  /\ server[c] # "none" /\ Fault
  /\ EndHandler(c)

(* The transport is lost; the handler has not noticed.                      *)
TransportLost(c) ==
  /\ server[c] = "open" /\ Fault
  /\ server' = [server EXCEPT ![c] = "closing"]
  /\ UNCHANGED <<sessions, ident, stale, calls, clients, wires>>

CloseSession_M(c) == unregister(c) /\ UNCHANGED server

(* writer.close() and _unregister, as send_to and the patrol do.            *)
CloseSession(c) ==
  /\ server' = [server EXCEPT ![c] = "closing"]
  /\ unregister(c)

(* send_to: drain fails or takes 3 s.                                       *)
SendFails(c) ==
  /\ registered(c) /\ Fault
  /\ CloseSession(c)
  /\ UNCHANGED <<ident, stale, clients, wires>>

Patrol_M(c) ==
  /\ registered(c)
  /\ stale' = stale \cup {c}
  /\ UNCHANGED <<sessions, ident, server, calls, clients, wires, faults>>

(* _heartbeat_patrol: two rounds without a heartbeat stand for more than    *)
(* HEARTBEAT_OFFLINE_SEC.  Only registered sessions are looked at.          *)
Patrol(c) ==
  /\ registered(c)
  /\ IF c \in stale THEN CloseSession(c) /\ UNCHANGED stale
                    ELSE stale' = stale \cup {c} /\ UNCHANGED <<sessions, server, calls>>
  /\ UNCHANGED <<ident, clients, wires, faults>>
-----------------------------------------------------------------------------
ClientStep(m) == \/ Connect(m) \/ Heartbeat(m) \/ ClientReads(m) \/ GiveUp(m)
                 \/ GiveUpEarly(m) \/ ClientSeesEnd(m) \/ ClientRestarts(m)

HandlerStep(c) == RegisterRefused(c) \/ Registered(c) \/ HeartbeatSeen(c) \/ HandlerEnds(c)

FailureStep(c) == Cut(c) \/ HandlerFails(c) \/ TransportLost(c) \/ SendFails(c)

Next == \/ \E m \in Modules : ClientStep(m)
        \/ \E c \in Conns : HandlerStep(c) \/ FailureStep(c) \/ Patrol(c)

Spec == Init /\ [][Next]_vars

(* Both event loops run what is ready, the patrol goes round, a client      *)
(* reads, notices the end of its connection, reconnects, and its 3 s timer  *)
(* fires.  No failure and no restart is assumed to happen.                  *)
Fairness ==
  /\ \A m \in Modules : /\ WF_vars(Connect(m)) /\ WF_vars(ClientReads(m))
                        /\ WF_vars(GiveUp(m)) /\ WF_vars(ClientSeesEnd(m))
  /\ \A c \in Conns : WF_vars(HandlerStep(c)) /\ WF_vars(Patrol(c))

FairSpec == Spec /\ Fairness
-----------------------------------------------------------------------------
(* A client that was acknowledged, on a connection the server holds open,   *)
(* is the one the server sends to: nobody is dropped from the registry      *)
(* while its connection goes on as if nothing had happened.                 *)
AckedIsRegistered ==
  \A m \in acked : server[conn[m]] = "open" => sessions[m] = conn[m]

(* on_disconnect is called once, and only once, for every session that was  *)
(* registered: what waits for a module is told of every loss of it.         *)
EveryLossIsTold ==
  \A m \in Modules : calls[m] = IF sessions[m] = NoConn THEN 0 ELSE 1

(* At most one open session answers to a name, and a registered session     *)
(* has a handler that will unregister it.                                   *)
OneVoice ==
  /\ \A c \in Conns : server[c] = "open" /\ ident[c] # NoModule
                      => sessions[ident[c]] = c
  /\ \A m \in Modules : sessions[m] # NoConn
                      => server[sessions[m]] # "none" /\ ident[sessions[m]] = m

(* The inductive invariant: it also follows a register and its              *)
(* acknowledgement over the wire.  A connection carries the register of its *)
(* client only, and an acknowledgement to read is one of the client's own.  *)
Frames(s) == {s[i] : i \in 1..Len(s)}

NamesInv ==
  \A c \in Conns : \A m, n \in Modules \cap Frames(c2s[c]) :
     m = n /\ ident[c] \in {m, NoModule}

WireInv ==
  \A m \in Modules : conn[m] # NoConn =>
     /\ \A n \in Modules \ {m} : conn[n] # conn[m] /\ n \notin Frames(c2s[conn[m]])
     /\ ident[conn[m]] \in {m, NoModule}
     /\ "register_ack" \in Frames(s2c[conn[m]]) => ident[conn[m]] = m

AckInv == \A m \in acked : conn[m] # NoConn /\ ident[conn[m]] = m

RInv == /\ TypeOK /\ EveryLossIsTold /\ OneVoice
        /\ NamesInv /\ WireInv /\ AckInv

(* "Reconnects after a disconnect, never exits": once failures stop, every  *)
(* client is the registered one of its module again and again.              *)
ComesBack ==
  \A m \in Modules : []<>(conn[m] # NoConn /\ is_online(m) /\ sessions[m] = conn[m])
=============================================================================
