------------------------ MODULE SessionRegistryProofs ------------------------
(***************************************************************************)
(* The registry never loses track of a session, for any modules, any        *)
(* connections, any failures and any backlog on the wire.  What the server  *)
(* may send to a client depends on what the client was told, so RInv        *)
(* follows a register and its acknowledgement through both directions of    *)
(* the wire: AckedIsRegistered is then AckInv with OneVoice.                *)
(***************************************************************************)
EXTENDS SessionRegistry, SequenceTheorems, TLAPS

LEMMA TailFrames ==
  ASSUME NEW S, NEW s \in Seq(S), s # <<>>
  PROVE  Tail(s) \in Seq(S) /\ Frames(Tail(s)) \subseteq Frames(s) /\ Head(s) \in S /\ Head(s) \in Frames(s)
<1>1. Tail(s) \in Seq(S) /\ Len(Tail(s)) = Len(s) - 1 /\ Len(s) \in Nat \ {0}
      /\ \A i \in 1..Len(Tail(s)) : Tail(s)[i] = s[i + 1]
  BY EmptySeq, HeadTailProperties
<1>2. Head(s) = s[1] /\ Head(s) \in S
  BY HeadTailProperties
<1> QED BY <1>1, <1>2 DEF Frames

LEMMA AppendFrames ==
  ASSUME NEW S, NEW s \in Seq(S), NEW e \in S
  PROVE  Append(s, e) \in Seq(S) /\ Frames(Append(s, e)) \subseteq Frames(s) \cup {e}
<1>1. Append(s, e) \in Seq(S) /\ Len(Append(s, e)) = Len(s) + 1 /\ Len(s) \in Nat
      /\ \A i \in 1..Len(s) : Append(s, e)[i] = s[i]
      /\ Append(s, e)[Len(s) + 1] = e
  BY AppendProperties
<1> QED BY <1>1 DEF Frames

LEMMA NoFrames == ASSUME NEW S PROVE <<>> \in Seq(S) /\ Frames(<<>>) = {}
BY EmptySeq DEF Frames

LEMMA OneFrame == ASSUME NEW S, NEW e \in S PROVE <<e>> \in Seq(S) /\ Frames(<<e>>) = {e}
BY DEF Frames

(* What HangUp leaves: the client forgets the connection and what was       *)
(* acknowledged on it.                                                      *)
LEMMA HangUpKeeps ==
  ASSUME RInv, NEW m \in Modules, conn[m] # NoConn, HangUp(m), faults' \in Nat
  PROVE  RInv'
<1>0. TypeOK
  BY DEF RInv
<1>1. conn[m] \in Conns /\ UNCHANGED <<registry, c2s>>
  BY <1>0 DEF TypeOK, HangUp
<1>2. TypeOK'
  <2>1. s2c' \in [Conns -> Seq(Answers)]
    BY <1>0, <1>1, NoFrames DEF TypeOK, HangUp
  <2> QED BY <1>0, <1>1, <2>1 DEF TypeOK, HangUp, registry
<1>3. EveryLossIsTold' /\ OneVoice'
  BY <1>1 DEF RInv, EveryLossIsTold, OneVoice, registry
<1>4. WireInv' /\ NamesInv'
  BY <1>0, <1>1, RegistryAssumption DEF RInv, TypeOK, HangUp, WireInv, NamesInv, registry
<1>5. AckInv'
  BY <1>0, <1>1 DEF RInv, TypeOK, HangUp, AckInv, registry
<1> QED BY <1>2, <1>3, <1>4, <1>5 DEF RInv

LEMMA ConnectKeeps ==
  ASSUME RInv, NEW m \in Modules, Connect(m)
  PROVE  RInv'
<1>0. TypeOK
  BY DEF RInv
<1>1. PICK c \in Conns :
        /\ Free(c) /\ conn' = [conn EXCEPT ![m] = c]
        /\ path' = [path EXCEPT ![c] = "up"] /\ server' = [server EXCEPT ![c] = "open"]
        /\ ident' = [ident EXCEPT ![c] = NoModule] /\ stale' = stale \ {c}
        /\ c2s' = [c2s EXCEPT ![c] = <<m>>] /\ s2c' = [s2c EXCEPT ![c] = <<>>]
  BY DEF Connect
<1>2. acked' = acked \ {m} /\ UNCHANGED <<sessions, calls, faults>> /\ conn[m] = NoConn
  BY DEF Connect
<1>3. m \in Requests /\ <<m>> \in Seq(Requests) /\ Frames(<<m>>) = {m}
      /\ <<>> \in Seq(Answers) /\ Frames(<<>>) = {}
  BY OneFrame, NoFrames DEF Requests
<1>4. TypeOK'
  BY <1>0, <1>1, <1>2, <1>3 DEF TypeOK
<1>5. EveryLossIsTold'
  BY <1>2 DEF RInv, EveryLossIsTold
<1>6. OneVoice'
  BY <1>0, <1>1, <1>2, RegistryAssumption DEF RInv, TypeOK, OneVoice, Free
<1>7. WireInv'
  <2> SUFFICES ASSUME NEW n \in Modules, conn'[n] # NoConn
               PROVE  /\ \A k \in Modules \ {n} : conn'[k] # conn'[n] /\ k \notin Frames(c2s'[conn'[n]])
                      /\ ident'[conn'[n]] \in {n, NoModule}
                      /\ "register_ack" \in Frames(s2c'[conn'[n]]) => ident'[conn'[n]] = n
    BY DEF WireInv
  <2>1. CASE n = m
    BY <1>0, <1>1, <1>3, <2>1 DEF TypeOK, Free
  <2>2. CASE n # m
    <3>1. conn'[n] = conn[n] /\ conn[n] \in Conns /\ conn[n] # c
      BY <1>0, <1>1, <2>2 DEF TypeOK, Free
    <3> QED BY <1>0, <1>1, <2>2, <3>1 DEF RInv, TypeOK, WireInv
  <2> QED BY <2>1, <2>2
<1>8. AckInv'
  BY <1>0, <1>1, <1>2 DEF RInv, TypeOK, AckInv, Free
<1>9. NamesInv'
  BY <1>0, <1>1, <1>3 DEF RInv, TypeOK, NamesInv
<1> QED BY <1>4, <1>5, <1>6, <1>7, <1>8, <1>9 DEF RInv

LEMMA ClientKeeps ==
  ASSUME RInv, NEW m \in Modules, ClientStep(m)
  PROVE  RInv'
<1>0. TypeOK
  BY DEF RInv
<1>1. CASE Connect(m)
  BY <1>1, ConnectKeeps
<1>2. CASE GiveUp(m) \/ GiveUpEarly(m) \/ ClientSeesEnd(m) \/ ClientRestarts(m)
  <2>1. conn[m] # NoConn /\ HangUp(m) /\ faults' \in Nat
    BY <1>0, <1>2 DEF GiveUp, GiveUpEarly, ClientSeesEnd, ClientRestarts, Fault, TypeOK
  <2> QED BY <2>1, HangUpKeeps
<1>3. CASE Heartbeat(m)
  <2> DEFINE c == conn[m]
  <2>1. c \in Conns /\ c2s' = [c2s EXCEPT ![c] = Append(@, "heartbeat")]
        /\ UNCHANGED <<registry, clients, path, s2c, faults>>
    BY <1>0, <1>3 DEF Heartbeat, TypeOK
  <2>2. c2s'[c] \in Seq(Requests) /\ Frames(c2s'[c]) \subseteq Frames(c2s[c]) \cup {"heartbeat"}
    <3>1. c2s[c] \in Seq(Requests) /\ "heartbeat" \in Requests
      BY <1>0, <2>1 DEF TypeOK, Requests
    <3>2. c2s'[c] = Append(c2s[c], "heartbeat")
      BY <1>0, <2>1 DEF TypeOK
    <3> QED BY <3>1, <3>2, AppendFrames
  <2>3. TypeOK'
    BY <1>0, <2>1, <2>2 DEF TypeOK, registry, clients
  <2>4. EveryLossIsTold' /\ OneVoice' /\ AckInv'
    BY <2>1 DEF RInv, EveryLossIsTold, OneVoice, AckInv, registry, clients
  <2>5. WireInv' /\ NamesInv'
    BY <1>0, <2>1, <2>2, RegistryAssumption DEF RInv, TypeOK, WireInv, NamesInv, registry, clients
  <2> QED BY <2>3, <2>4, <2>5 DEF RInv
<1>4. CASE ClientReads(m)
  <2> DEFINE c == conn[m]
  <2>1. c \in Conns /\ s2c[c] # <<>> /\ s2c' = [s2c EXCEPT ![c] = Tail(@)]
        /\ UNCHANGED <<registry, conn, path, c2s, faults>>
        /\ acked' = IF Head(s2c[c]) = "register_ack" THEN acked \cup {m} ELSE acked
    BY <1>0, <1>4 DEF ClientReads, TypeOK
  <2>2. /\ s2c'[c] \in Seq(Answers) /\ Frames(s2c'[c]) \subseteq Frames(s2c[c])
        /\ Head(s2c[c]) \in Frames(s2c[c])
    BY <1>0, <2>1, TailFrames DEF TypeOK
  <2>3. TypeOK'
    BY <1>0, <2>1, <2>2 DEF TypeOK, registry
  <2>4. EveryLossIsTold' /\ OneVoice'
    BY <2>1 DEF RInv, EveryLossIsTold, OneVoice, registry
  <2>5. WireInv' /\ NamesInv'
    BY <1>0, <2>1, <2>2 DEF RInv, TypeOK, WireInv, NamesInv, registry
  <2>6. AckInv'
    <3>1. ident' = ident /\ conn' = conn /\ c # NoConn
      BY <2>1, RegistryAssumption DEF registry
    <3>2. m \in acked' \ acked => ident[c] = m
      BY <2>1, <2>2, <3>1 DEF RInv, WireInv
    <3>3. \A n \in acked' : n = m \/ n \in acked
      BY <2>1
    <3> QED BY <3>1, <3>2, <3>3 DEF RInv, AckInv
  <2> QED BY <2>3, <2>4, <2>5, <2>6 DEF RInv
<1> QED BY <1>1, <1>2, <1>3, <1>4 DEF ClientStep

(* A reply appends one frame to one connection, or is lost.                 *)
LEMMA ReplyKeeps ==
  ASSUME TypeOK, NEW c \in Conns, NEW a \in Answers
  PROVE  /\ reply(c, a) \in [Conns -> Seq(Answers)]
         /\ \A d \in Conns : Frames(reply(c, a)[d]) \subseteq
                               IF d = c THEN Frames(s2c[c]) \cup {a} ELSE Frames(s2c[d])
<1>1. s2c[c] \in Seq(Answers)
  BY DEF TypeOK
<1>2. Append(s2c[c], a) \in Seq(Answers) /\ Frames(Append(s2c[c], a)) \subseteq Frames(s2c[c]) \cup {a}
  BY <1>1, AppendFrames
<1> QED BY <1>1, <1>2 DEF TypeOK, reply

LEMMA HandlerReads ==
  ASSUME TypeOK, NEW c \in Conns, c2s[c] # <<>>, c2s' = [c2s EXCEPT ![c] = Tail(@)]
  PROVE  /\ c2s' \in [Conns -> Seq(Requests)]
         /\ Head(c2s[c]) \in Frames(c2s[c])
         /\ \A d \in Conns : Frames(c2s'[d]) \subseteq Frames(c2s[d])
<1>1. c2s[c] \in Seq(Requests)
  BY DEF TypeOK
<1>2. Tail(c2s[c]) \in Seq(Requests) /\ Frames(Tail(c2s[c])) \subseteq Frames(c2s[c])
      /\ Head(c2s[c]) \in Frames(c2s[c])
  BY <1>1, TailFrames
<1> QED BY <1>2 DEF TypeOK

(* A session removed from the registry: what _unregister and a change of    *)
(* the server's end leave of the invariant.                                 *)
LEMMA UnregisterKeeps ==
  ASSUME RInv, NEW c \in Conns, unregister(c), server' \in [Conns -> {"none", "open", "closing"}],
         \A d \in Conns \ {c} : server'[d] = server[d], server'[c] # "open",
         ident' = ident
  PROVE  EveryLossIsTold' /\ OneVoice' /\ sessions' \in [Modules -> Conns \cup {NoConn}]
         /\ calls' \in [Modules -> Int]
<1>1. CASE registered(c)
  <2> DEFINE m == ident[c]
  <2>1. m \in Modules /\ sessions[m] = c /\ c # NoConn
        /\ sessions' = [sessions EXCEPT ![m] = NoConn] /\ calls' = [calls EXCEPT ![m] = @ - 1]
    BY <1>1, RegistryAssumption DEF RInv, TypeOK, unregister, registered
  <2>2. EveryLossIsTold' /\ sessions' \in [Modules -> Conns \cup {NoConn}]
        /\ calls' \in [Modules -> Int]
    BY <2>1 DEF RInv, TypeOK, EveryLossIsTold
  <2>3. \A n \in Modules : sessions'[n] # NoConn =>
           /\ n # m /\ sessions'[n] = sessions[n] /\ sessions[n] # c
    BY <2>1 DEF RInv, TypeOK, OneVoice
  <2>4. OneVoice'
    BY <2>1, <2>3 DEF RInv, TypeOK, OneVoice
  <2> QED BY <2>2, <2>4
<1>2. CASE ~registered(c)
  BY <1>2, RegistryAssumption DEF RInv, TypeOK, EveryLossIsTold, OneVoice, unregister, registered
<1> QED BY <1>1, <1>2

LEMMA EndHandlerKeeps ==
  ASSUME RInv, NEW c \in Conns, EndHandler(c), faults' \in Nat
  PROVE  RInv'
<1>0. TypeOK
  BY DEF RInv
<1>1. /\ unregister(c) /\ server' = [server EXCEPT ![c] = "none"] /\ stale' = stale \ {c}
      /\ c2s' = [c2s EXCEPT ![c] = <<>>] /\ UNCHANGED <<ident, clients, path, s2c>>
  BY DEF EndHandler
<1>2. EveryLossIsTold' /\ OneVoice' /\ sessions' \in [Modules -> Conns \cup {NoConn}]
      /\ calls' \in [Modules -> Int]
  BY <1>0, <1>1, UnregisterKeeps DEF TypeOK
<1>3. c2s' \in [Conns -> Seq(Requests)] /\ \A d \in Conns : Frames(c2s'[d]) \subseteq Frames(c2s[d])
  BY <1>0, <1>1, NoFrames DEF TypeOK
<1>4. TypeOK'
  BY <1>0, <1>1, <1>2, <1>3 DEF TypeOK, clients
<1>5. NamesInv'
  BY <1>1, <1>3 DEF RInv, NamesInv
<1>6. WireInv'
  BY <1>0, <1>1, <1>3 DEF RInv, TypeOK, WireInv, clients
<1>7. AckInv'
  BY <1>1 DEF RInv, AckInv, clients
<1> QED BY <1>2, <1>4, <1>5, <1>6, <1>7 DEF RInv

LEMMA CloseSessionKeeps ==
  ASSUME RInv, NEW c \in Conns, CloseSession(c), UNCHANGED <<ident, clients, wires>>,
         faults' \in Nat, stale' = stale
  PROVE  RInv'
<1>0. TypeOK
  BY DEF RInv
<1>1. EveryLossIsTold' /\ OneVoice' /\ sessions' \in [Modules -> Conns \cup {NoConn}]
      /\ calls' \in [Modules -> Int]
  BY <1>0, UnregisterKeeps DEF TypeOK, CloseSession
<1>2. TypeOK'
  BY <1>0, <1>1 DEF TypeOK, CloseSession, clients, wires
<1>3. WireInv' /\ AckInv' /\ NamesInv'
  BY <1>0 DEF RInv, TypeOK, WireInv, AckInv, NamesInv, clients, wires
<1> QED BY <1>1, <1>2, <1>3 DEF RInv

(* _handle_register.  The guard makes a second open session of a name       *)
(* impossible, and the register was sent by the client of the connection.   *)
LEMMA RegisteredKeeps ==
  ASSUME RInv, NEW c \in Conns, Registered(c)
  PROVE  RInv'
<1> DEFINE m == Head(c2s[c])
<1>0. TypeOK
  BY DEF RInv
<1>1. /\ server[c] # "none" /\ m \in Modules /\ (sessions[m] = c \/ ~is_online(m))
      /\ ident' = [ident EXCEPT ![c] = m] /\ sessions' = [sessions EXCEPT ![m] = c]
      /\ UNCHANGED <<server, clients, path, faults>> /\ stale' = stale \ {c}
  BY DEF Registered
<1>2. calls' = [calls EXCEPT ![m] = CASE sessions[m] = c      -> @
                                      [] sessions[m] = NoConn -> @ + 1
                                      [] OTHER                -> @ + 1 - 1]
  BY DEF Registered
<1>3. /\ c2s' \in [Conns -> Seq(Requests)] /\ m \in Frames(c2s[c])
      /\ \A d \in Conns : Frames(c2s'[d]) \subseteq Frames(c2s[d])
  BY <1>0, HandlerReads DEF Registered
<1>4. /\ s2c' \in [Conns -> Seq(Answers)]
      /\ \A d \in Conns : Frames(s2c'[d]) \subseteq
                            IF d = c THEN Frames(s2c[c]) \cup {"register_ack"} ELSE Frames(s2c[d])
  BY <1>0, ReplyKeeps DEF Registered, Answers
<1>5. EveryLossIsTold' /\ calls' \in [Modules -> Int]
  BY <1>0, <1>1, <1>2, RegistryAssumption DEF RInv, TypeOK, EveryLossIsTold
<1>6. TypeOK'
  BY <1>0, <1>1, <1>3, <1>4, <1>5 DEF TypeOK, clients
<1>7. OneVoice'
  <2>1. \A d \in Conns : server'[d] = "open" /\ ident'[d] # NoModule => sessions'[ident'[d]] = d
    BY <1>0, <1>1, RegistryAssumption DEF RInv, TypeOK, OneVoice, is_online
  <2>2. ASSUME NEW n \in Modules, sessions'[n] # NoConn
        PROVE  server'[sessions'[n]] # "none" /\ ident'[sessions'[n]] = n
    <3>1. CASE n = m
      BY <1>0, <1>1, <3>1 DEF TypeOK
    <3>2. CASE n # m
      <4>1. sessions'[n] = sessions[n] /\ ident[sessions[n]] = n /\ server[sessions[n]] # "none"
        BY <1>0, <1>1, <2>2, <3>2 DEF RInv, TypeOK, OneVoice
      <4>2. sessions[n] # c
        \* the identity of c is that of the register it carries
        BY <1>1, <1>3, <3>2, <4>1, RegistryAssumption DEF RInv, NamesInv
      <4> QED BY <1>0, <1>1, <2>2, <4>1, <4>2 DEF TypeOK
    <3> QED BY <3>1, <3>2
  <2> QED BY <2>1, <2>2 DEF OneVoice
<1>8. NamesInv'
  <2>1. \A d \in Conns : ident'[d] = IF d = c THEN m ELSE ident[d]
    BY <1>0, <1>1 DEF TypeOK
  <2> SUFFICES ASSUME NEW d \in Conns, NEW n \in Modules, NEW k \in Modules,
                      n \in Frames(c2s'[d]), k \in Frames(c2s'[d])
               PROVE  n = k /\ ident'[d] \in {n, NoModule}
    BY DEF NamesInv
  <2>2. n \in Frames(c2s[d]) /\ k \in Frames(c2s[d])
    BY <1>3
  <2>3. n = k /\ ident[d] \in {n, NoModule} /\ (d = c => n = m)
    BY <1>1, <1>3, <2>2 DEF RInv, NamesInv
  <2> QED BY <2>1, <2>3
<1>9. WireInv'
  <2> SUFFICES ASSUME NEW n \in Modules, conn[n] # NoConn
               PROVE  /\ \A k \in Modules \ {n} : conn[k] # conn[n] /\ k \notin Frames(c2s'[conn[n]])
                      /\ ident'[conn[n]] \in {n, NoModule}
                      /\ "register_ack" \in Frames(s2c'[conn[n]]) => ident'[conn[n]] = n
    BY <1>1 DEF WireInv, clients
  <2>1. conn[n] \in Conns
    BY <1>0 DEF TypeOK
  <2>2. conn[n] = c => n = m
    BY <1>1, <1>3 DEF RInv, WireInv
  <2> QED BY <1>0, <1>1, <1>3, <1>4, <2>1, <2>2 DEF RInv, TypeOK, WireInv
<1>10. AckInv'
  <2> SUFFICES ASSUME NEW n \in acked PROVE conn[n] # NoConn /\ ident'[conn[n]] = n
    BY <1>1 DEF AckInv, clients
  <2>1. n \in Modules /\ conn[n] \in Conns /\ conn[n] # NoConn /\ ident[conn[n]] = n
    BY <1>0 DEF RInv, TypeOK, AckInv
  <2>2. conn[n] = c => n = m
    BY <1>1, <1>3, <2>1 DEF RInv, WireInv
  <2> QED BY <1>0, <1>1, <2>1, <2>2 DEF TypeOK
<1> QED BY <1>5, <1>6, <1>7, <1>8, <1>9, <1>10 DEF RInv

(* What a handler reads besides a register it accepts.                      *)
LEMMA ReadKeeps ==
  ASSUME RInv, NEW c \in Conns, RegisterRefused(c) \/ HeartbeatSeen(c)
  PROVE  RInv'
<1>0. TypeOK
  BY DEF RInv
<1>1. /\ UNCHANGED <<sessions, ident, server, calls, clients, path, faults>>
      /\ stale' \in SUBSET Conns
  BY <1>0 DEF RegisterRefused, HeartbeatSeen, registry, TypeOK
<1>2. c2s' \in [Conns -> Seq(Requests)] /\ \A d \in Conns : Frames(c2s'[d]) \subseteq Frames(c2s[d])
  BY <1>0, HandlerReads DEF RegisterRefused, HeartbeatSeen
<1>3. /\ s2c' \in [Conns -> Seq(Answers)]
      /\ \A d \in Conns : Frames(s2c'[d]) \subseteq Frames(s2c[d]) \cup {"error_report"}
  <2>1. CASE RegisterRefused(c)
    BY <1>0, <2>1, ReplyKeeps DEF RegisterRefused, Answers
  <2>2. CASE HeartbeatSeen(c)
    BY <1>0, <2>2 DEF HeartbeatSeen, TypeOK
  <2> QED BY <2>1, <2>2
<1>4. TypeOK'
  BY <1>0, <1>1, <1>2, <1>3 DEF TypeOK, clients
<1>5. EveryLossIsTold' /\ OneVoice' /\ AckInv'
  BY <1>1 DEF RInv, EveryLossIsTold, OneVoice, AckInv, clients
<1>6. NamesInv'
  BY <1>1, <1>2 DEF RInv, NamesInv
<1>7. WireInv'
  BY <1>0, <1>1, <1>2, <1>3 DEF RInv, TypeOK, WireInv, clients
<1> QED BY <1>4, <1>5, <1>6, <1>7 DEF RInv

LEMMA FailureKeeps ==
  ASSUME RInv, NEW c \in Conns, HandlerEnds(c) \/ FailureStep(c) \/ Patrol(c)
  PROVE  RInv'
<1>0. TypeOK
  BY DEF RInv
<1>1. CASE HandlerEnds(c) \/ HandlerFails(c)
  <2>1. EndHandler(c) /\ faults' \in Nat
    BY <1>0, <1>1 DEF HandlerEnds, HandlerFails, Fault, TypeOK
  <2> QED BY <2>1, EndHandlerKeeps
<1>2. CASE SendFails(c) \/ (Patrol(c) /\ c \in stale)
  <2>1. CloseSession(c) /\ faults' \in Nat /\ UNCHANGED <<ident, stale, clients, wires>>
    BY <1>0, <1>2 DEF SendFails, Patrol, Fault, TypeOK
  <2> QED BY <2>1, CloseSessionKeeps
<1>3. CASE Patrol(c) /\ c \notin stale
  <2>1. stale' = stale \cup {c} /\ UNCHANGED <<sessions, ident, server, calls, clients, wires, faults>>
    BY <1>3 DEF Patrol
  <2>2. TypeOK'
    BY <1>0, <2>1 DEF TypeOK, clients, wires
  <2> QED BY <2>1, <2>2 DEF RInv, EveryLossIsTold, OneVoice, NamesInv, WireInv, AckInv, clients, wires
<1>4. CASE Cut(c)
  <2>1. UNCHANGED <<registry, clients>> /\ path' \in [Conns -> {"up", "cut", "shut"}] /\ faults' \in Nat
    BY <1>0, <1>4 DEF Cut, Fault, TypeOK
  <2>2. /\ c2s' \in [Conns -> Seq(Requests)] /\ s2c' \in [Conns -> Seq(Answers)]
        /\ \A d \in Conns : Frames(c2s'[d]) \subseteq Frames(c2s[d]) /\ Frames(s2c'[d]) \subseteq Frames(s2c[d])
    <3>1. \A T : <<>> \in Seq(T) /\ Frames(<<>>) = {}
      BY NoFrames
    <3>2. s2c' = [s2c EXCEPT ![c] = <<>>] /\ c2s' \in {c2s, [c2s EXCEPT ![c] = <<>>]}
      BY <1>4 DEF Cut
    <3>3. c2s' \in [Conns -> Seq(Requests)] /\ s2c' \in [Conns -> Seq(Answers)]
      <4>1. <<>> \in Seq(Requests) /\ <<>> \in Seq(Answers)
        BY <3>1
      <4> QED BY <1>0, <3>2, <4>1 DEF TypeOK
    <3>4. \A d \in Conns : c2s'[d] \in {c2s[d], <<>>} /\ s2c'[d] \in {s2c[d], <<>>}
      BY <1>0, <3>2 DEF TypeOK
    <3> QED BY <3>1, <3>3, <3>4
  <2>3. TypeOK'
    BY <1>0, <2>1, <2>2 DEF TypeOK, registry, clients
  <2>4. EveryLossIsTold' /\ OneVoice' /\ AckInv'
    BY <2>1 DEF RInv, EveryLossIsTold, OneVoice, AckInv, registry, clients
  <2>5. NamesInv'
    BY <2>1, <2>2 DEF RInv, NamesInv, registry
  <2>6. WireInv'
    BY <1>0, <2>1, <2>2 DEF RInv, TypeOK, WireInv, registry, clients
  <2> QED BY <2>3, <2>4, <2>5, <2>6 DEF RInv
<1>5. CASE TransportLost(c)
  <2>1. server' = [server EXCEPT ![c] = "closing"] /\ server[c] = "open" /\ faults' \in Nat
        /\ UNCHANGED <<sessions, ident, stale, calls, clients, wires>>
    BY <1>0, <1>5 DEF TransportLost, Fault, TypeOK
  <2>2. TypeOK'
    BY <1>0, <2>1 DEF TypeOK, clients, wires
  <2>3. OneVoice'
    BY <1>0, <2>1 DEF RInv, TypeOK, OneVoice
  <2> QED BY <2>1, <2>2, <2>3 DEF RInv, EveryLossIsTold, NamesInv, WireInv, AckInv, clients, wires
<1> QED BY <1>1, <1>2, <1>3, <1>4, <1>5 DEF FailureStep

LEMMA InitHolds == ASSUME Init PROVE RInv
<1>1. TypeOK
  BY NoFrames DEF Init, TypeOK
<1>2. NamesInv
  BY NoFrames DEF Init, NamesInv
<1> QED BY <1>1, <1>2 DEF Init, RInv, EveryLossIsTold, OneVoice, WireInv, AckInv

(* The inductive invariant holds in every reachable state, for any modules, *)
(* connections, failures and frames on the wire.                            *)
THEOREM Invariance == Spec => []RInv
<1>1. Init => RInv
  BY InitHolds
<1>2. RInv /\ [Next]_vars => RInv'
  <2> SUFFICES ASSUME RInv, [Next]_vars PROVE RInv' OBVIOUS
  <2>1. CASE UNCHANGED vars
    <3>1. TypeOK'
      BY <2>1 DEF vars, registry, clients, wires, RInv, TypeOK
    <3> QED BY <2>1, <3>1 DEF vars, registry, clients, wires, RInv, EveryLossIsTold, OneVoice,
                             NamesInv, WireInv, AckInv
  <2>2. CASE Next
    BY <2>2, ClientKeeps, RegisteredKeeps, ReadKeeps, FailureKeeps DEF Next, HandlerStep
  <2> QED BY <2>1, <2>2
<1> QED BY <1>1, <1>2, PTL DEF Spec

(* A client that has read its acknowledgement on a connection the server    *)
(* holds open is the one the server sends to.                               *)
THEOREM NobodyIsDropped == Spec => []AckedIsRegistered
<1>1. RInv => AckedIsRegistered
  <2> SUFFICES ASSUME RInv, NEW m \in acked, server[conn[m]] = "open"
               PROVE  sessions[m] = conn[m]
    BY DEF AckedIsRegistered
  <2>1. m \in Modules /\ conn[m] \in Conns /\ ident[conn[m]] = m
    BY DEF RInv, TypeOK, AckInv
  <2> QED BY <2>1, RegistryAssumption DEF RInv, OneVoice
<1> QED BY Invariance, <1>1, PTL

(* on_disconnect is called exactly once for every session that was          *)
(* registered and is no longer.                                             *)
THEOREM LossesAreTold == Spec => []EveryLossIsTold
<1>1. RInv => EveryLossIsTold BY DEF RInv
<1> QED BY Invariance, <1>1, PTL
=============================================================================
