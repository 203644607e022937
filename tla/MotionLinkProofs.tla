-------------------------- MODULE MotionLinkProofs --------------------------
(***************************************************************************)
(* What MotionLink guarantees for every set of descriptors and any bound   *)
(* on the frames under way.  LInv is inductive: one lemma per group of     *)
(* actions, one step per conjunct.                                         *)
(***************************************************************************)
EXTENDS MotionLink, SequenceTheorems, TLAPS

(* A service that has just started has no connection.                      *)
LEMMA InitHolds == Init => LInv
<1> SUFFICES ASSUME Init PROVE LInv
  OBVIOUS
<1> USE LinkAssumption DEF Init, Threads, Writing, Closing
<1>1. ControlOK
  BY DEF ControlOK, MainPoints, HeartPoints, Ops
<1>2. ClientOK
  BY DEF ClientOK
<1>3. MutexInv
  BY DEF MutexInv
<1>4. SocketInv
  BY DEF SocketInv
<1>5. ThreadInv /\ TrustInv /\ BrokenInv
  BY DEF ThreadInv, TrustInv, BrokenInv
<1>6. SessionOK
  <2>1. registered \in BOOLEAN /\ stopping \in BOOLEAN
    OBVIOUS
  <2> QED
    BY <2>1 DEF SessionOK
<1> QED
  BY <1>1, <1>2, <1>3, <1>4, <1>5, <1>6 DEF LInv, TypeOK

(* A thread that goes on at one of its own points keeps the control's type. *)
LEMMA GotoTypes ==
  ASSUME ControlOK, NEW th \in Threads, NEW o \in Ops,
         NEW p \in IF th = "main" THEN MainPoints ELSE HeartPoints,
         Goto(th, p, o)
  PROVE  ControlOK'
BY DEF ControlOK, Goto, Threads

(* So does one that gets further in a call.                                *)
LEMMA CallTypes ==
  ASSUME ControlOK, NEW th \in Threads, NEW o \in Ops, Call(th, o)
  PROVE  ControlOK'
BY DEF ControlOK, Call

(* send_line.                                                              *)
LEMMA SendKeeps ==
  ASSUME LInv, NEW th \in Threads, SendLoads(th) \/ Write(th)
  PROVE  LInv'
<1> USE LinkAssumption
    DEF LInv, Threads, Writing, Closing, SendLoads, Write, WriteWhole,
        WritePart, WriteRest, WriteFails, alive, client, session, server
<1>1. TypeOK'
  <2>1. ControlOK'
    BY CallTypes DEF TypeOK, ControlOK, Ops
  <2>2. ClientOK'
    BY DEF TypeOK, ClientOK, SocketInv, MutexInv
  <2>3. SessionOK'
    <3>1. registered' \in BOOLEAN /\ stopping' \in BOOLEAN
      BY DEF TypeOK, SessionOK
    <3>2. buffer' \in Seq(Frames) /\ inbox' \in Seq(Frames)
      BY DEF TypeOK, SessionOK, Frames
    <3>3. /\ peer' \in {"open", "acked", "gone"}
          /\ wire' \in {"clean", "cut", "garbled"}
      BY DEF TypeOK, SessionOK
    <3> QED
      BY <3>1, <3>2, <3>3 DEF SessionOK
  <2> QED
    BY <2>1, <2>2, <2>3 DEF TypeOK
<1>2. MutexInv'
  BY DEF MutexInv, TypeOK, ControlOK, ClientOK, Call
<1>3. SocketInv'
  BY DEF SocketInv, TypeOK, ControlOK, ClientOK, MutexInv, Call
<1>4. ThreadInv'
  BY DEF ThreadInv, TypeOK, ControlOK, MutexInv, Call
<1>5. TrustInv'
  BY DEF TrustInv, TypeOK, SessionOK, Call
<1>6. BrokenInv'
  BY DEF BrokenInv, TypeOK, ControlOK, MutexInv, ThreadInv, Call
<1> QED
  BY <1>1, <1>2, <1>3, <1>4, <1>5, <1>6

(* close.                                                                  *)
LEMMA CloseKeeps ==
  ASSUME LInv, NEW th \in Threads, Close(th)
  PROVE  LInv'
<1> USE LinkAssumption
    DEF LInv, Threads, Writing, Closing, Close, CloseTakes, Shutdown,
        CloseFd, Closes, client, session, server
<1>1. TypeOK'
  <2>1. ControlOK'
    BY CallTypes DEF TypeOK, ControlOK, Ops
  <2>2. ClientOK'
    BY DEF TypeOK, ClientOK, SocketInv, MutexInv
  <2>3. SessionOK'
    <3>1. registered' \in BOOLEAN /\ stopping' \in BOOLEAN
      BY DEF TypeOK, SessionOK
    <3>2. buffer' \in Seq(Frames) /\ inbox' \in Seq(Frames)
      BY DEF TypeOK, SessionOK, Frames
    <3>3. /\ peer' \in {"open", "acked", "gone"}
          /\ wire' \in {"clean", "cut", "garbled"}
      BY DEF TypeOK, SessionOK
    <3> QED
      BY <3>1, <3>2, <3>3 DEF SessionOK
  <2> QED
    BY <2>1, <2>2, <2>3 DEF TypeOK
<1>2. MutexInv'
  BY DEF MutexInv, TypeOK, ControlOK, ClientOK, Call
<1>3. SocketInv'
  BY DEF SocketInv, TypeOK, ControlOK, ClientOK, MutexInv, Call
<1>4. ThreadInv'
  BY DEF ThreadInv, TypeOK, ControlOK, MutexInv, Call
<1>5. TrustInv'
  BY DEF TrustInv, TypeOK, SessionOK, Call
<1>6. BrokenInv'
  BY DEF BrokenInv, TypeOK, ControlOK, MutexInv, ThreadInv, Call
<1> QED
  BY <1>1, <1>2, <1>3, <1>4, <1>5, <1>6

(* A connection is made and given up.                                      *)
LEMMA ConnectKeeps ==
  ASSUME LInv,
         Connect \/ RegisterSent \/ RegisterFailed \/ Leave \/ Destroyed
  PROVE  LInv'
<1> USE LinkAssumption
    DEF LInv, Threads, Writing, Closing, Connect, NewClient, RegisterSent,
        RegisterFailed, Leave, Destroyed, Jump, client, session, server
<1>1. TypeOK'
  <2>1. ControlOK'
    BY GotoTypes DEF TypeOK, ControlOK, At, MainPoints, HeartPoints, Ops
  <2>2. ClientOK'
    BY DEF TypeOK, ClientOK, SocketInv, MutexInv
  <2>3. SessionOK'
    <3>1. registered' \in BOOLEAN /\ stopping' \in BOOLEAN
      BY DEF TypeOK, SessionOK
    <3>2. buffer' \in Seq(Frames) /\ inbox' \in Seq(Frames)
      <4>1. CASE Connect \/ Destroyed
        <5>1. \A s \in {buffer', inbox'} : s = <<>>
          BY <4>1
        <5> QED
          BY <5>1
      <4>2. CASE RegisterSent \/ RegisterFailed \/ Leave
        BY <4>2 DEF TypeOK, SessionOK
      <4> QED
        BY <4>1, <4>2
    <3>3. /\ peer' \in {"open", "acked", "gone"}
          /\ wire' \in {"clean", "cut", "garbled"}
      BY DEF TypeOK, SessionOK
    <3> QED
      BY <3>1, <3>2, <3>3 DEF SessionOK
  <2> QED
    BY <2>1, <2>2, <2>3 DEF TypeOK
<1>2. MutexInv'
  BY DEF MutexInv, TypeOK, ControlOK, ClientOK, At, Goto
<1>3. SocketInv'
  <2>1. CASE Connect
    <3>1. open = {} /\ \A th \in Threads : op[th] = "none"
      BY <2>1 DEF At, TypeOK, ControlOK, ClientOK, MutexInv, SocketInv, ThreadInv
    <3>2. lifecycle = NoThread
      BY <3>1 DEF TypeOK, ClientOK, MutexInv
    <3> QED
      BY <2>1, <3>1, <3>2 DEF At, Goto, SocketInv, TypeOK, ControlOK, ClientOK
  <2>2. CASE RegisterSent \/ RegisterFailed \/ Leave \/ Destroyed
    BY <2>2 DEF Goto, SocketInv, TypeOK, ControlOK
  <2> QED
    BY <2>1, <2>2
<1>4. ThreadInv'
  BY DEF ThreadInv, TypeOK, ControlOK, MutexInv, At, Goto
<1>5. TrustInv'
  BY DEF TrustInv, TypeOK, SessionOK, At, Goto
<1>6. BrokenInv'
  BY DEF BrokenInv, TypeOK, ControlOK, MutexInv, ThreadInv, At, Goto
<1> QED
  BY <1>1, <1>2, <1>3, <1>4, <1>5, <1>6

(* The receive loop and its handler.                                       *)
LEMMA ReceiveKeeps ==
  ASSUME LInv,
         \/ LoadFd \/ Receive \/ RecvEnds \/ HandleFrame \/ BufferEmpty
         \/ ReplySent \/ ReplyFailed \/ Dropped
  PROVE  LInv'
<1> USE LinkAssumption
    DEF LInv, Threads, Writing, Closing, LoadFd, Receive, RecvEnds,
        HandleFrame, BufferEmpty, ReplySent, ReplyFailed, Dropped, Jump,
        client, session, server
<1>1. TypeOK'
  <2>1. ControlOK'
    BY GotoTypes DEF TypeOK, ControlOK, At, MainPoints, HeartPoints, Ops
  <2>2. ClientOK'
    BY DEF TypeOK, ClientOK, SocketInv, MutexInv
  <2>3. SessionOK'
    <3>1. registered' \in BOOLEAN /\ stopping' \in BOOLEAN
      BY DEF TypeOK, SessionOK
    <3>2. buffer' \in Seq(Frames) /\ inbox' \in Seq(Frames)
      <4>1. CASE Receive
        <5>1. PICK n \in 1..Len(inbox) :
                /\ buffer' = SubSeq(inbox, 1, n)
                /\ inbox' = SubSeq(inbox, n + 1, Len(inbox))
          BY <4>1
        <5>2. inbox \in Seq(Frames) /\ Len(inbox) \in Nat
          BY DEF TypeOK, SessionOK
        <5>3. \A i \in 1..Len(inbox) : inbox[i] \in Frames
          BY <5>2
        <5> QED
          BY <5>1, <5>2, <5>3, SubSeqProperties
      <4>2. CASE HandleFrame
        <5>1. buffer \in Seq(Frames) /\ buffer # <<>>
          BY <4>2 DEF TypeOK, SessionOK
        <5>2. buffer' = Tail(buffer) /\ inbox' = inbox
          BY <4>2
        <5> QED
          BY <5>1, <5>2, HeadTailProperties DEF TypeOK, SessionOK
      <4>3. CASE UNCHANGED <<buffer, inbox>>
        BY <4>3 DEF TypeOK, SessionOK
      <4> QED
        BY <4>1, <4>2, <4>3
    <3>3. /\ peer' \in {"open", "acked", "gone"}
          /\ wire' \in {"clean", "cut", "garbled"}
      BY DEF TypeOK, SessionOK
    <3> QED
      BY <3>1, <3>2, <3>3 DEF SessionOK
  <2> QED
    BY <2>1, <2>2, <2>3 DEF TypeOK
<1>2. MutexInv'
  BY DEF MutexInv, TypeOK, ControlOK, ClientOK, At, Goto
<1>3. SocketInv'
  BY DEF SocketInv, TypeOK, ControlOK, ClientOK, MutexInv, At, Goto
<1>4. ThreadInv'
  BY DEF ThreadInv, TypeOK, ControlOK, MutexInv, At, Goto
<1>5. TrustInv'
  BY DEF TrustInv, TypeOK, SessionOK, At, Goto
<1>6. BrokenInv'
  BY DEF BrokenInv, TypeOK, ControlOK, MutexInv, ThreadInv, At, Goto
<1> QED
  BY <1>1, <1>2, <1>3, <1>4, <1>5, <1>6

(* cleanup, up to the join.                                                *)
LEMMA CleanupKeeps ==
  ASSUME LInv, LoopEnded \/ Stop \/ Notify \/ Join
  PROVE  LInv'
<1> USE LinkAssumption
    DEF LInv, Threads, Writing, Closing, LoopEnded, Stop, Notify, Join, Jump,
        client, session, server
<1>1. TypeOK'
  <2>1. ControlOK'
    BY GotoTypes DEF TypeOK, ControlOK, At, MainPoints, HeartPoints, Ops
  <2>2. ClientOK'
    BY DEF TypeOK, ClientOK, SocketInv, MutexInv
  <2>3. SessionOK'
    <3>1. registered' \in BOOLEAN /\ stopping' \in BOOLEAN
      BY DEF TypeOK, SessionOK
    <3>2. buffer' \in Seq(Frames) /\ inbox' \in Seq(Frames)
      BY DEF TypeOK, SessionOK, Frames
    <3>3. /\ peer' \in {"open", "acked", "gone"}
          /\ wire' \in {"clean", "cut", "garbled"}
      BY DEF TypeOK, SessionOK
    <3> QED
      BY <3>1, <3>2, <3>3 DEF SessionOK
  <2> QED
    BY <2>1, <2>2, <2>3 DEF TypeOK
<1>2. MutexInv'
  BY DEF MutexInv, TypeOK, ControlOK, ClientOK, At, Goto
<1>3. SocketInv'
  BY DEF SocketInv, TypeOK, ControlOK, ClientOK, MutexInv, At, Goto
<1>4. ThreadInv'
  BY DEF ThreadInv, TypeOK, ControlOK, MutexInv, At, Goto
<1>5. TrustInv'
  BY DEF TrustInv, TypeOK, SessionOK, At, Goto
<1>6. BrokenInv'
  BY DEF BrokenInv, TypeOK, ControlOK, MutexInv, ThreadInv, At, Goto
<1> QED
  BY <1>1, <1>2, <1>3, <1>4, <1>5, <1>6

(* The heartbeat thread.                                                   *)
LEMMA HeartKeeps ==
  ASSUME LInv, HeartStep \/ SpuriousWake
  PROVE  LInv'
<1> USE LinkAssumption
    DEF LInv, Threads, Writing, Closing, HeartStep, SpuriousWake, Test, Doze,
        Expire, Beat, BeatSent, BeatFailed, GaveUp, Jump, client, session,
        server
<1>1. TypeOK'
  <2>1. ControlOK'
    BY GotoTypes DEF TypeOK, ControlOK, At, MainPoints, HeartPoints, Ops
  <2>2. ClientOK'
    BY DEF TypeOK, ClientOK, SocketInv, MutexInv
  <2>3. SessionOK'
    <3>1. registered' \in BOOLEAN /\ stopping' \in BOOLEAN
      BY DEF TypeOK, SessionOK
    <3>2. buffer' \in Seq(Frames) /\ inbox' \in Seq(Frames)
      BY DEF TypeOK, SessionOK, Frames
    <3>3. /\ peer' \in {"open", "acked", "gone"}
          /\ wire' \in {"clean", "cut", "garbled"}
      BY DEF TypeOK, SessionOK
    <3> QED
      BY <3>1, <3>2, <3>3 DEF SessionOK
  <2> QED
    BY <2>1, <2>2, <2>3 DEF TypeOK
<1>2. MutexInv'
  BY DEF MutexInv, TypeOK, ControlOK, ClientOK, At, Goto
<1>3. SocketInv'
  BY DEF SocketInv, TypeOK, ControlOK, ClientOK, MutexInv, At, Goto
<1>4. ThreadInv'
  BY DEF ThreadInv, TypeOK, ControlOK, MutexInv, At, Goto
<1>5. TrustInv'
  BY DEF TrustInv, TypeOK, SessionOK, At, Goto
<1>6. BrokenInv'
  BY DEF BrokenInv, TypeOK, ControlOK, MutexInv, ThreadInv, At, Goto
<1> QED
  BY <1>1, <1>2, <1>3, <1>4, <1>5, <1>6

(* The server.                                                             *)
LEMMA PeerKeeps ==
  ASSUME LInv, PeerAcks \/ PeerSends \/ PeerLeaves
  PROVE  LInv'
<1> USE LinkAssumption
    DEF LInv, Threads, Writing, Closing, PeerAcks, PeerSends, PeerLeaves,
        client, session, server
<1>1. TypeOK'
  <2>1. ControlOK'
    BY DEF TypeOK, ControlOK
  <2>2. ClientOK'
    BY DEF TypeOK, ClientOK, SocketInv, MutexInv
  <2>3. SessionOK'
    <3>1. registered' \in BOOLEAN /\ stopping' \in BOOLEAN
      BY DEF TypeOK, SessionOK
    <3>2. buffer' \in Seq(Frames) /\ inbox' \in Seq(Frames)
      <4>1. buffer \in Seq(Frames) /\ inbox \in Seq(Frames)
        BY DEF TypeOK, SessionOK
      <4>2. \/ inbox' = inbox \/ \E f \in Frames : inbox' = Append(inbox, f)
        BY DEF Frames
      <4>3. buffer' = buffer
        OBVIOUS
      <4> QED
        BY ONLY <4>1, <4>2, <4>3
    <3>3. /\ peer' \in {"open", "acked", "gone"}
          /\ wire' \in {"clean", "cut", "garbled"}
      BY DEF TypeOK, SessionOK
    <3> QED
      BY <3>1, <3>2, <3>3 DEF SessionOK
  <2> QED
    BY <2>1, <2>2, <2>3 DEF TypeOK
<1>2. MutexInv'
  BY DEF MutexInv, TypeOK, ControlOK, ClientOK
<1>3. SocketInv'
  BY DEF SocketInv, TypeOK, ControlOK, ClientOK, MutexInv
<1>4. ThreadInv'
  BY DEF ThreadInv, TypeOK, ControlOK, MutexInv
<1>5. TrustInv'
  BY DEF TrustInv, TypeOK, SessionOK
<1>6. BrokenInv'
  BY DEF BrokenInv, TypeOK, ControlOK, MutexInv, ThreadInv
<1> QED
  BY <1>1, <1>2, <1>3, <1>4, <1>5, <1>6

(* A step that changes nothing.                                            *)
LEMMA StutterKeeps ==
  ASSUME LInv, UNCHANGED vars
  PROVE  LInv'
BY DEF LInv, TypeOK, ControlOK, ClientOK, SessionOK, MutexInv, SocketInv,
       ThreadInv, TrustInv, BrokenInv, vars, client, session, server

(* LInv is inductive: the mutexes, the descriptor and the two threads agree *)
(* in every reachable state of the service.                                *)
THEOREM Invariance == Spec => []LInv
<1>1. LInv /\ [Next]_vars => LInv'
  <2> SUFFICES ASSUME LInv, [Next]_vars PROVE LInv'
    OBVIOUS
  <2>1. CASE UNCHANGED vars
    BY <2>1, StutterKeeps
  <2>2. CASE \E th \in Threads : InCall(th)
    BY <2>2, SendKeeps, CloseKeeps DEF InCall
  <2>3. CASE MainStep
    BY <2>3, ConnectKeeps, ReceiveKeeps, CleanupKeeps DEF MainStep
  <2>4. CASE HeartStep \/ SpuriousWake
    BY <2>4, HeartKeeps
  <2>5. CASE PeerAcks \/ PeerSends \/ PeerLeaves
    BY <2>5, PeerKeeps
  <2> QED
    BY <2>1, <2>2, <2>3, <2>4, <2>5 DEF Next
<1> QED
  BY <1>1, InitHolds, PTL DEF Spec

(* Every variable keeps its type.                                          *)
THEOREM TypeCorrect == Spec => []TypeOK
BY Invariance, PTL DEF LInv

(* Neither thread uses a descriptor the other has closed, and none is      *)
(* closed twice.                                                           *)
THEOREM NoUseAfterClose == Spec => []SocketIsHeld
<1>1. LInv => SocketIsHeld
  <2> SUFFICES ASSUME LInv, NEW th \in Threads, op[th] \in Writing \cup Closing
               PROVE  used[th] \in open
    BY DEF SocketIsHeld
  <2>1. CASE op[th] \in Writing
    BY <2>1 DEF LInv, SocketInv
  <2>2. CASE op[th] \in Closing
    BY <2>2, LinkAssumption DEF LInv, MutexInv, SocketInv
  <2> QED
    BY <2>1, <2>2
<1> QED
  BY <1>1, Invariance, PTL

(* A connection leaves nothing behind: no descriptor, mutex or thread.     *)
THEOREM NothingLeftOver == Spec => []CleanSlate
<1>1. LInv => CleanSlate
  <2> SUFFICES ASSUME LInv, pc["main"] = "connect" PROVE CleanSlate
    BY DEF CleanSlate
  <2>1. /\ pc["heart"] = "none" /\ fd = NoFd
        /\ \A th \in Threads : op[th] = "none"
    BY DEF LInv, ThreadInv, Threads
  <2>2. sending = NoThread /\ lifecycle = NoThread
    BY <2>1 DEF LInv, TypeOK, ClientOK, MutexInv, Writing, Closing
  <2> QED
    BY <2>1, <2>2 DEF CleanSlate, LInv, SocketInv, Threads
<1> QED
  BY <1>1, Invariance, PTL

(* The registration flag is this connection's.                             *)
THEOREM RegisteredHere == Spec => []TrustsThisServer
<1>1. LInv => TrustsThisServer
  BY DEF LInv, TrustInv, TrustsThisServer
<1> QED
  BY <1>1, Invariance, PTL

(* After a broken frame one of the threads closes the connection.          *)
THEOREM BrokenFrameCloses == Spec => []BrokenFrameIsFatal
<1>1. LInv => BrokenFrameIsFatal
  BY DEF LInv, BrokenInv, BrokenFrameIsFatal
<1> QED
  BY <1>1, Invariance, PTL
=============================================================================
