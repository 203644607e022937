----------------------------- MODULE MotionLink -----------------------------
(***************************************************************************)
(* The motion service (C++) at the level of its two threads: the main       *)
(* thread connects, registers, receives and answers; the heartbeat thread   *)
(* of serve_connection sends heartbeats.  They share a TcpClient, that is   *)
(* a descriptor and two mutexes, and the registration flag of the           *)
(* connection's MotionProcessor.                                            *)
(*                                                                          *)
(* One action is one access to what the threads share.  send_line and close *)
(* are called by both; a caller waits at its pc while op tells how far the  *)
(* call has got, and for send_line how it ended.                            *)
(***************************************************************************)
EXTENDS Naturals, Sequences

CONSTANTS Fds,        \* descriptors the kernel hands out, again and again
          NoFd,       \* INVALID_FD
          NoThread,
          MaxInbox    \* bound on the frames of the server under way

Threads == {"main", "heart"}

ASSUME LinkAssumption == /\ Fds # {} /\ NoFd \notin Fds
                         /\ NoThread \notin Threads
                         /\ MaxInbox \in Nat \ {0}

VARIABLES
  pc,          \* where each thread stands
  op,          \* how far its send_line or close is
  used,        \* the descriptor it has loaded
  fd,          \* m_socket_fd
  sending,     \* owner of m_send_mutex
  lifecycle,   \* owner of m_lifecycle_mutex
  open,        \* descriptors open in the kernel
  down,        \* those shut down
  registered,  \* m_registered of the connection's processor
  stopping,
  buffer,      \* m_recv_buffer: frames received and not handled
  inbox,       \* frames of the server not received
  peer,        \* the server: "open", "acked" the register, or "gone" (its
               \* FIN or a reset has arrived)
  wire         \* ghost: the line the server is reading

client  == <<used, fd, sending, lifecycle, open, down>>
session == <<registered, stopping, buffer>>
server  == <<inbox, peer>>
vars    == <<pc, op, client, session, server, wire>>

MainPoints  == {"connect", "register", "leave", "load", "recv", "handle", "reply",
                "drop", "ended", "cleanup", "notify", "join", "destroy"}
HeartPoints == {"none", "test", "dozing", "asleep", "beat", "beaten", "giveup",
                "over"}
Writing == {"write", "midway"}    \* holds m_send_mutex
Closing == {"shut", "await"}      \* holds m_lifecycle_mutex
Ops     == {"none", "send", "ok", "failed", "close"} \cup Writing \cup Closing
Frames  == {"ack", "command", "notice"}

ControlOK ==
  /\ pc \in [Threads -> MainPoints \cup HeartPoints]
  /\ pc["main"] \in MainPoints /\ pc["heart"] \in HeartPoints
  /\ op \in [Threads -> Ops]

ClientOK ==
  /\ used \in [Threads -> Fds \cup {NoFd}] /\ fd \in Fds \cup {NoFd}
  /\ sending \in Threads \cup {NoThread} /\ lifecycle \in Threads \cup {NoThread}
  /\ open \in SUBSET Fds /\ down \in SUBSET Fds

SessionOK ==
  /\ registered \in BOOLEAN /\ stopping \in BOOLEAN
  /\ buffer \in Seq(Frames) /\ inbox \in Seq(Frames)
  /\ peer \in {"open", "acked", "gone"}
  /\ wire \in {"clean", "cut", "garbled"}

TypeOK == ControlOK /\ ClientOK /\ SessionOK

Init ==
  /\ pc = [th \in Threads |-> IF th = "main" THEN "connect" ELSE "none"]
  /\ op = [th \in Threads |-> "none"]
  /\ used = [th \in Threads |-> NoFd] /\ fd = NoFd
  /\ sending = NoThread /\ lifecycle = NoThread
  /\ open = {} /\ down = {}
  /\ registered = FALSE /\ stopping = FALSE /\ buffer = <<>>
  /\ inbox = <<>> /\ peer = "gone" /\ wire = "clean"

(* The thread goes on at p, in a call of send_line or close if o says so.   *)
Goto(th, p, o) == pc' = [pc EXCEPT ![th] = p] /\ op' = [op EXCEPT ![th] = o]

Call(th, o) == op' = [op EXCEPT ![th] = o] /\ UNCHANGED pc

At(th, p, o) == pc[th] = p /\ op[th] = o

(* A step from p, where the call has ended with o, to q, where c is called. *)
Jump(th, p, o, q, c) ==
  /\ At(th, p, o) /\ Goto(th, q, c)
  /\ UNCHANGED <<client, session, server, wire>>

(* Definitions named ..._M are mutants: the definition that follows with a  *)
(* plausible bug.  No action uses them; they test the properties.           *)
-----------------------------------------------------------------------------
(* send_line and close                                                      *)

(* m_send_mutex is taken and m_socket_fd loaded; a closed client fails.     *)
SendLoads(th) ==
  /\ op[th] = "send" /\ sending = NoThread
  /\ IF fd = NoFd THEN Call(th, "failed") /\ UNCHANGED <<used, sending>>
     ELSE /\ Call(th, "write")
          /\ sending' = th /\ used' = [used EXCEPT ![th] = fd]
  /\ UNCHANGED <<fd, lifecycle, open, down, session, server, wire>>

alive(f) == f \in open \ down

(* ::send takes the whole frame at once, a part of it, or later the rest.   *)
WriteWhole(th) ==
  /\ op[th] = "write" /\ alive(used[th])
  /\ Call(th, "ok") /\ sending' = NoThread
  /\ wire' = IF wire = "clean" THEN "clean" ELSE "garbled"
  /\ UNCHANGED <<used, fd, lifecycle, open, down, session, server>>

WritePart(th) ==
  /\ op[th] = "write" /\ alive(used[th])
  /\ Call(th, "midway")
  /\ wire' = IF wire = "clean" THEN "cut" ELSE "garbled"
  /\ UNCHANGED <<client, session, server>>

WriteRest(th) ==
  /\ op[th] = "midway" /\ alive(used[th])
  /\ Call(th, "ok") /\ sending' = NoThread
  /\ wire' = IF wire = "cut" THEN "clean" ELSE wire
  /\ UNCHANGED <<used, fd, lifecycle, open, down, session, server>>

(* ::send fails: SO_SNDTIMEO has expired, or the connection is down.        *)
WriteFails(th) ==
  /\ op[th] \in Writing
  /\ Call(th, "failed") /\ sending' = NoThread
  /\ UNCHANGED <<used, fd, lifecycle, open, down, session, server, wire>>

(* m_lifecycle_mutex is taken and m_socket_fd exchanged.                    *)
CloseTakes(th) ==
  /\ op[th] = "close" /\ lifecycle = NoThread
  /\ IF fd = NoFd THEN Call(th, "none") /\ UNCHANGED <<used, lifecycle>>
     ELSE /\ Call(th, "shut")
          /\ lifecycle' = th /\ used' = [used EXCEPT ![th] = fd]
  /\ fd' = NoFd
  /\ UNCHANGED <<sending, open, down, session, server, wire>>

(* shutdown(fd) wakes whoever sends or receives.                            *)
Shutdown(th) ==
  /\ op[th] = "shut"
  /\ Call(th, "await") /\ down' = down \cup {used[th]}
  /\ UNCHANGED <<used, fd, sending, lifecycle, open, session, server, wire>>

Closes(th) ==
  /\ op[th] = "await"
  /\ Call(th, "none") /\ lifecycle' = NoThread
  /\ open' = open \ {used[th]} /\ down' = down \ {used[th]}
  /\ UNCHANGED <<used, fd, sending, session, server, wire>>

CloseFd_M(th) == Closes(th)

(* With m_send_mutex too, the descriptor is closed.                         *)
CloseFd(th) == sending = NoThread /\ Closes(th)
-----------------------------------------------------------------------------
(* The main thread                                                          *)

(* What connect does; the heartbeat thread does not exist yet.              *)
NewClient ==
  /\ At("main", "connect", "none") /\ Goto("main", "register", "send")
  /\ \E f \in Fds \ open : open' = open \cup {f} /\ fd' = f
  /\ peer' = "open" /\ inbox' = <<>> /\ wire' = "clean"
  /\ stopping' = FALSE /\ buffer' = <<>>
  /\ UNCHANGED <<used, sending, lifecycle, down>>

Connect_M == NewClient /\ UNCHANGED registered

(* A new TcpClient connects; serve_connection makes a new processor and     *)
(* sends its register.                                                      *)
Connect == NewClient /\ registered' = FALSE

(* The heartbeat thread is started.                                         *)
RegisterSent ==
  /\ At("main", "register", "ok")
  /\ pc' = [pc EXCEPT !["main"] = "load", !["heart"] = "test"]
  /\ op' = [op EXCEPT !["main"] = "none"]
  /\ UNCHANGED <<client, session, server, wire>>

RegisterFailed == Jump("main", "register", "failed", "leave", "close")

(* run_receive_loop ends, and calls close(), when there is no descriptor.   *)
LoadFd ==
  /\ At("main", "load", "none")
  /\ used' = [used EXCEPT !["main"] = fd]
  /\ IF fd = NoFd THEN Goto("main", "ended", "close")
                  ELSE Goto("main", "recv", "none")
  /\ UNCHANGED <<fd, sending, lifecycle, open, down, session, server, wire>>

(* ::recv returns some of the frames that have arrived.                     *)
Receive ==
  /\ At("main", "recv", "none") /\ Goto("main", "handle", "none")
  /\ used["main"] \in open
  /\ \E n \in 1..Len(inbox) :
       /\ buffer' = SubSeq(inbox, 1, n)
       /\ inbox' = SubSeq(inbox, n + 1, Len(inbox))
  /\ UNCHANGED <<client, registered, stopping, peer, wire>>

(* ::recv fails, or reports the end of the connection.                      *)
RecvEnds ==
  /\ ~alive(used["main"]) \/ peer = "gone"
  /\ Jump("main", "recv", "none", "ended", "close")

(* handle_line of every frame in the buffer, whether closed meanwhile or    *)
(* not; a command is answered, with a plan or an error.                     *)
HandleFrame ==
  /\ At("main", "handle", "none") /\ buffer # <<>>
  /\ buffer' = Tail(buffer)
  /\ registered' = (registered \/ Head(buffer) = "ack")
  /\ IF Head(buffer) = "command" THEN Goto("main", "reply", "send")
                                 ELSE UNCHANGED <<pc, op>>
  /\ UNCHANGED <<client, stopping, server, wire>>

BufferEmpty == buffer = <<>> /\ Jump("main", "handle", "none", "load", "none")

ReplySent == Jump("main", "reply", "ok", "handle", "none")

ReplyFailed_M == Jump("main", "reply", "failed", "handle", "none")

(* The handler closes the client and returns to the receive loop.           *)
ReplyFailed == Jump("main", "reply", "failed", "drop", "close")

Dropped == Jump("main", "drop", "none", "handle", "none")

(* cleanup: close(), stopping, notify_all(), join(); then ~TcpClient.       *)
LoopEnded == Jump("main", "ended", "none", "cleanup", "close")

Stop ==
  /\ At("main", "cleanup", "none") /\ Goto("main", "notify", "none")
  /\ stopping' = TRUE
  /\ UNCHANGED <<client, registered, buffer, server, wire>>

(* Only a thread that already sleeps is woken.                              *)
Notify ==
  /\ At("main", "notify", "none")
  /\ pc' = [pc EXCEPT !["main"] = "join",
                      !["heart"] = IF @ = "asleep" THEN "test" ELSE @]
  /\ UNCHANGED <<op, client, session, server, wire>>

Join_M == Jump("main", "join", "none", "destroy", "close")

Join ==
  /\ At("main", "join", "none") /\ pc["heart"] = "over"
  /\ pc' = [pc EXCEPT !["main"] = "destroy", !["heart"] = "none"]
  /\ op' = [op EXCEPT !["main"] = "close"]
  /\ UNCHANGED <<client, session, server, wire>>

Leave == Jump("main", "leave", "none", "destroy", "close")

Destroyed ==
  /\ At("main", "destroy", "none") /\ Goto("main", "connect", "none")
  /\ inbox' = <<>> /\ buffer' = <<>> /\ peer' = "gone"
  /\ UNCHANGED <<client, registered, stopping, wire>>
-----------------------------------------------------------------------------
(* The heartbeat thread                                                     *)

(* The predicate of wait_for; stopping is set without wait_mutex, so that   *)
(* a notify may come between the test and the sleep.                        *)
Test ==
  Jump("heart", "test", "none", IF stopping THEN "over" ELSE "dozing", "none")

Doze == Jump("heart", "dozing", "none", "asleep", "none")

SpuriousWake == Jump("heart", "asleep", "none", "test", "none")

Expire_M == FALSE    \* wait() in place of wait_for()

(* wait_for has waited for three seconds.                                   *)
Expire ==
  Jump("heart", "asleep", "none", IF stopping THEN "over" ELSE "beat", "none")

Beat_M == Jump("heart", "beat", "none", "beaten", "send")

(* A heartbeat, or the end of a connection that is not registered by now.   *)
Beat == IF registered THEN Jump("heart", "beat", "none", "beaten", "send")
                      ELSE Jump("heart", "beat", "none", "giveup", "close")

BeatSent == Jump("heart", "beaten", "ok", "test", "none")

BeatFailed == Jump("heart", "beaten", "failed", "giveup", "close")

GaveUp == Jump("heart", "giveup", "none", "over", "none")
-----------------------------------------------------------------------------
(* The server, once it has the register                                     *)

PeerAcks ==
  /\ peer = "open" /\ pc["heart"] # "none" /\ Len(inbox) < MaxInbox
  /\ peer' = "acked" /\ inbox' = Append(inbox, "ack")
  /\ UNCHANGED <<pc, op, client, session, wire>>

PeerSends ==
  /\ peer = "acked" /\ Len(inbox) < MaxInbox
  /\ \E f \in {"command", "notice"} : inbox' = Append(inbox, f)
  /\ UNCHANGED <<pc, op, client, session, peer, wire>>

PeerLeaves ==
  /\ peer # "gone"
  /\ peer' = "gone"
  /\ UNCHANGED <<pc, op, client, session, inbox, wire>>
-----------------------------------------------------------------------------
Write(th) == WriteWhole(th) \/ WritePart(th) \/ WriteRest(th) \/ WriteFails(th)

Close(th) == CloseTakes(th) \/ Shutdown(th) \/ CloseFd(th)

InCall(th) == SendLoads(th) \/ Write(th) \/ Close(th)

MainStep == \/ Connect \/ RegisterSent \/ RegisterFailed \/ LoadFd \/ Receive
            \/ RecvEnds \/ HandleFrame \/ BufferEmpty \/ ReplySent \/ ReplyFailed
            \/ Dropped \/ LoopEnded \/ Stop \/ Notify \/ Join \/ Leave \/ Destroyed

HeartStep == Test \/ Doze \/ Expire \/ Beat \/ BeatSent \/ BeatFailed \/ GaveUp

Next == \/ \E th \in Threads : InCall(th)
        \/ MainStep
        \/ HeartStep \/ SpuriousWake
        \/ PeerAcks \/ PeerSends \/ PeerLeaves

Spec == Init /\ [][Next]_vars

(* Both threads run, the timer of wait_for fires, ::send ends (SO_SNDTIMEO  *)
(* is three seconds), and a mutex the other thread leaves free for seconds  *)
(* at a time is obtained in the end.  A spurious wake does not move the     *)
(* deadline of wait_for.  Nothing is assumed of the server.                 *)
Fairness ==
  /\ WF_vars(MainStep) /\ WF_vars(HeartStep) /\ SF_vars(Expire)
  /\ \A th \in Threads : /\ SF_vars(SendLoads(th)) /\ WF_vars(Write(th))
                         /\ WF_vars(Close(th))

FairSpec == Spec /\ Fairness
-----------------------------------------------------------------------------
(* Properties                                                               *)

(* No thread sends on a descriptor that is closed, nor shuts down or closes *)
(* one twice: close() of one thread waits for the other's frame, and only   *)
(* one close() gets the descriptor.                                         *)
SocketIsHeld ==
  \A th \in Threads : op[th] \in Writing \cup Closing => used[th] \in open

(* Whatever ended a connection, and whichever thread noticed, before the    *)
(* next one no descriptor is open, no mutex held, and no thread left over.  *)
CleanSlate ==
  pc["main"] = "connect" => /\ open = {} /\ fd = NoFd
                            /\ sending = NoThread /\ lifecycle = NoThread
                            /\ pc["heart"] = "none" /\ op["heart"] = "none"

(* The flag that permits heartbeats and plans was set by this connection's  *)
(* server, never by an earlier one.                                         *)
TrustsThisServer == registered /\ pc["main"] # "connect" => peer # "open"

(* A frame that broke off ends the connection: nobody goes on as if the     *)
(* server could still read what follows.                                    *)
BrokenFrameIsFatal ==
  wire # "clean" =>
    fd = NoFd \/ \E th \in Threads : op[th] \in {"midway", "failed", "close"}

(* When the server has gone, the service comes to connect again: no order   *)
(* of two closing threads, a sender and a lost notify keeps it for ever.    *)
LossIsNoticed == (peer = "gone") ~> (pc["main"] = "connect")

(* A connection the server never acknowledges is given up.                  *)
SilenceIsDropped ==
  (pc["heart"] # "none" /\ ~registered) ~> (registered \/ pc["main"] = "connect")

-----------------------------------------------------------------------------
(* The inductive invariant behind the safety properties                     *)

(* A mutex is held exactly inside the part of a call that it protects.      *)
MutexInv ==
  \A th \in Threads : /\ sending = th <=> op[th] \in Writing
                      /\ lifecycle = th <=> op[th] \in Closing

(* At most one descriptor is open: m_socket_fd, or that of the running close. *)
SocketInv ==
  /\ open = IF lifecycle = NoThread THEN {fd} \ {NoFd} ELSE {used[lifecycle]}
  /\ lifecycle # NoThread => fd = NoFd
  /\ \A th \in Threads : op[th] \in Writing => used[th] \in open

(* Where a thread can be in a call, and when there are two threads.         *)
ThreadInv ==
  /\ pc["main"] \in {"connect", "register", "leave", "destroy"}
       => pc["heart"] = "none"
  /\ op["heart"] # "none" => pc["heart"] \in {"beaten", "giveup"}
  /\ pc["main"] = "connect" => op["main"] = "none" /\ fd = NoFd
  /\ pc["main"] = "destroy" =>
       /\ op["main"] \in {"none", "close"} \cup Closing
       /\ op["main"] # "close" => fd = NoFd

(* Until the server acknowledges it has sent nothing that could register.   *)
TrustInv ==
  peer = "open" => ~registered /\ inbox = <<>> /\ buffer = <<>>

(* Whoever broke a frame off is still to close, unless it can finish it.    *)
BrokenInv ==
  wire # "clean" =>
    \/ fd = NoFd
    \/ \E th \in Threads : \/ op[th] \in {"failed", "close"}
                           \/ wire = "cut" /\ op[th] = "midway"

LInv == TypeOK /\ MutexInv /\ SocketInv /\ ThreadInv /\ TrustInv /\ BrokenInv
=============================================================================
