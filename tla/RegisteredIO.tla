---------------------------- MODULE RegisteredIO ----------------------------
(***************************************************************************)
(* The part of Windows Registered I/O (RIO) that the program calls: one    *)
(* request queue, one completion queue and the I/O completion port that    *)
(* the completion queue signals.  RIO is not part of the repository: every *)
(* operator here is the behaviour the calling code relies on.              *)
(*                                                                         *)
(*  - requests of a UDP socket complete in the order they were posted;     *)
(*  - a request occupies its place in the request queue until its          *)
(*    completion has been dequeued;                                        *)
(*  - RIONotify arms ONE notification.  It fires with the next completion, *)
(*    or at once when the completion queue is not empty, and a firing      *)
(*    queues one packet on the completion port.  Arming what is armed is   *)
(*    an error (WSAEALREADY).                                              *)
(*                                                                         *)
(* RIO_CORRUPT_CQ is not modelled: the queue has one user, and it uses it  *)
(* from one thread.                                                        *)
(***************************************************************************)
EXTENDS Naturals, Sequences

VARIABLES
  requestQueue,     \* requests posted and not completed, oldest first
  completionQueue,  \* completions not dequeued, oldest first
  armed,            \* a RIONotify is pending
  iocp              \* packets queued on the I/O completion port

rioVars == <<requestQueue, completionQueue, armed, iocp>>

RioInit ==
  /\ requestQueue = <<>>
  /\ completionQueue = <<>>
  /\ armed = FALSE
  /\ iocp = 0

\* Places of the request queue in use.
Outstanding == Len(requestQueue) + Len(completionQueue)

\* RIOReceiveEx / RIOSendEx when the request queue has room.
PostRequest(request) ==
  /\ requestQueue' = Append(requestQueue, request)
  /\ UNCHANGED <<completionQueue, armed, iocp>>

\* The oldest request completes; a pending notification fires.
CompleteRequest(completion) ==
  /\ requestQueue # <<>>
  /\ requestQueue' = Tail(requestQueue)
  /\ completionQueue' = Append(completionQueue, completion)
  /\ armed' = FALSE
  /\ iocp' = IF armed THEN iocp + 1 ELSE iocp

\* RIONotify when none is pending.
RIONotify ==
  /\ ~armed
  /\ IF completionQueue = <<>>
       THEN armed' = TRUE /\ UNCHANGED iocp
       ELSE iocp' = iocp + 1 /\ UNCHANGED armed
  /\ UNCHANGED <<requestQueue, completionQueue>>

\* GetQueuedCompletionStatus that returns a packet.
TakeNotification ==
  /\ iocp > 0
  /\ iocp' = iocp - 1
  /\ UNCHANGED <<requestQueue, completionQueue, armed>>

\* RIODequeueCompletion into an array of max entries returns these ...
Dequeued(max) ==
  SubSeq(completionQueue, 1,
         IF Len(completionQueue) < max THEN Len(completionQueue) ELSE max)

\* ... and leaves the others.
RIODequeueCompletion(max) ==
  /\ completionQueue' = SubSeq(completionQueue, Len(Dequeued(max)) + 1, Len(completionQueue))
  /\ UNCHANGED <<requestQueue, armed, iocp>>
=============================================================================
