----------------------------- MODULE BufferSpace -----------------------------
(***************************************************************************)
(* The sizes of the registered buffers: RioSession::AllocateBufferSpace,   *)
(* computed partly in 32 and partly in 64 bits.                            *)
(***************************************************************************)
EXTENDS Integers, FiniteSetsExt

CONSTANTS
  DwordMod,     \* 2^32: a DWORD is smaller
  Granularity   \* dwAllocationGranularity of the system

ASSUME BufferAssumption ==
  /\ DwordMod \in Nat \ {0}
  /\ Granularity \in Nat \ {0} /\ Granularity < DwordMod

RoundDown(value, multiple) == (value \div multiple) * multiple

\* The variant adds a multiple to a value that is one already.
RoundUpAlways(value, multiple) == RoundDown(value, multiple) + multiple
RoundUp(value, multiple) ==
  RoundDown(value, multiple) + (IF value % multiple > 0 THEN multiple ELSE 0)

\* The product of two DWORDs is a DWORD, whatever it is assigned to.
DesiredSize(messageSize, totalMessages) == (messageSize * totalMessages) % DwordMod

\* As much as a DWORD can say, if it is more than that.
ActualSize(messageSize, totalMessages) ==
  LET rounded == RoundUp(DesiredSize(messageSize, totalMessages), Granularity)
  IN  IF rounded < DwordMod THEN rounded ELSE RoundDown(DwordMod - 1, Granularity)

\* The number of messages there is room for; the variant trusts the request.
BuffersRequested(messageSize, totalMessages) == totalMessages
BuffersAllocated(messageSize, totalMessages) ==
  Min({totalMessages, ActualSize(messageSize, totalMessages) \div messageSize})

\* AllocateAndRegisterBuffer returns: VirtualAlloc refuses to give nothing, and a
\* buffer that is too small ends the process.
Allocates(messageSize, totalMessages) ==
  /\ ActualSize(messageSize, totalMessages) > 0
  /\ BuffersAllocated(messageSize, totalMessages) = totalMessages

\* Every message has its place in the buffer.
HasRoom(messageSize, totalMessages) ==
  totalMessages > 0 /\ messageSize * totalMessages <= ActualSize(messageSize, totalMessages)
=============================================================================
