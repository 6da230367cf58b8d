------------------------------- MODULE Options ------------------------------
(***************************************************************************)
(* From the command line to a session: ParseArguments with the range of    *)
(* groups it expands, OptionParser::Check, the look-up of the network      *)
(* interface in main, and the buffers that the constructor of the session  *)
(* allocates.                                                              *)
(*                                                                         *)
(* The numbers and addresses given are well formed; whatever is not ends   *)
(* the process before any of this.  --total_pkts and --seconds are stored  *)
(* without a check and are constants of RioSession.                        *)
(***************************************************************************)
EXTENDS AddressRange, BufferSpace

CONSTANTS
  Ports, Rates, Nics,   \* values given for --mcast_port, --pps and --nic
  PortMod,              \* 2^16 in the code: McastPort is a uint16_t
  MinPort, MaxPort,     \* 1024 and 49151
  MaxRate,              \* 1000000
  MinMcIp, MaxMcIp,     \* MIN_MC_IP and MAX_MC_IP
  Adapters,             \* indices of the interfaces that the system has
  NicMod,               \* 2^8 in the code: the index is passed on as a uint8_t
  ExpectedDataSize,     \* EXPECTED_DATA_SIZE
  AddrSize,             \* ADDR_SIZE
  MaxPendingRecvs       \* MAX_PENDING_RECVS

ASSUME OptionsAssumption ==
  /\ Ports \subseteq Int /\ Rates \subseteq Int
  /\ Nics \subseteq Nat /\ Adapters \subseteq Nat \ {0}
  /\ PortMod \in Nat \ {0} /\ NicMod \in Nat \ {0}
  /\ ExpectedDataSize \in Nat \ {0} /\ AddrSize \in Nat \ {0} /\ MaxPendingRecvs \in Nat \ {0}
  /\ MaxRate \in Nat /\ MinPort \in Nat /\ MaxPort \in Nat
  /\ MinMcIp \in Addresses /\ MaxMcIp \in Addresses /\ 0 < MinMcIp /\ MaxMcIp < Size - 1

VARIABLES
  asked,        \* what the user wrote
  pc,           \* how far main is
  current,      \* the iterator of ParseDestinations
  ip_vec,       \* McastAddrStr
  interface     \* IfIndex, after it was replaced

vars == <<asked, pc, current, ip_vec, interface>>

NoName == 0        \* --nic with an empty name
AnyInterface == 0  \* the address "0.0.0.0": no interface has index 0
Commands == {"producer", "consumer", "other"}
From == asked.from
Till == Ipv4Addr(CompleteIp(Str(From), asked.till))
McastPort == asked.port % PortMod

\* The till of a range may be given without its first octets.
TillTexts == UNION {[1 .. n -> OctetValues] : n \in 1 .. Octets}

Init ==
  /\ asked \in [command : Commands, from : Addresses, till : TillTexts,
                port : Ports, pps : Rates, nic : Nics]
  /\ pc = "range" /\ current = 0 /\ ip_vec = <<>> /\ interface = AnyInterface

\* MakeIpv4Range; nothing catches what checkRange throws.
MakeIpv4Range ==
  /\ pc = "range"
  /\ IF IsGreater(From, Till)
       THEN pc' = "terminated" /\ UNCHANGED current
       ELSE pc' = "expand" /\ current' = From
  /\ UNCHANGED <<asked, ip_vec, interface>>

\* for (const auto& ipv4 : ipv4Range)
PushBack ==
  /\ pc = "expand" /\ current # RangeEnd(Till)
  /\ ip_vec' = Append(ip_vec, current)
  /\ current' = Successor(current)
  /\ UNCHANGED <<asked, pc, interface>>

\* Faulty: the end is taken to be above till.
EndOfRangeAbove ==
  /\ pc = "expand" /\ current > Till /\ current = RangeEnd(Till)
  /\ pc' = "check"
  /\ UNCHANGED <<asked, current, ip_vec, interface>>

EndOfRange ==
  /\ pc = "expand" /\ current = RangeEnd(Till)
  /\ pc' = "check"
  /\ UNCHANGED <<asked, current, ip_vec, interface>>

\* isValidMulticastIp, and a variant that forgets all but the last address.
IsValidMulticastLast(ips) ==
  ips # <<>> => ips[Len(ips)] \in MinMcIp .. MaxMcIp
IsValidMulticastIp(ips) == \A i \in 1 .. Len(ips) : ips[i] \in MinMcIp .. MaxMcIp

\* OptionParser::Check
Acceptable ==
  /\ asked.command \in {"producer", "consumer"}
  /\ IsValidMulticastIp(ip_vec)
  /\ asked.nic # NoName
  /\ McastPort >= MinPort /\ McastPort <= MaxPort
  /\ asked.pps * Len(ip_vec) <= MaxRate /\ asked.pps >= 1

Check ==
  /\ pc = "check"
  /\ pc' = IF Acceptable THEN "locate" ELSE "rejected"
  /\ UNCHANGED <<asked, current, ip_vec, interface>>

\* ifIndex, the uint8_t that LocateAdapterWithIfName returns.
LocatedIndex(nic) == nic % NicMod

\* GetInterfaceIpAddress, which looks for the interface again.
InterfaceAt(index) == IF index \in Adapters THEN index ELSE AnyInterface

\* LocateAdapterWithIfName throws for an interface that does not exist.
LocateAdapter ==
  /\ pc = "locate"
  /\ IF asked.nic \in Adapters
       THEN pc' = "construct" /\ interface' = InterfaceAt(LocatedIndex(asked.nic))
       ELSE pc' = "rejected" /\ UNCHANGED interface
  /\ UNCHANGED <<asked, current, ip_vec>>

\* The two buffers of a session: for the packets and for the addresses.
Buffers ==
  IF asked.command = "consumer"
    THEN {<<ExpectedDataSize, MaxPendingRecvs>>, <<AddrSize, MaxPendingRecvs>>}
    ELSE {<<ExpectedDataSize, asked.pps>>, <<AddrSize, Len(ip_vec)>>}

\* The constructors of RioConsumer and RioProducer.
Construct ==
  /\ pc = "construct"
  /\ pc' = IF \A b \in Buffers : Allocates(b[1], b[2]) THEN "started" ELSE "failed"
  /\ UNCHANGED <<asked, current, ip_vec, interface>>

Next == MakeIpv4Range \/ PushBack \/ EndOfRange \/ Check \/ LocateAdapter \/ Construct

Spec == Init /\ [][Next]_vars

\* A sequential program that is scheduled.
FairSpec == Spec /\ WF_vars(Next)

-----------------------------------------------------------------------------
(* Properties *)

\* The expanded range is exactly the addresses from the first to the last, in
\* order; one that starts above its end goes round the whole address space, or
\* is empty when it starts right above its end (Range.hpp:24-56).
RangeExpanded ==
  pc \in {"check", "locate", "construct", "started"} =>
    /\ Len(ip_vec) = (Till + 1 - From) % Size
    /\ \A i \in 1 .. Len(ip_vec) : ip_vec[i] = (From + i - 1) % Size

\* Although the order of addresses is compared wrongly, a range that is written
\* the wrong way round never becomes a session for groups: expanded, it holds
\* an address that is not a multicast one (Range.hpp:60, args.cpp:142).
WrongOrderNeverStarts == pc = "started" /\ ip_vec # <<>> => From <= Till

\* A session that starts has memory for all that its descriptors refer to, also
\* when the size does not fit into 32 bits; and a producer has a group, although
\* nothing checks their number and with none it would wait for ever: no memory can
\* be allocated for the addresses of none (RioSession.cpp:95-119, :138,
\* RioProducer.cpp:20, :118).
SessionHasRoom == pc = "started" => \A b \in Buffers : HasRoom(b[1], b[2])

\* The documented form, a range of the last octet, is refused exactly when it
\* is written the wrong way round (README.md:84, Range.hpp:60, :109-117).
LastOctetRanges ==
  Len(asked.till) = 1 /\ pc # "range" => (pc = "terminated" <=> From > Till)

\* The expansion of a range ends, whatever the range is (Range.hpp:24-30, :55).
StartsOrEnds == <>(pc \in {"started", "rejected", "terminated", "failed"})

\* "A range is an iterable with limits: "from" & "till", and from <= till"
\* (Range.hpp:11): no range is made that starts above its end.
FromNotAboveTill == pc = "expand" => From <= Till
=============================================================================
