---------------------------- MODULE AddressRange ----------------------------
(***************************************************************************)
(* IPv4 addresses and ranges of them (Ipv4Addr_t, Range, MakeIpv4Range).   *)
(* An address is its value in host order; the program keeps it in network  *)
(* order, which on the little-endian machines it is built for is the       *)
(* number with the octets reversed.                                        *)
(***************************************************************************)
EXTENDS Integers, Sequences

CONSTANTS
  Octets,     \* 4 in the code
  OctetBase   \* 256 in the code

ASSUME AddressAssumption == Octets \in Nat \ {0} /\ OctetBase \in Nat \ {0, 1}

\* The weights of the octets: the powers of the base, from 1 on.
Weight[k \in 0 .. Octets] == IF k = 0 THEN 1 ELSE Weight[k - 1] * OctetBase

Size == Weight[Octets]
Addresses == 0 .. Size - 1
OctetValues == 0 .. OctetBase - 1

\* The octets of an address, as they are written from left to right.
Str(a) == [i \in 1 .. Octets |-> (a \div Weight[Octets - i]) % OctetBase]

\* The address that this text stands for.
Ipv4Addr(text) ==
  LET upTo[k \in 0 .. Octets] == IF k = 0 THEN 0 ELSE upTo[k - 1] * OctetBase + text[k]
  IN  upTo[Octets]

\* ip_be: the leftmost octet has the lowest address, so the lowest weight.
NetOrder(a) == Ipv4Addr([i \in 1 .. Octets |-> Str(a)[Octets + 1 - i]])

\* operator>, and a variant that refuses equal addresses too.
IsNotLess(a, b) == NetOrder(a) >= NetOrder(b)
IsGreater(a, b) == NetOrder(a) > NetOrder(b)

\* operator+, which adds 1 whatever its argument is.
Successor(a) == (a + 1) % Size

\* completeIp: a text of fewer octets is completed on the left with those of `from`.
CompleteIp(from, till) == SubSeq(from, 1, Octets - Len(till)) \o till

\* Range::end, and a variant that leaves out the last address.
RangeEndAtTill(till) == till
RangeEnd(till) == Successor(till)
=============================================================================
