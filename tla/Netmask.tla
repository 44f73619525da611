------------------------------ MODULE Netmask ------------------------------
(***************************************************************************)
(* The two loops that turn the prefix length of an ONVIF network interface *)
(* into the netmask iconfig keeps, and back: PrefixLength2Netmask for      *)
(* SetNetworkInterfaces, Netmask2PrefixLength for GetNetworkInterfaces.    *)
(*                                                                         *)
(* An address is its bits, bit Width - 1 the most significant (htonl and   *)
(* ntohl cancel out; the dotted form in between names the same bits, and   *)
(* text that inet_aton refuses is NoMask, as is a missing netmask).        *)
(* The code's width is 32.                                                 *)
(***************************************************************************)
EXTENDS Integers

CONSTANTS Width,      \* bits in an address
          MaxPrefix,  \* bound: the largest prefix length asked for
          NoMask      \* no netmask, or not one

Bits  == 0..(Width - 1)
Masks == [Bits -> BOOLEAN]

ASSUME WidthAssumption == Width \in Nat \ {0}
ASSUME MaxPrefixAssumption == MaxPrefix \in Nat
ASSUME NoMaskAssumption == NoMask \notin Masks

VARIABLES
  pc,           \* "set", "shift", "get", "count" or "reported"
  asked,        \* the prefix length of SetNetworkInterfaces, or -1: none yet
  prefix_len,   \* PrefixLength2Netmask: the argument, clamped
  i,            \* and its loop counter
  mask,         \* and the mask it builds
  stored,       \* iconfig: the netmask
  probe,        \* Netmask2PrefixLength: the place of the bit in its mask
  bits_of_one   \* and its result

vars == <<pc, asked, prefix_len, i, mask, stored, probe, bits_of_one>>

AllZero == [b \in Bits |-> FALSE]

-----------------------------------------------------------------------------
\* iconfig starts with any netmask, of this daemon's making or not.
Init ==
  /\ pc = "set"
  /\ asked = -1
  /\ prefix_len = 0
  /\ i = 0
  /\ mask = AllZero
  /\ stored \in Masks \cup {NoMask}
  /\ probe = 0
  /\ bits_of_one = 0

\* Mutant: a prefix length past the width is cut one bit too early.
SetPrefix_cut_early ==
  /\ pc = "set"
  /\ \E p \in 0..MaxPrefix :
       /\ asked' = p
       /\ prefix_len' = IF p >= Width THEN Width - 1 ELSE p
  /\ i' = Width - 1
  /\ mask' = AllZero
  /\ pc' = "shift"
  /\ UNCHANGED <<stored, probe, bits_of_one>>

\* SetNetworkInterfaces converts the prefix length a client gave.  The client's
\* is an int and the argument an unsigned int, so that a negative one is huge.
SetPrefix ==
  /\ pc = "set"
  /\ \E p \in 0..MaxPrefix :
       /\ asked' = p
       /\ prefix_len' = IF p > Width THEN Width ELSE p
  /\ i' = Width - 1
  /\ mask' = AllZero
  /\ pc' = "shift"
  /\ UNCHANGED <<stored, probe, bits_of_one>>

\* Mutant: the loop also shifts in the bit below the prefix.
ShiftIn_one_more ==
  /\ pc = "shift"
  /\ i >= Width - prefix_len - 1
  /\ i >= 0
  /\ mask' = [mask EXCEPT ![i] = TRUE]
  /\ i' = i - 1
  /\ UNCHANGED <<pc, asked, prefix_len, stored, probe, bits_of_one>>

ShiftIn ==
  /\ pc = "shift"
  /\ i >= Width - prefix_len
  /\ mask' = [mask EXCEPT ![i] = TRUE]
  /\ i' = i - 1
  /\ UNCHANGED <<pc, asked, prefix_len, stored, probe, bits_of_one>>

\* The loop ends and iconfig stores the netmask.
Store ==
  /\ pc = "shift"
  /\ i < Width - prefix_len
  /\ stored' = mask
  /\ pc' = "get"
  /\ UNCHANGED <<asked, prefix_len, i, mask, probe, bits_of_one>>

\* GetNetworkInterfaces converts the netmask in iconfig's answer.
GetPrefix ==
  /\ pc \in {"set", "get"}
  /\ bits_of_one' = 0
  /\ probe' = Width - 1
  /\ pc' = IF stored = NoMask THEN "reported" ELSE "count"
  /\ UNCHANGED <<asked, prefix_len, i, mask, stored>>

\* Mutant: the loop does not end when the probe is shifted out of bit 0.
CountOne_past_the_end ==
  /\ pc = "count"
  /\ stored[probe]
  /\ bits_of_one' = bits_of_one + 1
  /\ probe' = probe - 1
  /\ UNCHANGED <<pc, asked, prefix_len, i, mask, stored>>

\* Mutant: the probe is not shifted.
CountOne_not_shifting ==
  /\ pc = "count"
  /\ stored[probe]
  /\ bits_of_one' = IF bits_of_one < Width THEN bits_of_one + 1 ELSE Width
  /\ UNCHANGED <<pc, asked, prefix_len, i, mask, stored, probe>>

\* A one under the probe: count it, and shift the probe, which becomes 0 and
\* ends the loop when it is shifted out of bit 0.
CountOne ==
  /\ pc = "count"
  /\ stored[probe]
  /\ bits_of_one' = bits_of_one + 1
  /\ probe' = probe - 1
  /\ pc' = IF probe = 0 THEN "reported" ELSE "count"
  /\ UNCHANGED <<asked, prefix_len, i, mask, stored>>

\* Mutant: every one is counted, not only those before the first zero.
StopAtZero_going_on ==
  /\ pc = "count"
  /\ ~stored[probe]
  /\ probe' = probe - 1
  /\ pc' = IF probe = 0 THEN "reported" ELSE "count"
  /\ UNCHANGED <<asked, prefix_len, i, mask, stored, bits_of_one>>

StopAtZero ==
  /\ pc = "count"
  /\ ~stored[probe]
  /\ pc' = "reported"
  /\ UNCHANGED <<asked, prefix_len, i, mask, stored, probe, bits_of_one>>

Next ==
  SetPrefix \/ ShiftIn \/ Store \/ GetPrefix \/ CountOne \/ StopAtZero

Spec == Init /\ [][Next]_vars

\* A conversion that has started runs on: it is a loop of the SOAP thread.
FairSpec == Spec /\ WF_vars(ShiftIn \/ Store) /\ WF_vars(CountOne \/ StopAtZero)

-----------------------------------------------------------------------------
\* Variables have their types, and the loops index bits of the address.
TypeOK ==
  /\ pc \in {"set", "shift", "get", "count", "reported"}
  /\ asked \in {-1} \cup 0..MaxPrefix
  /\ prefix_len \in 0..Width
  /\ i \in -1..(Width - 1)
  /\ mask \in Masks
  /\ stored \in Masks \cup {NoMask}
  /\ probe \in -1..(Width - 1)
  /\ bits_of_one \in 0..Width
  /\ pc = "count" => stored \in Masks /\ probe \in Bits

\* m starts with exactly n ones: n ones at the top, and then a zero or nothing.
LeadingOnes(m, n) ==
  /\ n \in 0..Width
  /\ \A b \in Bits : b >= Width - n => m[b]
  /\ n < Width => ~m[Width - 1 - n]

\* What is reported of a netmask, contiguous or not, is the number of ones it
\* starts with, and 0 if it is not a netmask.
ReportsLeadingOnes ==
  pc = "reported" =>
    IF stored = NoMask THEN bits_of_one = 0 ELSE LeadingOnes(stored, bits_of_one)

\* What PrefixLength2Netmask made is a netmask: ones, and then zeros.
StoresContiguous ==
  pc = "get" => \A b \in Bits : stored[b] <=> b >= Width - prefix_len

\* A client that sets a prefix length is reported the same one, cut to the
\* width of an address.
RoundTrip ==
  pc = "reported" /\ asked # -1 =>
    bits_of_one = IF asked > Width THEN Width ELSE asked

\* Both loops end: at prefix length 0 and Width too, where the shift runs out
\* of the word.
ConversionsEnd == pc \in {"shift", "count"} ~> pc \in {"get", "reported"}
=============================================================================
