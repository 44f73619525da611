--------------------------- MODULE Netmask_proofs ---------------------------
(***************************************************************************)
(* The two netmask conversions are right for every width of address and    *)
(* every prefix length; 32, the width of the code, is one instance.        *)
(***************************************************************************)
EXTENDS Netmask, TLAPS

-----------------------------------------------------------------------------
(***************************************************************************)
(* The inductive invariant.                                                *)
(***************************************************************************)

Clamped(p) == IF p > Width THEN Width ELSE p

\* m is a netmask of n ones and then zeros.
Contiguous(m, n) ==
  m \in Masks /\ \A b \in Bits : m[b] <=> b >= Width - n

\* PrefixLength2Netmask: the ones shifted in so far are those above i.
ShiftInv ==
  pc = "shift" =>
    /\ i >= Width - prefix_len - 1
    /\ \A b \in Bits : mask[b] <=> b > i

\* Netmask2PrefixLength: the bits counted so far are ones, those above probe.
CountInv ==
  pc \in {"count", "reported"} =>
    IF stored = NoMask THEN bits_of_one = 0
    ELSE /\ probe = Width - 1 - bits_of_one
         /\ \A b \in Bits : b > probe => stored[b]
         /\ pc = "reported" /\ probe \in Bits => ~stored[probe]

\* From the request on: the argument is the clamped request, and what iconfig
\* stores is its netmask.
RequestInv ==
  /\ pc = "set" => asked = -1
  /\ pc \in {"shift", "get"} => asked # -1
  /\ asked # -1 => asked \in Nat /\ prefix_len = Clamped(asked)
  /\ asked # -1 /\ pc \in {"get", "count", "reported"} => Contiguous(stored, prefix_len)

IInv == TypeOK /\ ShiftInv /\ CountInv /\ RequestInv

-----------------------------------------------------------------------------
\* A mask has one count of leading ones, and a contiguous one has its length.
LEMMA ContiguousLength ==
  ASSUME NEW m, NEW n \in 0..Width, NEW k, Contiguous(m, n), LeadingOnes(m, k)
  PROVE  k = n
  <1> USE WidthAssumption DEF Contiguous, LeadingOnes, Bits
  <1>1. k \in 0..Width
    OBVIOUS
  <1>2. CASE k < n
    <2>1. Width - 1 - k \in Bits /\ Width - 1 - k >= Width - n
      BY <1>1, <1>2
    <2> QED
      BY <1>1, <1>2, <2>1
  <1>3. CASE n < k
    <2>1. Width - 1 - n \in Bits /\ Width - 1 - n >= Width - k
      BY <1>1, <1>3
    <2>2. ~(Width - 1 - n >= Width - n)
      BY <1>1, <1>3
    <2> QED
      BY <2>1, <2>2
  <1> QED
    BY <1>1, <1>2, <1>3

LEMMA IInvInit == Init => IInv
  BY WidthAssumption, MaxPrefixAssumption
  DEF Init, IInv, TypeOK, ShiftInv, CountInv, RequestInv, Masks, Bits, AllZero

LEMMA IInvStep == IInv /\ [Next]_vars => IInv'
  <1> SUFFICES ASSUME IInv, [Next]_vars PROVE IInv'
    OBVIOUS
  <1> USE WidthAssumption, MaxPrefixAssumption, NoMaskAssumption
      DEF IInv, TypeOK, Bits
  <1>1. CASE SetPrefix
    <2>1. mask' \in Masks /\ \A b \in Bits : ~mask'[b]
      BY <1>1 DEF SetPrefix, Masks, AllZero
    <2> QED
      BY <1>1, <2>1 DEF SetPrefix, ShiftInv, CountInv, RequestInv, Clamped
  <1>2. CASE ShiftIn
    <2>1. i \in Bits /\ mask' \in Masks
      BY <1>2 DEF ShiftIn, Masks
    <2>2. \A b \in Bits : mask'[b] <=> b > i - 1
      BY <1>2, <2>1 DEF ShiftIn, ShiftInv, Masks
    <2> QED
      BY <1>2, <2>1, <2>2 DEF ShiftIn, ShiftInv, CountInv, RequestInv
  <1>3. CASE Store
    <2>1. i = Width - prefix_len - 1
      BY <1>3 DEF Store, ShiftInv
    <2>2. Contiguous(mask, prefix_len)
      BY <1>3, <2>1 DEF Store, ShiftInv, Contiguous
    <2> QED
      BY <1>3, <2>2 DEF Store, ShiftInv, CountInv, RequestInv, Contiguous
  <1>4. CASE GetPrefix
    BY <1>4 DEF GetPrefix, ShiftInv, CountInv, RequestInv, Contiguous
  <1>5. CASE CountOne
    <2>1. probe \in Bits /\ stored \in Masks /\ stored # NoMask
      BY <1>5 DEF CountOne
    <2>2. TypeOK'
      BY <1>5, <2>1 DEF CountOne, CountInv
    <2>3. CountInv'
      BY <1>5, <2>1 DEF CountOne, CountInv
    <2> QED
      BY <1>5, <2>2, <2>3 DEF CountOne, ShiftInv, RequestInv, Contiguous
  <1>6. CASE StopAtZero
    BY <1>6 DEF StopAtZero, ShiftInv, CountInv, RequestInv, Contiguous
  <1>7. CASE UNCHANGED vars
    BY <1>7 DEF vars, ShiftInv, CountInv, RequestInv, Contiguous
  <1> QED
    BY <1>1, <1>2, <1>3, <1>4, <1>5, <1>6, <1>7 DEF Next

\* The inductive invariant, types included, holds of every run.
THEOREM Inductive == Spec => []IInv
  BY IInvInit, IInvStep, PTL DEF Spec

\* Every variable has its type, so that the loops index bits of the address.
THEOREM TypeCorrect == Spec => []TypeOK
  <1>1. IInv => TypeOK
    BY DEF IInv
  <1> QED
    BY <1>1, Inductive, PTL

\* What is reported of any netmask is the number of ones it starts with.
THEOREM ReportIsRight == Spec => []ReportsLeadingOnes
  <1>1. IInv => ReportsLeadingOnes
    BY WidthAssumption, NoMaskAssumption
    DEF IInv, TypeOK, CountInv, ReportsLeadingOnes, LeadingOnes, Bits
  <1> QED
    BY <1>1, Inductive, PTL

\* What is stored for a prefix length is a netmask.
THEOREM StoreIsRight == Spec => []StoresContiguous
  <1>1. IInv => StoresContiguous
    BY DEF IInv, RequestInv, Contiguous, StoresContiguous
  <1> QED
    BY <1>1, Inductive, PTL

\* The prefix length a client set is the one reported.
THEOREM RoundTripHolds == Spec => []RoundTrip
  <1>1. ASSUME IInv, pc = "reported", asked # -1
        PROVE  bits_of_one = Clamped(asked)
    <2>1. Contiguous(stored, prefix_len) /\ prefix_len = Clamped(asked)
      BY <1>1 DEF IInv, RequestInv
    <2>2. stored # NoMask /\ prefix_len \in 0..Width
      BY <1>1, <2>1, NoMaskAssumption DEF IInv, TypeOK, Contiguous
    <2>3. LeadingOnes(stored, bits_of_one)
      BY <1>1, <2>2, WidthAssumption
      DEF IInv, TypeOK, CountInv, LeadingOnes, Bits
    <2> QED
      BY <2>1, <2>2, <2>3, ContiguousLength
  <1>2. IInv => RoundTrip
    BY <1>1 DEF RoundTrip, Clamped
  <1> QED
    BY <1>2, Inductive, PTL

-----------------------------------------------------------------------------
(***************************************************************************)
(* Both loops end.  What the provers cannot see is when a step is ENABLED, *)
(* so that is the theorem's hypothesis: a loop that runs can go on.  The   *)
(* argument counts steps, doubling what is known of them.                  *)
(***************************************************************************)
CanGoOn ==
  /\ pc = "shift" => ENABLED <<ShiftIn \/ Store>>_vars
  /\ pc = "count" => ENABLED <<CountOne \/ StopAtZero>>_vars

Ended == pc \in {"get", "reported"}

\* A loop runs that has passed at least n bits.
Shifting(n) == pc = "shift" /\ Width - 1 - i >= n
Counting(n) == pc = "count" /\ Width - 1 - probe >= n
Passed(n) == Shifting(n) \/ Counting(n)

Reach(n, m) == FairSpec /\ []CanGoOn => (Passed(n) ~> (Ended \/ Passed(m)))
Leap(d) == \A n \in Nat : Reach(n, n + d)

\* One bit.
LEMMA OneBit == Leap(1)
  <1> SUFFICES ASSUME NEW n \in Nat PROVE Reach(n, n + 1)
    BY DEF Leap
  <1> USE WidthAssumption
  <1>1. FairSpec /\ []CanGoOn => (Shifting(n) ~> (Ended \/ Passed(n + 1)))
    <2>1. TypeOK /\ Shifting(n) /\ (ShiftIn \/ Store) => (Ended \/ Passed(n + 1))'
      BY DEF TypeOK, Shifting, ShiftIn, Store, Ended, Passed, Bits
    <2>2. TypeOK /\ Shifting(n) /\ [Next]_vars =>
            Shifting(n)' \/ (Ended \/ Passed(n + 1))'
      BY <2>1 DEF Shifting, Next, SetPrefix, GetPrefix, CountOne, StopAtZero, vars
    <2>3. Shifting(n) => pc = "shift"
      BY DEF Shifting
    <2> QED
      BY <2>1, <2>2, <2>3, TypeCorrect, PTL DEF FairSpec, Spec, CanGoOn
  <1>2. FairSpec /\ []CanGoOn => (Counting(n) ~> (Ended \/ Passed(n + 1)))
    <2>1. TypeOK /\ Counting(n) /\ (CountOne \/ StopAtZero) => (Ended \/ Passed(n + 1))'
      BY DEF TypeOK, Counting, CountOne, StopAtZero, Ended, Passed, Bits
    <2>2. TypeOK /\ Counting(n) /\ [Next]_vars =>
            Counting(n)' \/ (Ended \/ Passed(n + 1))'
      BY <2>1 DEF Counting, Next, SetPrefix, GetPrefix, ShiftIn, Store, vars
    <2>3. Counting(n) => pc = "count"
      BY DEF Counting
    <2> QED
      BY <2>1, <2>2, <2>3, TypeCorrect, PTL DEF FairSpec, Spec, CanGoOn
  <1>3. Passed(n) => Shifting(n) \/ Counting(n)
    BY DEF Passed
  <1> QED
    BY <1>1, <1>2, <1>3, PTL DEF Reach

\* Twice as many.
LEMMA TwiceAsFar ==
  ASSUME NEW d \in Nat, Leap(d) PROVE Leap(2 * d)
  <1> SUFFICES ASSUME NEW n \in Nat PROVE Reach(n, n + 2 * d)
    BY DEF Leap
  <1>1. Reach(n, n + d)
    BY DEF Leap
  <1>2. Reach(n + d, (n + d) + d)
    BY DEF Leap
  <1>3. Reach(n + d, n + 2 * d)
    BY <1>2
  <1> QED
    BY <1>1, <1>3, PTL DEF Reach

LEMMA SixteenTimesAsFar ==
  ASSUME NEW d \in Nat, Leap(d) PROVE Leap(16 * d)
  <1>1. Leap(2 * d)
    BY TwiceAsFar
  <1>2. Leap(2 * (2 * d))
    BY <1>1, TwiceAsFar
  <1>3. Leap(2 * (2 * (2 * d)))
    BY <1>2, TwiceAsFar
  <1>4. Leap(2 * (2 * (2 * (2 * d))))
    BY <1>3, TwiceAsFar
  <1> QED
    BY <1>4

\* A loop passes each bit once, so that it ends for every width an address can
\* have, and many more (the code's is 32).
THEOREM LoopsEnd ==
  ASSUME Width < 65536
  PROVE  FairSpec /\ []CanGoOn => ConversionsEnd
  <1>1. Leap(16 * 1)
    BY OneBit, SixteenTimesAsFar
  <1>2. Leap(16 * 16)
    BY <1>1, SixteenTimesAsFar
  <1>3. Leap(16 * 256)
    BY <1>2, SixteenTimesAsFar
  <1>4. Leap(16 * 4096)
    BY <1>3, SixteenTimesAsFar
  <1>5. Reach(0, 0 + 16 * 4096)
    BY <1>4 DEF Leap
  <1>6. Reach(0, 65536)
    BY <1>5
  <1>7. TypeOK => ~Passed(65536)
    BY WidthAssumption DEF TypeOK, Passed, Shifting, Counting
  <1>8. TypeOK /\ pc \in {"shift", "count"} => Passed(0)
    BY WidthAssumption DEF TypeOK, Passed, Shifting, Counting
  <1>9. Ended <=> pc \in {"get", "reported"}
    BY DEF Ended
  <1> QED
    BY <1>6, <1>7, <1>8, <1>9, TypeCorrect, PTL DEF Reach, FairSpec, ConversionsEnd
=============================================================================
