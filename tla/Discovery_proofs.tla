-------------------------- MODULE Discovery_proofs --------------------------
(***************************************************************************)
(* A match is of the probe it answers, for any addresses, ports and        *)
(* hardware addresses and however often they change meanwhile.             *)
(***************************************************************************)
EXTENDS Discovery, TLAPS

Defaults == [ip |-> Loopback, port |-> Port80, mac |-> ZeroMac]

\* While a probe is under way, the history has what iconfig holds now.
DuringInv ==
  pc # "idle" => <<conf.ip, conf.port>> \in duringNet /\ conf.mac \in duringMac

\* What the probe has found so far is of this probe, or a default.
FoundInv ==
  /\ pc = "network" => param = Defaults /\ answers = {}
  /\ pc = "mac" => param.mac = ZeroMac /\ "mac" \notin answers
  /\ pc \in {"mac", "match"} => \E n \in duringNet : <<param.ip, param.port>> = Told(n)
  /\ pc = "match" => IF "mac" \in answers THEN param.mac \in duringMac
                     ELSE param.mac = ZeroMac

IInv == TypeOK /\ DuringInv /\ FoundInv /\ MatchIsOfThisProbe

\* The URL leads to the address and the port it is made of, port 80 included.
LEMMA UrlLeads ==
  ASSUME NEW ip, NEW port, NEW m,
         m.xaddrs = IF port = Port80 THEN <<ip>> ELSE <<ip, port>>
  PROVE  Connects(m) = <<ip, port>>
<1>1. CASE port = Port80
  <2>1. m.xaddrs = <<ip>>
    BY <1>1
  <2>2. Len(<<ip>>) # 2 /\ <<ip>>[1] = ip
    OBVIOUS
  <2> QED
    BY <1>1, <2>1, <2>2 DEF Connects
<1>2. CASE port # Port80
  <2>1. m.xaddrs = <<ip, port>>
    BY <1>2
  <2>2. Len(<<ip, port>>) = 2 /\ <<ip, port>>[1] = ip /\ <<ip, port>>[2] = port
    OBVIOUS
  <2> QED
    BY <2>1, <2>2 DEF Connects
<1> QED
  BY <1>1, <1>2

\* The first call.
LEMMA GetNetworkStep ==
  ASSUME IInv, GetNetwork PROVE IInv'
<1>1. PICK members \in SUBSET {"port", "address"} :
        /\ param' = [param EXCEPT
             !.port = IF "port" \in members THEN conf.port ELSE @,
             !.ip = IF "address" \in members THEN conf.ip ELSE @]
        /\ answers' = answers \cup members
  BY DEF GetNetwork
<1>2. pc = "network" /\ pc' = "mac" /\ UNCHANGED <<conf, match, duringNet, duringMac>>
  BY DEF GetNetwork
<1>3. param = Defaults /\ answers = {} /\ <<conf.ip, conf.port>> \in duringNet
  BY <1>2 DEF IInv, FoundInv, DuringInv
<1>4. conf \in Configs /\ param \in [ip : IpAddrs \cup {Loopback}, port : Ports,
                                     mac : Macs \cup {ZeroMac}]
  BY DEF IInv, TypeOK
<1>5. /\ param'.port = IF "port" \in members THEN conf.port ELSE param.port
      /\ param'.ip = IF "address" \in members THEN conf.ip ELSE param.ip
      /\ param'.mac = param.mac
      /\ param' \in [ip : IpAddrs \cup {Loopback}, port : Ports, mac : Macs \cup {ZeroMac}]
  BY <1>1, <1>4 DEF Configs
<1>6. TypeOK'
  BY <1>1, <1>2, <1>5 DEF IInv, TypeOK
<1>7. param'.mac = ZeroMac
  BY <1>3, <1>5 DEF Defaults
<1>8. "mac" \notin answers'
  BY <1>1, <1>3
<1>9. <<param'.ip, param'.port>> = Told(<<conf.ip, conf.port>>)'
  <2>1. param'.port = IF "port" \in answers' THEN conf.port ELSE Port80
    BY <1>1, <1>3, <1>5 DEF Defaults
  <2>2. param'.ip = IF "address" \in answers' THEN conf.ip ELSE Loopback
    BY <1>1, <1>3, <1>5 DEF Defaults
  <2> QED
    BY <1>2, <2>1, <2>2 DEF Told
<1>10. FoundInv'
  BY <1>2, <1>3, <1>7, <1>8, <1>9 DEF FoundInv
<1> QED
  BY <1>2, <1>6, <1>10 DEF IInv, DuringInv, MatchIsOfThisProbe

\* The second call.
LEMMA GetHwaddrStep ==
  ASSUME IInv, GetHwaddr PROVE IInv'
<1>1. /\ pc = "mac" /\ pc' = "match" /\ UNCHANGED <<conf, match, duringNet, duringMac>>
      /\ \/ param' = [param EXCEPT !.mac = conf.mac] /\ answers' = answers \cup {"mac"}
         \/ UNCHANGED <<param, answers>>
  BY DEF GetHwaddr
<1>2. conf \in Configs /\ param \in [ip : IpAddrs \cup {Loopback}, port : Ports,
                                     mac : Macs \cup {ZeroMac}]
  BY DEF IInv, TypeOK
<1>3. CASE param' = [param EXCEPT !.mac = conf.mac] /\ answers' = answers \cup {"mac"}
  <2>1. /\ param'.mac = conf.mac /\ param'.ip = param.ip /\ param'.port = param.port
        /\ param' \in [ip : IpAddrs \cup {Loopback}, port : Ports, mac : Macs \cup {ZeroMac}]
    BY <1>2, <1>3 DEF Configs
  <2>2. TypeOK'
    BY <1>1, <1>3, <2>1 DEF IInv, TypeOK
  <2>3. /\ "mac" \in answers'
        /\ "port" \in answers' <=> "port" \in answers
        /\ "address" \in answers' <=> "address" \in answers
    BY <1>3
  <2>4. \E n \in duringNet' : <<param'.ip, param'.port>> = Told(n)'
    BY <1>1, <2>1, <2>3 DEF IInv, FoundInv, Told
  <2>5. FoundInv'
    BY <1>1, <2>1, <2>3, <2>4 DEF IInv, DuringInv, FoundInv
  <2> QED
    BY <1>1, <2>2, <2>5 DEF IInv, DuringInv, MatchIsOfThisProbe
<1>4. CASE UNCHANGED <<param, answers>>
  <2>1. TypeOK'
    BY <1>1, <1>4 DEF IInv, TypeOK
  <2> QED
    BY <1>1, <1>4, <2>1 DEF IInv, DuringInv, FoundInv, MatchIsOfThisProbe, Told
<1> QED
  BY <1>1, <1>3, <1>4

\* A match is announced when it has been made of the parameters.
LEMMA MatchMade ==
  ASSUME TypeOK, AddMatch PROVE match' \in Matches
<1>1. match' = [xaddrs |-> IF param.port = Port80 THEN <<param.ip>>
                           ELSE <<param.ip, param.port>>,
                ep_ref |-> param.mac]
  BY DEF AddMatch
<1>2. param \in [ip : IpAddrs \cup {Loopback}, port : Ports, mac : Macs \cup {ZeroMac}]
  BY DEF TypeOK
<1>3. CASE param.port = Port80
  BY <1>1, <1>2, <1>3 DEF Matches
<1>4. CASE param.port # Port80
  BY <1>1, <1>2, <1>4 DEF Matches
<1> QED
  BY <1>3, <1>4

\* The match.
LEMMA AddMatchStep ==
  ASSUME IInv, AddMatch PROVE IInv'
<1>1. /\ pc = "match" /\ pc' = "idle"
      /\ match' = [xaddrs |-> IF param.port = Port80 THEN <<param.ip>>
                              ELSE <<param.ip, param.port>>,
                   ep_ref |-> param.mac]
      /\ UNCHANGED <<param, conf, duringNet, duringMac, answers>>
  BY DEF AddMatch
<1>2. param \in [ip : IpAddrs \cup {Loopback}, port : Ports, mac : Macs \cup {ZeroMac}]
  BY DEF IInv, TypeOK
<1>3. match' \in Matches
  BY MatchMade DEF IInv
<1>4. match'.ep_ref = param.mac /\ param.mac \in Macs \cup {ZeroMac}
  BY <1>1, <1>2
<1>5. TypeOK'
  BY <1>1, <1>3 DEF IInv, TypeOK
<1>6. match'.xaddrs = IF param.port = Port80 THEN <<param.ip>>
                      ELSE <<param.ip, param.port>>
  BY <1>1
<1>7. Connects(match') = <<param.ip, param.port>>
  BY <1>6, UrlLeads
<1>8. Connects(match)' = Connects(match')
  BY DEF Connects
<1>9. \E n \in duringNet : <<param.ip, param.port>> = Told(n)
  BY <1>1 DEF IInv, FoundInv
<1>10. \E n \in duringNet' : Connects(match)' = Told(n)'
  BY <1>1, <1>7, <1>8, <1>9 DEF Told
<1>11. IF "mac" \in answers THEN param.mac \in duringMac ELSE param.mac = ZeroMac
  BY <1>1 DEF IInv, FoundInv
<1>12. MatchIsOfThisProbe'
  BY <1>1, <1>4, <1>10, <1>11 DEF MatchIsOfThisProbe
<1> QED
  BY <1>1, <1>5, <1>12 DEF IInv, DuringInv, FoundInv

\* Every state is typed, and what a probe has found is of that probe.
THEOREM Inductive == Spec => []IInv
<1> USE Port80Assumption
<1>1. Init => IInv
  BY DEF Init, IInv, TypeOK, DuringInv, FoundInv, MatchIsOfThisProbe, Configs
<1>2. IInv /\ [Next]_vars => IInv'
  <2> SUFFICES ASSUME IInv, [Next]_vars PROVE IInv'
    OBVIOUS
  <2>1. CASE Probe
    <3>1. TypeOK'
      BY <2>1 DEF Probe, IInv, TypeOK, Configs
    <3> QED
      BY <2>1, <3>1 DEF Probe, IInv, DuringInv, FoundInv, MatchIsOfThisProbe, Defaults
  <2>2. CASE GetNetwork
    BY <2>2, GetNetworkStep
  <2>3. CASE GetHwaddr
    BY <2>3, GetHwaddrStep
  <2>4. CASE AddMatch
    BY <2>4, AddMatchStep
  <2>5. CASE OthersChange
    <3>1. /\ conf' \in Configs /\ UNCHANGED <<pc, param, match, answers>>
          /\ pc = "idle" => UNCHANGED <<duringNet, duringMac>>
          /\ pc # "idle" =>
               /\ duringNet' = duringNet \cup {<<conf'.ip, conf'.port>>}
               /\ duringMac' = duringMac \cup {conf'.mac}
      BY <2>5 DEF OthersChange
    <3>2. duringNet' \subseteq IpAddrs \X Ports /\ duringMac' \subseteq Macs
      BY <3>1 DEF IInv, TypeOK, Configs
    <3>3. TypeOK'
      BY <3>1, <3>2 DEF IInv, TypeOK
    <3>4. DuringInv' /\ FoundInv'
      BY <3>1 DEF IInv, DuringInv, FoundInv, Told
    <3>5. MatchIsOfThisProbe'
      BY <3>1 DEF IInv, MatchIsOfThisProbe, Connects, Told
    <3> QED
      BY <3>3, <3>4, <3>5 DEF IInv
  <2>6. CASE UNCHANGED vars
    BY <2>6 DEF vars, IInv, TypeOK, DuringInv, FoundInv, MatchIsOfThisProbe, Connects, Told
  <2> QED
    BY <2>1, <2>2, <2>3, <2>4, <2>5, <2>6 DEF Next
<1> QED
  BY <1>1, <1>2, PTL DEF Spec

\* Every variable has its type.
THEOREM TypeCorrect == Spec => []TypeOK
BY Inductive, PTL DEF IInv

\* A match has nothing of an earlier probe, nor a call that failed spoils what
\* the other one found: address, port and hardware address are what this probe
\* was told of each, or the default.
THEOREM MatchIsFresh == Spec => []MatchIsOfThisProbe
BY Inductive, PTL DEF IInv

-----------------------------------------------------------------------------
(***************************************************************************)
(* Every probe is answered.  What the provers cannot see is when a step is *)
(* ENABLED, so that is the theorem's hypothesis: a probe that has begun    *)
(* can always go on.                                                       *)
(***************************************************************************)
CanGoOn == pc # "idle" => ENABLED <<GetNetwork \/ GetHwaddr \/ AddMatch>>_vars

\* From the defaults to the match, one step after the other: nothing else that
\* happens, changes of the settings included, takes the probe back.
THEOREM ProbesAreMatched == FairSpec /\ []CanGoOn => EveryProbeMatched
<1> DEFINE Step == GetNetwork \/ GetHwaddr \/ AddMatch
           Matched == pc = "idle" /\ match # NoMatch
<1>1. FairSpec /\ []CanGoOn => (pc = "network" ~> pc = "mac")
  <2>1. pc = "network" /\ [Next]_vars => (pc = "network")' \/ (pc = "mac")'
    BY DEF Next, Probe, GetNetwork, GetHwaddr, AddMatch, OthersChange, vars
  <2>2. pc = "network" /\ <<Step>>_vars => (pc = "mac")'
    BY DEF GetNetwork, GetHwaddr, AddMatch
  <2>3. pc = "network" => pc # "idle"
    OBVIOUS
  <2> QED
    BY <2>1, <2>2, <2>3, PTL DEF Spec, FairSpec, CanGoOn
<1>2. FairSpec /\ []CanGoOn => (pc = "mac" ~> pc = "match")
  <2>1. pc = "mac" /\ [Next]_vars => (pc = "mac")' \/ (pc = "match")'
    BY DEF Next, Probe, GetNetwork, GetHwaddr, AddMatch, OthersChange, vars
  <2>2. pc = "mac" /\ <<Step>>_vars => (pc = "match")'
    BY DEF GetNetwork, GetHwaddr, AddMatch
  <2>3. pc = "mac" => pc # "idle"
    OBVIOUS
  <2> QED
    BY <2>1, <2>2, <2>3, PTL DEF Spec, FairSpec, CanGoOn
<1>3. FairSpec /\ []CanGoOn => (pc = "match" ~> Matched)
  <2>1. TypeOK /\ AddMatch => Matched'
    BY MatchMade, NoMatchAssumption DEF AddMatch
  <2>2. TypeOK /\ pc = "match" /\ [Next]_vars => (pc = "match")' \/ Matched'
    BY <2>1 DEF Next, Probe, GetNetwork, GetHwaddr, OthersChange, vars
  <2>3. TypeOK /\ pc = "match" /\ <<Step>>_vars => Matched'
    BY <2>1 DEF GetNetwork, GetHwaddr
  <2>4. pc = "match" => pc # "idle"
    OBVIOUS
  <2> QED
    BY <2>2, <2>3, <2>4, TypeCorrect, PTL DEF Spec, FairSpec, CanGoOn
<1> QED
  BY <1>1, <1>2, <1>3, PTL DEF EveryProbeMatched
=============================================================================
