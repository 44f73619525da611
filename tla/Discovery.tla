----------------------------- MODULE Discovery -----------------------------
(***************************************************************************)
(* wsdd_event_Probe, how the discovery daemon answers a WS-Discovery probe.*)
(* It fills the network parameters with defaults, asks iconfig for the     *)
(* addresses (get_network) and then for the hardware address               *)
(* (get_base_info), waiting up to 5 seconds for each, and announces one    *)
(* match made of whatever it has then: where the services are (XAddrs) and *)
(* which device this is (EndpointReference).                               *)
(*                                                                         *)
(* Outside the repository: iconfig, whose settings others change at any    *)
(* time; a call takes effect at one instant or is not answered (Rpc).  The *)
(* daemon handles one probe at a time.                                     *)
(***************************************************************************)
EXTENDS Sequences

CONSTANTS IpAddrs, Ports, Macs,  \* what iconfig's settings hold
          Loopback,              \* 127.0.0.1
          Port80,                \* the default port
          ZeroMac,               \* 00:00:00:00:00:00
          NoMatch                \* no probe has been answered yet

ASSUME ZeroMacAssumption == ZeroMac \notin Macs
ASSUME LoopbackAssumption == Loopback \notin IpAddrs
ASSUME Port80Assumption == Port80 \in Ports

\* A match: the address, and the port unless it is 80; and the reference.
Matches == [xaddrs : {<<i>> : i \in IpAddrs \cup {Loopback}}
                       \cup ((IpAddrs \cup {Loopback}) \X (Ports \ {Port80})),
            ep_ref : Macs \cup {ZeroMac}]
ASSUME NoMatchAssumption == NoMatch \notin Matches

VARIABLES
  pc,       \* "idle", "network", "mac" or "match": the next step of the probe
  param,    \* struct NetworkParameters
  conf,     \* iconfig: the address, http port and hardware address
  match,    \* the last match announced
  duringNet,  \* history: the addresses with ports iconfig had in this probe
  duringMac,  \* history: and the hardware addresses
  answers   \* history: what iconfig's answers to this probe had

vars == <<pc, param, conf, match, duringNet, duringMac, answers>>

Configs == [ip : IpAddrs, port : Ports, mac : Macs]

Init ==
  /\ pc = "idle"
  /\ param = [ip |-> Loopback, port |-> Port80, mac |-> ZeroMac]
  /\ conf \in Configs
  /\ match = NoMatch
  /\ duringNet = {<<conf.ip, conf.port>>} /\ duringMac = {conf.mac}
  /\ answers = {}

\* Mutant: the network parameters keep what the last probe found.
Probe_keeps_network ==
  /\ pc = "idle"
  /\ param' = [param EXCEPT !.mac = ZeroMac]
  /\ pc' = "network"
  /\ duringNet' = {<<conf.ip, conf.port>>} /\ duringMac' = {conf.mac}
  /\ answers' = {}
  /\ UNCHANGED <<conf, match>>

Probe ==
  /\ pc = "idle"
  /\ param' = [ip |-> Loopback, port |-> Port80, mac |-> ZeroMac]
  /\ pc' = "network"
  /\ duringNet' = {<<conf.ip, conf.port>>} /\ duringMac' = {conf.mac}
  /\ answers' = {}
  /\ UNCHANGED <<conf, match>>

\* The answer may lack the port or the address; what it lacks stays default.
\* Without an answer both do, and the probe goes on.
GetNetwork ==
  /\ pc = "network"
  /\ \E members \in SUBSET {"port", "address"} :
       /\ param' = [param EXCEPT
            !.port = IF "port" \in members THEN conf.port ELSE @,
            !.ip = IF "address" \in members THEN conf.ip ELSE @]
       /\ answers' = answers \cup members
  /\ pc' = "mac"
  /\ UNCHANGED <<conf, match, duringNet, duringMac>>

GetHwaddr ==
  /\ pc = "mac"
  /\ \/ param' = [param EXCEPT !.mac = conf.mac] /\ answers' = answers \cup {"mac"}
     \/ UNCHANGED <<param, answers>>
  /\ pc' = "match"
  /\ UNCHANGED <<conf, match, duringNet, duringMac>>

\* Mutant: a device without a hardware address is not announced.
AddMatch_if_known ==
  /\ pc = "match"
  /\ param.mac # ZeroMac
  /\ match' = [xaddrs |-> IF param.port = Port80 THEN <<param.ip>>
                          ELSE <<param.ip, param.port>>,
               ep_ref |-> param.mac]
  /\ pc' = "idle"
  /\ UNCHANGED <<param, conf, duringNet, duringMac, answers>>

\* Mutant: the two parts change places.
AddMatch_swapped ==
  /\ pc = "match"
  /\ match' = [xaddrs |-> <<param.mac>>, ep_ref |-> param.ip]
  /\ pc' = "idle"
  /\ UNCHANGED <<param, conf, duringNet, duringMac, answers>>

\* Port 80 is left out of the URL, which a client reads as port 80.
AddMatch ==
  /\ pc = "match"
  /\ match' = [xaddrs |-> IF param.port = Port80 THEN <<param.ip>>
                          ELSE <<param.ip, param.port>>,
               ep_ref |-> param.mac]
  /\ pc' = "idle"
  /\ UNCHANGED <<param, conf, duringNet, duringMac, answers>>

OthersChange ==
  /\ conf' \in Configs
  /\ IF pc = "idle" THEN UNCHANGED <<duringNet, duringMac>>
     ELSE /\ duringNet' = duringNet \cup {<<conf'.ip, conf'.port>>}
          /\ duringMac' = duringMac \cup {conf'.mac}
  /\ UNCHANGED <<pc, param, match, answers>>

Next == Probe \/ GetNetwork \/ GetHwaddr \/ AddMatch \/ OthersChange

Spec == Init /\ [][Next]_vars

\* A probe that has begun runs on: each wait ends with the answer or at its 5
\* seconds, and the thread has nothing else to do.
FairSpec == Spec /\ WF_vars(GetNetwork \/ GetHwaddr \/ AddMatch)

-----------------------------------------------------------------------------
\* Every variable has its type.
TypeOK ==
  /\ pc \in {"idle", "network", "mac", "match"}
  /\ param \in [ip : IpAddrs \cup {Loopback}, port : Ports,
                mac : Macs \cup {ZeroMac}]
  /\ conf \in Configs
  /\ match \in Matches \cup {NoMatch}
  /\ duringNet \subseteq IpAddrs \X Ports
  /\ duringMac \subseteq Macs
  /\ answers \subseteq {"port", "address", "mac"}

\* Where a client that reads the match's URL connects.
Connects(m) == <<m.xaddrs[1], IF Len(m.xaddrs) = 2 THEN m.xaddrs[2] ELSE Port80>>

\* The services' address and port as far as this probe has been told them: what
\* iconfig had, n, where its answer had it, and the default otherwise.
Told(n) == <<IF "address" \in answers THEN n[1] ELSE Loopback,
             IF "port" \in answers THEN n[2] ELSE Port80>>

\* A match is of this probe alone, member by member.  What get_network's answer
\* had of address and port, the URL has as both were at one moment of this probe;
\* what it lacked is the default, and so is all of it without an answer.  The
\* reference has the hardware address the device had in this probe, and is the
\* default only if get_base_info was not answered.  Nothing is left from an
\* earlier probe, and neither call spoils what the other one found.
MatchIsOfThisProbe ==
  match # NoMatch /\ pc = "idle" =>
    /\ \E n \in duringNet : Connects(match) = Told(n)
    /\ IF "mac" \in answers THEN match.ep_ref \in duringMac
       ELSE match.ep_ref = ZeroMac

\* Every probe is answered with a match, even if iconfig answers neither call:
\* the device is found all the same.
EveryProbeMatched == pc = "network" ~> pc = "idle" /\ match # NoMatch
=============================================================================
