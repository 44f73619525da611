------------------------------ MODULE Startup ------------------------------
(***************************************************************************)
(* How the ionvif daemon fills its caches when it starts, and what its     *)
(* SOAP handlers make of caches that are not filled yet.                   *)
(*                                                                         *)
(* before_start creates the SOAP thread first, then registers the notice   *)
(* handlers and sends iconfig five requests.  Each reply, or notice, fills *)
(* a section of the caches; a request is given up after 60 seconds and is  *)
(* not repeated.  The handlers read the caches all the while.              *)
(*                                                                         *)
(* A section is one value here: how a notice changes part of a section is  *)
(* left out, and the accounts are the subject of UserSync.                 *)
(*                                                                         *)
(* Outside the repository: iconfig, which answers requests in order and    *)
(* publishes its changes, and the connections, which keep order and lose.  *)
(***************************************************************************)
EXTENDS Naturals, Sequences

CONSTANTS Values,     \* what iconfig's sections hold, besides the clock's
          Missing,    \* a section the cache does not have
          NoResponse, \* the SOAP thread has not responded yet
          MaxNotices  \* bound: the changes iconfig makes

ASSUME MissingAssumption == Missing \notin Values /\ Missing \notin {0, 1}
ASSUME MaxNoticesAssumption == MaxNotices \in Nat

\* Mutant: the accounts are asked for first.
Order_users_first == <<"users", "base_info", "network", "datetime", "video">>

Order == <<"base_info", "network", "datetime", "video", "users">>
Sections == {Order[i] : i \in 1..5}

\* The datetime section is use_ntp, 0 or 1.
ValuesOf(s) == IF s = "datetime" THEN {0, 1} ELSE Values

VARIABLES
  state,     \* of each request: "unsent", "waiting", "filled" or "expired"
  cache,     \* the caches, by section
  requests,  \* to iconfig
  replies,   \* from iconfig
  notices,   \* from iconfig
  changes,   \* iconfig: changes made so far
  conf,      \* iconfig: its settings
  held,      \* what GetDeviceInformation has read and not responded yet
  response,  \* the SOAP thread's last response, if it holds nothing
  dropped,   \* history: the sections whose request or reply was lost
  noticed,   \* history: the sections a notice has filled
  usedNtp    \* history: iconfig has used NTP

vars == <<state, cache, requests, replies, notices, changes, conf, held,
          response, dropped, noticed, usedNtp>>

Init ==
  /\ state = [s \in Sections |-> "unsent"]
  /\ cache = [s \in Sections |-> Missing]
  /\ requests = <<>>
  /\ replies = <<>>
  /\ notices = <<>>
  /\ changes = 0
  /\ conf \in {c \in [Sections -> Values \cup {0, 1}] :
                 \A s \in Sections : c[s] \in ValuesOf(s)}
  /\ held = NoResponse
  /\ response = NoResponse
  /\ dropped = {}
  /\ noticed = {}
  /\ usedNtp = (conf["datetime"] = 1)

-----------------------------------------------------------------------------
(***************************************************************************)
(* The base service's thread: before_start, then its loop.                 *)
(***************************************************************************)

\* before_start sends its next request.
SendRequest ==
  /\ \E i \in 1..5 :
       /\ state[Order[i]] = "unsent"
       /\ \A j \in 1..(i - 1) : state[Order[j]] # "unsent"
       /\ state' = [state EXCEPT ![Order[i]] = "waiting"]
       /\ requests' = Append(requests, Order[i])
  /\ UNCHANGED <<cache, replies, notices, changes, conf, held, response,
                 dropped, noticed, usedNtp>>

\* The loop runs once before_start has returned.
Started == \A s \in Sections : state[s] # "unsent"

\* Mutant: what is filled is the section asked for last.
HandleReply_last_section ==
  /\ Started
  /\ replies # <<>>
  /\ cache' = [cache EXCEPT !["users"] = Head(replies).value]
  /\ state' = [state EXCEPT !["users"] = "filled"]
  /\ replies' = Tail(replies)
  /\ UNCHANGED <<requests, notices, changes, conf, held, response,
                 dropped, noticed, usedNtp>>

\* A reply fills its section, unless the request was given up.
HandleReply ==
  /\ Started
  /\ replies # <<>>
  /\ LET r == Head(replies) IN
     IF state[r.section] = "waiting"
     THEN /\ cache' = [cache EXCEPT ![r.section] = r.value]
          /\ state' = [state EXCEPT ![r.section] = "filled"]
     ELSE UNCHANGED <<cache, state>>
  /\ replies' = Tail(replies)
  /\ UNCHANGED <<requests, notices, changes, conf, held, response,
                 dropped, noticed, usedNtp>>

\* The handler is called with timeout, or with a reply that has no body.
Expire ==
  /\ Started
  /\ \E s \in Sections :
       /\ state[s] = "waiting"
       /\ state' = [state EXCEPT ![s] = "expired"]
  /\ UNCHANGED <<cache, requests, replies, notices, changes, conf, held, response,
                 dropped, noticed, usedNtp>>

HandleNotice ==
  /\ Started
  /\ notices # <<>>
  /\ cache' = [cache EXCEPT ![Head(notices).section] = Head(notices).value]
  /\ noticed' = noticed \cup {Head(notices).section}
  /\ notices' = Tail(notices)
  /\ UNCHANGED <<state, requests, replies, changes, conf, held, response,
                 dropped, usedNtp>>

-----------------------------------------------------------------------------
(***************************************************************************)
(* The SOAP thread.  An operation with access control is refused while the *)
(* client's account is not in the cache.                                   *)
(***************************************************************************)
onvif_access_control == cache["users"] # Missing

\* A response, with the account the cache had when the section was read.
Respond(op, value) ==
  /\ held = NoResponse
  /\ response' = [op |-> op, value |-> value, account |-> cache["users"]]
  /\ UNCHANGED <<state, cache, requests, replies, notices, changes, conf, held,
                 dropped, noticed, usedNtp>>

\* GetCapabilities has no access control, and puts the address in every XAddr,
\* "(null)" if there is none.
GetCapabilities == Respond("GetCapabilities", cache["network"])

\* The port is -1 if there is none.
GetNetworkProtocols ==
  onvif_access_control /\ Respond("GetNetworkProtocols", cache["network"])

\* An optional scope is left out if there is none.
GetScopes == onvif_access_control /\ Respond("GetScopes", cache["base_info"])

\* The clock is asked of iconfig, and whether it follows NTP is in the cache: a
\* missing use_ntp reads as -1, which is not 0.  If iconfig does not answer, the
\* response is empty.
GetSystemDateAndTime ==
  /\ onvif_access_control
  /\ \/ Respond("GetSystemDateAndTime",
                IF cache["datetime"] = 0 THEN "Manual" ELSE "NTP")
     \/ Respond("GetSystemDateAndTime", "unanswered")

\* GetDeviceInformation reads the section first ...
ReadDeviceInformation ==
  /\ held = NoResponse
  /\ held' = [value |-> cache["base_info"], account |-> cache["users"]]
  /\ response' = NoResponse
  /\ UNCHANGED <<state, cache, requests, replies, notices, changes, conf,
                 dropped, noticed, usedNtp>>

\* ... and then asks for access.
GetDeviceInformation ==
  /\ held # NoResponse
  /\ \/ /\ onvif_access_control
        /\ response' = [op |-> "GetDeviceInformation", value |-> held.value,
                        account |-> held.account]
     \/ ~onvif_access_control /\ UNCHANGED response
  /\ held' = NoResponse
  /\ UNCHANGED <<state, cache, requests, replies, notices, changes, conf,
                 dropped, noticed, usedNtp>>

-----------------------------------------------------------------------------
(***************************************************************************)
(* iconfig and the connections.                                            *)
(***************************************************************************)
Serve ==
  /\ requests # <<>>
  /\ replies' = Append(replies, [section |-> Head(requests),
                                 value |-> conf[Head(requests)]])
  /\ requests' = Tail(requests)
  /\ UNCHANGED <<state, cache, notices, changes, conf, held, response, dropped,
                 noticed, usedNtp>>

Commit ==
  /\ changes < MaxNotices
  /\ changes' = changes + 1
  /\ \E s \in Sections : \E v \in ValuesOf(s) :
       /\ conf' = [conf EXCEPT ![s] = v]
       /\ notices' = Append(notices, [section |-> s, value |-> v])
       /\ usedNtp' = (usedNtp \/ conf'["datetime"] = 1)
  /\ UNCHANGED <<state, cache, requests, replies, held, response, dropped,
                 noticed>>

LoseRequest ==
  /\ requests # <<>>
  /\ dropped' = dropped \cup {Head(requests)}
  /\ requests' = Tail(requests)
  /\ UNCHANGED <<state, cache, replies, notices, changes, conf, held, response,
                 noticed, usedNtp>>

LoseReply ==
  /\ replies # <<>>
  /\ dropped' = dropped \cup {Head(replies).section}
  /\ replies' = Tail(replies)
  /\ UNCHANGED <<state, cache, requests, notices, changes, conf, held, response,
                 noticed, usedNtp>>

LoseNotice ==
  /\ notices # <<>>
  /\ notices' = Tail(notices)
  /\ UNCHANGED <<state, cache, requests, replies, changes, conf, held, response,
                 dropped, noticed, usedNtp>>

Next ==
  \/ SendRequest \/ HandleReply \/ Expire \/ HandleNotice
  \/ GetCapabilities \/ GetNetworkProtocols \/ GetScopes \/ GetSystemDateAndTime
  \/ ReadDeviceInformation \/ GetDeviceInformation
  \/ Serve \/ Commit \/ LoseRequest \/ LoseReply \/ LoseNotice

Spec == Init /\ [][Next]_vars

-----------------------------------------------------------------------------
Accounts == Values \cup {Missing}
Readers == {"GetCapabilities", "GetNetworkProtocols", "GetScopes",
            "GetDeviceInformation"}
Responded ==
  [op : Readers, value : Values \cup {Missing}, account : Accounts]
    \cup [op : {"GetSystemDateAndTime"}, value : {"Manual", "NTP", "unanswered"},
          account : Accounts]

\* Every variable has its type.
TypeOK ==
  /\ state \in [Sections -> {"unsent", "waiting", "filled", "expired"}]
  /\ \A s \in Sections : cache[s] \in ValuesOf(s) \cup {Missing}
  /\ requests \in Seq(Sections)
  /\ \A n \in 1..Len(replies) : replies[n].value \in ValuesOf(replies[n].section)
  /\ \A n \in 1..Len(notices) : notices[n].value \in ValuesOf(notices[n].section)
  /\ changes \in 0..MaxNotices
  /\ \A s \in Sections : conf[s] \in ValuesOf(s)
  /\ held \in {NoResponse} \cup [value : Values \cup {Missing}, account : Accounts]
  /\ response \in {NoResponse} \cup Responded
  /\ held # NoResponse => response = NoResponse
  /\ dropped \subseteq Sections
  /\ noticed \subseteq Sections
  /\ usedNtp \in BOOLEAN

\* The section an operation with access control takes its response from.
SectionOf ==
  [GetScopes |-> "base_info", GetDeviceInformation |-> "base_info",
   GetNetworkProtocols |-> "network", GetSystemDateAndTime |-> "datetime"]

\* A response made of a section that is not there: a clock is then reported as
\* following NTP, which is wrong if it never did.
MadeOfNothing ==
  /\ response # NoResponse
  /\ response.op # "GetCapabilities"
  /\ IF response.op = "GetSystemDateAndTime"
     THEN response.value = "NTP" /\ ~usedNtp
     ELSE response.value = Missing

\* The section's request was lost or given up, or a notice brought the account
\* before its request did.
WentWrong(s) == s \in dropped \/ state[s] = "expired" \/ "users" \in noticed

\* GetDeviceInformation read the section before the account was there.
ReadEarly ==
  response.op = "GetDeviceInformation" /\ response.account = Missing

\* The accounts are asked for last, so an operation that let its client in
\* finds its section filled, in a start that goes well, and no clock is said to
\* follow NTP that never did: if not, the start went wrong for that section, or
\* the operation is the one that reads the cache before it asks for access.
AuthenticatedReadsFilled ==
  MadeOfNothing => WentWrong(SectionOf[response.op]) \/ ReadEarly
=============================================================================
