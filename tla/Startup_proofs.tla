--------------------------- MODULE Startup_proofs ---------------------------
(***************************************************************************)
(* Invariance proofs for Startup: for any settings and any number of       *)
(* notices, whatever is lost and in whatever order what is left is handled,*)
(* an operation that let its client in finds its section filled unless the *)
(* start went wrong.  The argument is that requests, replies and the       *)
(* handling of replies all keep the order of before_start, so that nothing *)
(* is on its way any more when the accounts' reply is handled.             *)
(***************************************************************************)
EXTENDS Startup, SequenceTheorems, TLAPS

-----------------------------------------------------------------------------
(***************************************************************************)
(* The order of the requests, and sequences.                               *)
(***************************************************************************)

\* The place of a section in before_start.
Rank(s) ==
  CASE s = "base_info" -> 1 [] s = "network" -> 2 [] s = "datetime" -> 3
    [] s = "video" -> 4 [] OTHER -> 5

\* Order and Rank are inverse to each other.
LEMMA Ranks ==
  /\ Sections = {"base_info", "network", "datetime", "video", "users"}
  /\ \A i \in 1..5 : Order[i] \in Sections /\ Rank(Order[i]) = i
  /\ \A s \in Sections : Rank(s) \in 1..5 /\ Order[Rank(s)] = s
<1>1. 1..5 = {1, 2, 3, 4, 5}
  OBVIOUS
<1>2. /\ Order[1] = "base_info" /\ Order[2] = "network" /\ Order[3] = "datetime"
      /\ Order[4] = "video" /\ Order[5] = "users"
  BY DEF Order
<1>3. Sections = {"base_info", "network", "datetime", "video", "users"}
  BY <1>1, <1>2 DEF Sections
<1>4. /\ Rank("base_info") = 1 /\ Rank("network") = 2 /\ Rank("datetime") = 3
      /\ Rank("video") = 4 /\ Rank("users") = 5
  BY DEF Rank
<1>5. \A i \in 1..5 : Order[i] \in Sections /\ Rank(Order[i]) = i
  BY <1>1, <1>2, <1>3, <1>4
<1>6. \A s \in Sections : Rank(s) \in 1..5 /\ Order[Rank(s)] = s
  BY <1>1, <1>2, <1>3, <1>4
<1> QED
  BY <1>3, <1>5, <1>6

\* The accounts are asked for last.
LEMMA UsersLast ==
  /\ "users" \in Sections /\ Rank("users") = 5
  /\ \A s \in Sections : Rank(s) <= 5
  /\ \A s, t \in Sections : Rank(s) = Rank(t) => s = t
<1>1. Rank("users") = 5
  BY DEF Rank
<1> QED
  BY <1>1, Ranks

\* Taking the head off a queue.
LEMMA Popped ==
  ASSUME NEW S, NEW q \in Seq(S), q # <<>>
  PROVE  /\ Len(q) \in Nat /\ Len(q) >= 1
         /\ Head(q) = q[1] /\ Head(q) \in S
         /\ Tail(q) \in Seq(S) /\ Len(Tail(q)) = Len(q) - 1
         /\ \A n \in 1..Len(Tail(q)) : Tail(q)[n] = q[n + 1]
BY HeadTailProperties, LenProperties, EmptySeq

\* Adding to the end of a queue.
LEMMA Pushed ==
  ASSUME NEW S, NEW q \in Seq(S), NEW e \in S
  PROVE  /\ Len(q) \in Nat
         /\ Append(q, e) \in Seq(S) /\ Len(Append(q, e)) = Len(q) + 1
         /\ \A n \in 1..Len(q) : Append(q, e)[n] = q[n]
         /\ Append(q, e)[Len(q) + 1] = e
BY AppendProperties, LenProperties

-----------------------------------------------------------------------------
(***************************************************************************)
(* The inductive invariant.                                                *)
(***************************************************************************)

\* A section with a value it may have: a reply, or a notice.
Brought ==
  {r \in [section : Sections, value : Values \cup {0, 1}] :
     r.value \in ValuesOf(r.section)}

\* The types, a little sharper than TypeOK.
TypeInv ==
  /\ state \in [Sections -> {"unsent", "waiting", "filled", "expired"}]
  /\ cache \in [Sections -> Values \cup {0, 1, Missing}]
  /\ \A s \in Sections : cache[s] \in ValuesOf(s) \cup {Missing}
  /\ requests \in Seq(Sections)
  /\ replies \in Seq(Brought)
  /\ notices \in Seq(Brought)
  /\ changes \in 0..MaxNotices
  /\ conf \in [Sections -> Values \cup {0, 1}]
  /\ \A s \in Sections : conf[s] \in ValuesOf(s)
  /\ held \in {NoResponse} \cup [value : Values \cup {Missing}, account : Accounts]
  /\ response \in {NoResponse} \cup Responded
  /\ held # NoResponse => response = NoResponse
  /\ dropped \subseteq Sections
  /\ noticed \subseteq Sections
  /\ usedNtp \in BOOLEAN

\* Whoever says that the clock follows NTP has it from an iconfig that did.
SaysNtp(r) == r.section = "datetime" /\ r.value = 1
NtpInv ==
  \/ usedNtp = TRUE
  \/ /\ conf["datetime"] # 1
     /\ cache["datetime"] # 1
     /\ \A n \in 1..Len(replies) : ~SaysNtp(replies[n])
     /\ \A n \in 1..Len(notices) : ~SaysNtp(notices[n])

\* The replies and then the requests on their way are in the order of
\* before_start, and before all that is not sent yet.
OrderInv ==
  /\ \A m, n \in 1..Len(requests) : m < n => Rank(requests[m]) < Rank(requests[n])
  /\ \A m, n \in 1..Len(replies) :
       m < n => Rank(replies[m].section) < Rank(replies[n].section)
  /\ \A m \in 1..Len(replies), n \in 1..Len(requests) :
       Rank(replies[m].section) < Rank(requests[n])
  /\ \A s \in Sections : state[s] = "unsent" =>
       /\ \A n \in 1..Len(requests) : Rank(requests[n]) < Rank(s)
       /\ \A n \in 1..Len(replies) : Rank(replies[n].section) < Rank(s)
       /\ \A t \in Sections : Rank(s) < Rank(t) => state[t] = "unsent"

\* What is waited for is on its way or was lost.
OnItsWay(s) ==
  \/ s \in dropped
  \/ \E n \in 1..Len(requests) : requests[n] = s
  \/ \E n \in 1..Len(replies) : replies[n].section = s
WaitingInv == \A s \in Sections : state[s] = "waiting" => OnItsWay(s)

\* Once the accounts' reply is handled, nothing is on its way any more.
Settled(s) ==
  state[s] \in {"filled", "expired"} \/ (state[s] = "waiting" /\ s \in dropped)
UsersInv == state["users"] = "filled" => \A s \in Sections : Settled(s)

\* How a section came to be in the cache.
CacheInv ==
  /\ \A s \in Sections : state[s] = "filled" => cache[s] # Missing
  /\ cache["users"] # Missing => state["users"] = "filled" \/ "users" \in noticed

\* What GetDeviceInformation holds, if the account was there before it.
HeldInv ==
  held # NoResponse /\ held.value = Missing /\ held.account # Missing
    => WentWrong("base_info")

SInv == /\ TypeInv /\ NtpInv /\ OrderInv /\ WaitingInv /\ UsersInv /\ CacheInv
        /\ HeldInv /\ AuthenticatedReadsFilled

-----------------------------------------------------------------------------
(***************************************************************************)
(* Each part is kept.                                                      *)
(***************************************************************************)
Responses ==
  \/ GetCapabilities \/ GetNetworkProtocols \/ GetScopes \/ GetSystemDateAndTime
  \/ ReadDeviceInformation \/ GetDeviceInformation
Losses == LoseRequest \/ LoseReply \/ LoseNotice

\* A response changes the response and what is held alone.
LEMMA ResponsesOnly ==
  ASSUME Responses
  PROVE  UNCHANGED <<state, cache, requests, replies, notices, changes, conf,
                     dropped, noticed, usedNtp>>
BY DEF Responses, GetCapabilities, GetNetworkProtocols, GetScopes,
       GetSystemDateAndTime, Respond, ReadDeviceInformation, GetDeviceInformation

\* Types.
LEMMA TypeStep ==
  ASSUME TypeInv, [Next]_vars
  PROVE  TypeInv'
<1> USE DEF TypeInv
<1>1. CASE SendRequest
  <2>1. PICK i \in 1..5 :
          /\ state' = [state EXCEPT ![Order[i]] = "waiting"]
          /\ requests' = Append(requests, Order[i])
    BY <1>1 DEF SendRequest
  <2>2. requests' \in Seq(Sections)
    BY <2>1, Ranks, Pushed
  <2>3. state' \in [Sections -> {"unsent", "waiting", "filled", "expired"}]
    BY <2>1
  <2> QED
    BY <1>1, <2>2, <2>3 DEF SendRequest
<1>2. CASE HandleReply
  <2>1. replies' \in Seq(Brought) /\ Head(replies) \in Brought
    BY <1>2, Popped DEF HandleReply
  <2>2. /\ Head(replies).section \in Sections
        /\ Head(replies).value \in Values \cup {0, 1}
        /\ Head(replies).value \in ValuesOf(Head(replies).section)
    BY <2>1 DEF Brought
  <2>3. /\ state' \in [Sections -> {"unsent", "waiting", "filled", "expired"}]
        /\ cache' \in [Sections -> Values \cup {0, 1, Missing}]
        /\ \A s \in Sections : cache'[s] \in ValuesOf(s) \cup {Missing}
    BY <1>2, <2>2 DEF HandleReply
  <2> QED
    BY <1>2, <2>1, <2>3 DEF HandleReply
<1>3. CASE Expire
  BY <1>3 DEF Expire
<1>4. CASE HandleNotice
  <2>1. notices' \in Seq(Brought) /\ Head(notices) \in Brought
    BY <1>4, Popped DEF HandleNotice
  <2>2. /\ Head(notices).section \in Sections
        /\ Head(notices).value \in Values \cup {0, 1}
        /\ Head(notices).value \in ValuesOf(Head(notices).section)
    BY <2>1 DEF Brought
  <2>3. /\ cache' \in [Sections -> Values \cup {0, 1, Missing}]
        /\ \A s \in Sections : cache'[s] \in ValuesOf(s) \cup {Missing}
        /\ noticed' \subseteq Sections
    BY <1>4, <2>2 DEF HandleNotice
  <2> QED
    BY <1>4, <2>1, <2>3 DEF HandleNotice
<1>5. CASE Responses
  <2>1. /\ ValuesOf("network") = Values /\ ValuesOf("base_info") = Values
        /\ ValuesOf("users") = Values
    BY DEF ValuesOf
  <2>2. /\ cache["network"] \in Values \cup {Missing}
        /\ cache["base_info"] \in Values \cup {Missing}
        /\ cache["users"] \in Accounts
    BY <2>1, Ranks DEF Accounts
  <2>3. CASE GetCapabilities \/ GetNetworkProtocols \/ GetScopes
    <3>1. /\ response' \in [op : Readers, value : Values \cup {Missing}, account : Accounts]
          /\ held = NoResponse /\ held' = held
      BY <2>3, <2>2 DEF GetCapabilities, GetNetworkProtocols, GetScopes, Respond, Readers
    <3> QED
      BY <1>5, <3>1, ResponsesOnly DEF Responded
  <2>4. CASE GetSystemDateAndTime
    <3>1. /\ response' \in [op : {"GetSystemDateAndTime"},
                            value : {"Manual", "NTP", "unanswered"}, account : Accounts]
          /\ held = NoResponse /\ held' = held
      BY <2>4, <2>2 DEF GetSystemDateAndTime, Respond
    <3> QED
      BY <1>5, <3>1, ResponsesOnly DEF Responded
  <2>5. CASE ReadDeviceInformation
    <3>1. /\ held' \in [value : Values \cup {Missing}, account : Accounts]
          /\ response' = NoResponse
      BY <2>5, <2>2 DEF ReadDeviceInformation
    <3> QED
      BY <1>5, <3>1, ResponsesOnly
  <2>6. CASE GetDeviceInformation
    <3>1. held \in [value : Values \cup {Missing}, account : Accounts]
      BY <2>6 DEF GetDeviceInformation
    <3>2. /\ \/ response' \in [op : Readers, value : Values \cup {Missing}, account : Accounts]
             \/ response' = response
          /\ held' = NoResponse
      BY <2>6, <3>1 DEF GetDeviceInformation, Readers
    <3> QED
      BY <1>5, <3>2, ResponsesOnly DEF Responded
  <2> QED
    BY <1>5, <2>3, <2>4, <2>5, <2>6 DEF Responses
<1>6. CASE Serve
  <2>1. Head(requests) \in Sections /\ requests' \in Seq(Sections)
    BY <1>6, Popped DEF Serve
  <2>2. [section |-> Head(requests), value |-> conf[Head(requests)]] \in Brought
    BY <2>1 DEF Brought
  <2>3. replies' \in Seq(Brought)
    BY <1>6, <2>2, Pushed DEF Serve
  <2> QED
    BY <1>6, <2>1, <2>3 DEF Serve
<1>7. CASE Commit
  <2>0. PICK s \in Sections : \E v \in ValuesOf(s) :
          /\ conf' = [conf EXCEPT ![s] = v]
          /\ notices' = Append(notices, [section |-> s, value |-> v])
          /\ usedNtp' = (usedNtp \/ conf'["datetime"] = 1)
    BY <1>7 DEF Commit
  <2>1. PICK v \in ValuesOf(s) :
          /\ conf' = [conf EXCEPT ![s] = v]
          /\ notices' = Append(notices, [section |-> s, value |-> v])
          /\ usedNtp' = (usedNtp \/ conf'["datetime"] = 1)
    BY <2>0
  <2>2. v \in Values \cup {0, 1}
    BY DEF ValuesOf
  <2>3. [section |-> s, value |-> v] \in Brought
    BY <2>2 DEF Brought
  <2>4. notices' \in Seq(Brought)
    BY <2>1, <2>3, Pushed
  <2>5. /\ conf' \in [Sections -> Values \cup {0, 1}]
        /\ \A t \in Sections : conf'[t] \in ValuesOf(t)
    BY <2>1, <2>2
  <2>6. usedNtp' \in BOOLEAN
    BY <2>1
  <2>7. changes' \in 0..MaxNotices
    BY <1>7, MaxNoticesAssumption DEF Commit
  <2> QED
    BY <1>7, <2>4, <2>5, <2>6, <2>7 DEF Commit
<1>8. CASE Losses
  <2>1. CASE LoseRequest
    <3>1. Head(requests) \in Sections /\ requests' \in Seq(Sections)
      BY <2>1, Popped DEF LoseRequest
    <3> QED
      BY <2>1, <3>1 DEF LoseRequest
  <2>2. CASE LoseReply
    <3>1. Head(replies) \in Brought /\ replies' \in Seq(Brought)
      BY <2>2, Popped DEF LoseReply
    <3>2. Head(replies).section \in Sections
      BY <3>1 DEF Brought
    <3> QED
      BY <2>2, <3>1, <3>2 DEF LoseReply
  <2>3. CASE LoseNotice
    <3>1. notices' \in Seq(Brought)
      BY <2>3, Popped DEF LoseNotice
    <3> QED
      BY <2>3, <3>1 DEF LoseNotice
  <2> QED
    BY <1>8, <2>1, <2>2, <2>3 DEF Losses
<1>9. CASE UNCHANGED vars
  BY <1>9 DEF vars
<1> QED
  BY <1>1, <1>2, <1>3, <1>4, <1>5, <1>6, <1>7, <1>8, <1>9
     DEF Next, Responses, Losses

\* The clock and NTP.
LEMMA NtpStep ==
  ASSUME TypeInv, NtpInv, [Next]_vars
  PROVE  NtpInv'
<1> DEFINE Silent ==
      /\ usedNtp # TRUE
      /\ conf["datetime"] # 1
      /\ cache["datetime"] # 1
      /\ \A n \in 1..Len(replies) : ~SaysNtp(replies[n])
      /\ \A n \in 1..Len(notices) : ~SaysNtp(notices[n])
<1>0. CASE usedNtp = TRUE
  <2>1. CASE Commit
    BY <1>0, <2>1 DEF Commit, NtpInv
  <2>2. CASE SendRequest \/ HandleReply \/ Expire \/ HandleNotice \/ Serve
    BY <1>0, <2>2 DEF SendRequest, HandleReply, Expire, HandleNotice, Serve, NtpInv
  <2>3. CASE Responses
    BY <1>0, <2>3, ResponsesOnly DEF NtpInv
  <2>4. CASE Losses \/ UNCHANGED vars
    BY <1>0, <2>4 DEF Losses, LoseRequest, LoseReply, LoseNotice, vars, NtpInv
  <2> QED
    BY <2>1, <2>2, <2>3, <2>4 DEF Next, Responses, Losses
<1> SUFFICES ASSUME Silent PROVE NtpInv'
  BY <1>0 DEF NtpInv
<1>1. "datetime" \in Sections
  BY Ranks
<1>2. CASE SendRequest \/ Expire \/ Responses \/ UNCHANGED vars
  <2>1. UNCHANGED <<conf, cache, replies, notices>>
    BY <1>2, ResponsesOnly DEF SendRequest, Expire, vars
  <2> QED
    BY <2>1 DEF NtpInv
<1>3. CASE HandleReply
  <2>1. /\ Len(replies) \in Nat /\ Len(replies) >= 1 /\ Head(replies) = replies[1]
        /\ Len(replies') = Len(replies) - 1
        /\ \A n \in 1..Len(replies') : replies'[n] = replies[n + 1]
    BY <1>3, Popped DEF HandleReply, TypeInv
  <2>2. ~SaysNtp(Head(replies))
    BY <2>1
  <2>3. cache'["datetime"] # 1
    BY <1>1, <1>3, <2>2 DEF HandleReply, SaysNtp, TypeInv
  <2>4. \A n \in 1..Len(replies') : n + 1 \in 1..Len(replies)
    BY <2>1
  <2>5. \A n \in 1..Len(replies') : ~SaysNtp(replies'[n])
    BY <2>1, <2>4
  <2> QED
    BY <1>3, <2>3, <2>5 DEF HandleReply, NtpInv, SaysNtp
<1>4. CASE HandleNotice
  <2>1. /\ Len(notices) \in Nat /\ Len(notices) >= 1 /\ Head(notices) = notices[1]
        /\ Len(notices') = Len(notices) - 1
        /\ \A n \in 1..Len(notices') : notices'[n] = notices[n + 1]
    BY <1>4, Popped DEF HandleNotice, TypeInv
  <2>2. ~SaysNtp(Head(notices))
    BY <2>1
  <2>3. cache'["datetime"] # 1
    BY <1>1, <1>4, <2>2 DEF HandleNotice, SaysNtp, TypeInv
  <2>4. \A n \in 1..Len(notices') : n + 1 \in 1..Len(notices)
    BY <2>1
  <2>5. \A n \in 1..Len(notices') : ~SaysNtp(notices'[n])
    BY <2>1, <2>4
  <2> QED
    BY <1>4, <2>3, <2>5 DEF HandleNotice, NtpInv, SaysNtp
<1>5. CASE Serve
  <2> DEFINE r == [section |-> Head(requests), value |-> conf[Head(requests)]]
  <2>1. Head(requests) \in Sections
    BY <1>5, Popped DEF Serve, TypeInv
  <2>2. r \in Brought
    BY <2>1 DEF Brought, TypeInv
  <2>3. /\ Len(replies) \in Nat /\ Len(replies') = Len(replies) + 1
        /\ \A n \in 1..Len(replies) : replies'[n] = replies[n]
        /\ replies'[Len(replies) + 1] = r
    BY <1>5, <2>2, Pushed DEF Serve, TypeInv
  <2>4. ~SaysNtp(r)
    BY DEF SaysNtp
  <2>5. \A n \in 1..Len(replies') : n \in 1..Len(replies) \/ n = Len(replies) + 1
    BY <2>3
  <2>6. \A n \in 1..Len(replies') : ~SaysNtp(replies'[n])
    BY <2>3, <2>4, <2>5
  <2> QED
    BY <1>5, <2>6 DEF Serve, NtpInv, SaysNtp
<1>6. CASE Commit
  <2>0. PICK s \in Sections : \E v \in ValuesOf(s) :
          /\ conf' = [conf EXCEPT ![s] = v]
          /\ notices' = Append(notices, [section |-> s, value |-> v])
          /\ usedNtp' = (usedNtp \/ conf'["datetime"] = 1)
    BY <1>6 DEF Commit
  <2>1. PICK v \in ValuesOf(s) :
          /\ conf' = [conf EXCEPT ![s] = v]
          /\ notices' = Append(notices, [section |-> s, value |-> v])
          /\ usedNtp' = (usedNtp \/ conf'["datetime"] = 1)
    BY <2>0
  <2>2. CASE conf'["datetime"] = 1
    BY <2>1, <2>2 DEF NtpInv
  <2>3. CASE conf'["datetime"] # 1
    <3> DEFINE r == [section |-> s, value |-> v]
    <3>1. ~SaysNtp(r)
      BY <1>1, <2>1, <2>3 DEF SaysNtp, TypeInv
    <3>2. r \in Brought
      BY DEF Brought, ValuesOf
    <3>3. /\ Len(notices) \in Nat /\ Len(notices') = Len(notices) + 1
          /\ \A n \in 1..Len(notices) : notices'[n] = notices[n]
          /\ notices'[Len(notices) + 1] = r
      BY <2>1, <3>2, Pushed DEF TypeInv
    <3>4. \A n \in 1..Len(notices') : n \in 1..Len(notices) \/ n = Len(notices) + 1
      BY <3>3
    <3>5. \A n \in 1..Len(notices') : ~SaysNtp(notices'[n])
      BY <3>1, <3>3, <3>4
    <3>6. UNCHANGED <<cache, replies>>
      BY <1>6 DEF Commit
    <3> QED
      BY <2>3, <3>5, <3>6 DEF NtpInv, SaysNtp
  <2> QED
    BY <2>2, <2>3
<1>7. CASE Losses
  <2>1. /\ UNCHANGED <<conf, cache>>
        /\ replies' = replies \/ (replies # <<>> /\ replies' = Tail(replies))
        /\ notices' = notices \/ (notices # <<>> /\ notices' = Tail(notices))
    BY <1>7 DEF Losses, LoseRequest, LoseReply, LoseNotice
  <2>2. \A n \in 1..Len(replies') : ~SaysNtp(replies'[n])
    <3>1. CASE replies' = replies
      BY <3>1
    <3>2. CASE replies # <<>> /\ replies' = Tail(replies)
      <4>1. /\ Len(replies) \in Nat /\ Len(replies') = Len(replies) - 1
            /\ \A n \in 1..Len(replies') : replies'[n] = replies[n + 1]
        BY <3>2, Popped DEF TypeInv
      <4>2. \A n \in 1..Len(replies') : n + 1 \in 1..Len(replies)
        BY <4>1
      <4> QED
        BY <4>1, <4>2
    <3> QED
      BY <2>1, <3>1, <3>2
  <2>3. \A n \in 1..Len(notices') : ~SaysNtp(notices'[n])
    <3>1. CASE notices' = notices
      BY <3>1
    <3>2. CASE notices # <<>> /\ notices' = Tail(notices)
      <4>1. /\ Len(notices) \in Nat /\ Len(notices') = Len(notices) - 1
            /\ \A n \in 1..Len(notices') : notices'[n] = notices[n + 1]
        BY <3>2, Popped DEF TypeInv
      <4>2. \A n \in 1..Len(notices') : n + 1 \in 1..Len(notices)
        BY <4>1
      <4> QED
        BY <4>1, <4>2
    <3> QED
      BY <2>1, <3>1, <3>2
  <2> QED
    BY <2>1, <2>2, <2>3 DEF NtpInv, SaysNtp
<1> QED
  BY <1>2, <1>3, <1>4, <1>5, <1>6, <1>7 DEF Next, Responses, Losses

\* The queues, when before_start sends a request.
LEMMA SendStep ==
  ASSUME TypeInv, OrderInv, WaitingInv, UsersInv, SendRequest
  PROVE  OrderInv' /\ WaitingInv' /\ UsersInv'
<1>1. PICK i \in 1..5 :
        /\ state[Order[i]] = "unsent"
        /\ \A j \in 1..(i - 1) : state[Order[j]] # "unsent"
        /\ state' = [state EXCEPT ![Order[i]] = "waiting"]
        /\ requests' = Append(requests, Order[i])
  BY DEF SendRequest
<1>2. UNCHANGED <<replies, dropped>>
  BY DEF SendRequest
<1> DEFINE s0 == Order[i]
<1>3. s0 \in Sections /\ Rank(s0) = i
  BY Ranks
<1>4. /\ Len(requests) \in Nat /\ Len(requests') = Len(requests) + 1
      /\ \A n \in 1..Len(requests) : requests'[n] = requests[n] /\ requests[n] \in Sections
      /\ requests'[Len(requests) + 1] = s0
  BY <1>1, <1>3, Pushed, ElementOfSeq DEF TypeInv
<1>5. Len(replies) \in Nat
      /\ \A n \in 1..Len(replies) : replies[n].section \in Sections
  BY LenProperties, ElementOfSeq DEF TypeInv, Brought
<1>6. /\ \A n \in 1..Len(requests) : Rank(requests[n]) < i
      /\ \A n \in 1..Len(replies) : Rank(replies[n].section) < i
  BY <1>1, <1>3 DEF OrderInv
<1>7. \A s \in Sections : state[s] # state'[s] => s = s0
  BY <1>1, <1>3 DEF TypeInv
<1>8. state'[s0] = "waiting"
  BY <1>1, <1>3 DEF TypeInv
<1>9. ASSUME NEW s \in Sections, state'[s] = "unsent"
      PROVE  state[s] = "unsent" /\ Rank(s) > i
  <2>1. state[s] = "unsent" /\ s # s0
    BY <1>7, <1>8, <1>9
  <2>2. Rank(s) \in 1..5 /\ Order[Rank(s)] = s
    BY Ranks
  <2>3. Rank(s) # i
    BY <2>1, <2>2
  <2>4. ~(Rank(s) < i)
    BY <1>1, <2>1, <2>2
  <2> QED
    BY <2>1, <2>2, <2>3, <2>4
<1>10. \A n \in 1..Len(requests') : n \in 1..Len(requests) \/ n = Len(requests) + 1
  BY <1>4
<1>11. OrderInv'
  <2>1. ASSUME NEW m \in 1..Len(requests'), NEW n \in 1..Len(requests'), m < n
        PROVE  Rank(requests'[m]) < Rank(requests'[n])
    <3>1. m \in 1..Len(requests)
      BY <1>4, <2>1
    <3>2. CASE n \in 1..Len(requests)
      BY <1>4, <2>1, <3>1, <3>2 DEF OrderInv
    <3>3. CASE n = Len(requests) + 1
      BY <1>3, <1>4, <1>6, <3>1, <3>3
    <3> QED
      BY <1>10, <3>2, <3>3
  <2>2. ASSUME NEW m \in 1..Len(replies), NEW n \in 1..Len(requests')
        PROVE  Rank(replies[m].section) < Rank(requests'[n])
    <3>1. CASE n \in 1..Len(requests)
      BY <1>4, <3>1 DEF OrderInv
    <3>2. CASE n = Len(requests) + 1
      BY <1>3, <1>4, <1>6, <3>2
    <3> QED
      BY <1>10, <3>1, <3>2
  <2>3. ASSUME NEW s \in Sections, state'[s] = "unsent"
        PROVE  /\ \A n \in 1..Len(requests') : Rank(requests'[n]) < Rank(s)
               /\ \A n \in 1..Len(replies) : Rank(replies[n].section) < Rank(s)
               /\ \A t \in Sections : Rank(s) < Rank(t) => state'[t] = "unsent"
    <3>1. state[s] = "unsent" /\ Rank(s) > i
      BY <1>9, <2>3
    <3>2. ASSUME NEW n \in 1..Len(requests') PROVE Rank(requests'[n]) < Rank(s)
      <4>1. CASE n \in 1..Len(requests)
        BY <1>4, <3>1, <4>1 DEF OrderInv
      <4>2. CASE n = Len(requests) + 1
        BY <1>3, <1>4, <3>1, <4>2
      <4> QED
        BY <1>10, <4>1, <4>2
    <3>3. \A n \in 1..Len(replies) : Rank(replies[n].section) < Rank(s)
      BY <3>1 DEF OrderInv
    <3>4. ASSUME NEW t \in Sections, Rank(s) < Rank(t) PROVE state'[t] = "unsent"
      <4>1. state[t] = "unsent"
        BY <3>1, <3>4 DEF OrderInv
      <4>2. t # s0
        BY <1>3, <3>1, <3>4, Ranks
      <4> QED
        BY <1>7, <4>1, <4>2
    <3> QED
      BY <3>2, <3>3, <3>4
  <2>4. \A m, n \in 1..Len(replies) :
          m < n => Rank(replies[m].section) < Rank(replies[n].section)
    BY DEF OrderInv
  <2> QED
    BY <1>2, <2>1, <2>2, <2>3, <2>4 DEF OrderInv
<1>12. WaitingInv'
  <2> SUFFICES ASSUME NEW s \in Sections, state'[s] = "waiting" PROVE OnItsWay(s)'
    BY DEF WaitingInv
  <2>1. CASE s = s0
    <3>1. Len(requests) + 1 \in 1..Len(requests')
      BY <1>4
    <3> QED
      BY <1>4, <2>1, <3>1 DEF OnItsWay
  <2>2. CASE s # s0
    <3>1. OnItsWay(s)
      BY <1>7, <2>2 DEF WaitingInv
    <3>2. \A n \in 1..Len(requests) : n \in 1..Len(requests') /\ requests'[n] = requests[n]
      BY <1>4
    <3> QED
      BY <1>2, <3>1, <3>2 DEF OnItsWay
  <2> QED
    BY <2>1, <2>2
<1>13. UsersInv'
  <2>1. state["users"] # "filled"
    BY <1>1, <1>3 DEF UsersInv, Settled
  <2>2. state'["users"] # "filled"
    BY <1>7, <1>8, <2>1, UsersLast
  <2> QED
    BY <2>2 DEF UsersInv
<1> QED
  BY <1>11, <1>12, <1>13

\* Taking the head off the replies keeps the order, if no section becomes
\* unsent.
LEMMA OrderWithoutReply ==
  ASSUME TypeInv, OrderInv, replies # <<>>, replies' = Tail(replies),
         requests' = requests,
         \A s \in Sections : state'[s] = "unsent" <=> state[s] = "unsent"
  PROVE  OrderInv'
<1>1. /\ Len(replies) \in Nat /\ Len(replies) >= 1
      /\ Len(replies') = Len(replies) - 1
      /\ \A n \in 1..Len(replies') : replies'[n] = replies[n + 1]
  BY Popped DEF TypeInv
<1>2. \A n \in 1..Len(replies') : n + 1 \in 1..Len(replies)
  BY <1>1
<1>3. ASSUME NEW m \in 1..Len(replies'), NEW n \in 1..Len(replies'), m < n
      PROVE  Rank(replies'[m].section) < Rank(replies'[n].section)
  <2>1. m + 1 < n + 1
    BY <1>1, <1>3
  <2> QED
    BY <1>1, <1>2, <2>1 DEF OrderInv
<1>4. \A m \in 1..Len(replies'), n \in 1..Len(requests) :
        Rank(replies'[m].section) < Rank(requests[n])
  BY <1>1, <1>2 DEF OrderInv
<1>5. ASSUME NEW s \in Sections, state'[s] = "unsent"
      PROVE  /\ \A n \in 1..Len(requests) : Rank(requests[n]) < Rank(s)
             /\ \A n \in 1..Len(replies') : Rank(replies'[n].section) < Rank(s)
             /\ \A t \in Sections : Rank(s) < Rank(t) => state'[t] = "unsent"
  <2>1. state[s] = "unsent"
    BY <1>5
  <2> QED
    BY <1>1, <1>2, <2>1 DEF OrderInv
<1>6. \A m, n \in 1..Len(requests) : m < n => Rank(requests[m]) < Rank(requests[n])
  BY DEF OrderInv
<1> QED
  BY <1>3, <1>4, <1>5, <1>6 DEF OrderInv

\* The queues, when a reply is handled: behind the accounts' there is none.
LEMMA HandleReplyStep ==
  ASSUME TypeInv, OrderInv, WaitingInv, UsersInv, HandleReply
  PROVE  OrderInv' /\ WaitingInv' /\ UsersInv'
<1> DEFINE r == Head(replies)
<1>1. /\ replies # <<>> /\ replies' = Tail(replies) /\ UNCHANGED <<requests, dropped>>
      /\ \A s \in Sections : state[s] # "unsent"
      /\ IF state[r.section] = "waiting"
         THEN state' = [state EXCEPT ![r.section] = "filled"]
         ELSE state' = state
  BY DEF HandleReply, Started
<1>2. /\ Len(replies) \in Nat /\ Len(replies) >= 1 /\ r = replies[1] /\ r \in Brought
      /\ Len(replies') = Len(replies) - 1
      /\ \A n \in 1..Len(replies') : replies'[n] = replies[n + 1]
  BY <1>1, Popped DEF TypeInv
<1>3. r.section \in Sections
  BY <1>2 DEF Brought
<1>4. \A s \in Sections :
        state'[s] = IF s = r.section /\ state[s] = "waiting" THEN "filled" ELSE state[s]
  BY <1>1, <1>3 DEF TypeInv
<1>5. OrderInv'
  BY <1>1, <1>4, OrderWithoutReply
<1>6. \A n \in 2..Len(replies) :
        n - 1 \in 1..Len(replies') /\ replies'[n - 1] = replies[n]
  BY <1>2
<1>7. WaitingInv'
  <2> SUFFICES ASSUME NEW s \in Sections, state'[s] = "waiting" PROVE OnItsWay(s)'
    BY DEF WaitingInv
  <2>1. state[s] = "waiting" /\ s # r.section
    BY <1>4
  <2>2. OnItsWay(s)
    BY <2>1 DEF WaitingInv
  <2>3. \A n \in 1..Len(replies) : replies[n].section = s => n \in 2..Len(replies)
    BY <1>2, <2>1
  <2> QED
    BY <1>1, <1>6, <2>2, <2>3 DEF OnItsWay
<1>8. UsersInv'
  <2> SUFFICES ASSUME state'["users"] = "filled", NEW s \in Sections PROVE Settled(s)'
    BY DEF UsersInv
  <2>1. CASE state["users"] = "filled"
    <3>1. Settled(s)
      BY <2>1 DEF UsersInv
    <3> QED
      BY <1>1, <1>4, <3>1 DEF Settled
  <2>2. CASE state["users"] # "filled"
    <3>1. r.section = "users"
      BY <1>4, <2>2, UsersLast
    <3>2. ASSUME NEW n \in 2..Len(replies) PROVE FALSE
      <4>1. n \in 1..Len(replies) /\ 1 \in 1..Len(replies) /\ 1 < n
        BY <1>2
      <4>2. Rank(replies[1].section) < Rank(replies[n].section)
        BY <4>1 DEF OrderInv
      <4>3. replies[n].section \in Sections
        BY <4>1, ElementOfSeq DEF TypeInv, Brought
      <4> QED
        BY <1>2, <3>1, <4>2, <4>3, UsersLast, Ranks
    <3>3. ASSUME NEW n \in 1..Len(requests) PROVE FALSE
      <4>1. 1 \in 1..Len(replies)
        BY <1>2
      <4>2. Rank(replies[1].section) < Rank(requests[n])
        BY <4>1 DEF OrderInv
      <4>3. requests[n] \in Sections
        BY ElementOfSeq DEF TypeInv
      <4> QED
        BY <1>2, <3>1, <4>2, <4>3, UsersLast, Ranks
    <3>4. CASE state'[s] = "waiting"
      <4>1. OnItsWay(s)'
        BY <1>7, <3>4 DEF WaitingInv
      <4>2. \A n \in 1..Len(replies') : n + 1 \in 2..Len(replies)
        BY <1>2
      <4>3. s \in dropped
        BY <1>1, <3>2, <3>3, <4>1, <4>2 DEF OnItsWay
      <4> QED
        BY <1>1, <3>4, <4>3 DEF Settled
    <3>5. CASE state'[s] # "waiting"
      <4>1. state'[s] \in {"filled", "expired"}
        BY <1>1, <1>4, <3>5 DEF TypeInv
      <4> QED
        BY <4>1 DEF Settled
    <3> QED
      BY <3>4, <3>5
  <2> QED
    BY <2>1, <2>2
<1> QED
  BY <1>5, <1>7, <1>8

\* The queues, when iconfig serves a request.
LEMMA ServeStep ==
  ASSUME TypeInv, OrderInv, WaitingInv, UsersInv, Serve
  PROVE  OrderInv' /\ WaitingInv' /\ UsersInv'
<1> DEFINE r == [section |-> Head(requests), value |-> conf[Head(requests)]]
<1>1. /\ requests # <<>> /\ requests' = Tail(requests) /\ replies' = Append(replies, r)
      /\ UNCHANGED <<state, dropped>>
  BY DEF Serve
<1>2. /\ Len(requests) \in Nat /\ Len(requests) >= 1
      /\ Head(requests) = requests[1] /\ Head(requests) \in Sections
      /\ Len(requests') = Len(requests) - 1
      /\ \A n \in 1..Len(requests') : requests'[n] = requests[n + 1]
  BY <1>1, Popped DEF TypeInv
<1>3. r \in Brought
  BY <1>2 DEF Brought, TypeInv
<1>4. /\ Len(replies) \in Nat /\ Len(replies') = Len(replies) + 1
      /\ \A n \in 1..Len(replies) : replies'[n] = replies[n]
      /\ replies'[Len(replies) + 1].section = requests[1]
  BY <1>1, <1>2, <1>3, Pushed DEF TypeInv
<1>5. /\ \A n \in 1..Len(requests') : n + 1 \in 2..Len(requests)
      /\ \A n \in 1..Len(replies') : n \in 1..Len(replies) \/ n = Len(replies) + 1
      /\ 1 \in 1..Len(requests) /\ \A n \in 2..Len(requests) : 1 < n /\ n \in 1..Len(requests)
  BY <1>2, <1>4
<1>6. OrderInv'
  <2>1. ASSUME NEW m \in 1..Len(requests'), NEW n \in 1..Len(requests'), m < n
        PROVE  Rank(requests'[m]) < Rank(requests'[n])
    <3>1. m + 1 < n + 1 /\ m + 1 \in 1..Len(requests) /\ n + 1 \in 1..Len(requests)
      BY <1>2, <2>1
    <3> QED
      BY <1>2, <3>1 DEF OrderInv
  <2>2. ASSUME NEW m \in 1..Len(replies'), NEW n \in 1..Len(replies'), m < n
        PROVE  Rank(replies'[m].section) < Rank(replies'[n].section)
    <3>1. m \in 1..Len(replies)
      BY <1>4, <2>2
    <3>2. CASE n \in 1..Len(replies)
      BY <1>4, <2>2, <3>1, <3>2 DEF OrderInv
    <3>3. CASE n = Len(replies) + 1
      BY <1>4, <1>5, <3>1, <3>3 DEF OrderInv
    <3> QED
      BY <1>5, <3>2, <3>3
  <2>3. ASSUME NEW m \in 1..Len(replies'), NEW n \in 1..Len(requests')
        PROVE  Rank(replies'[m].section) < Rank(requests'[n])
    <3>1. n + 1 \in 2..Len(requests) /\ n + 1 \in 1..Len(requests)
      BY <1>5
    <3>2. CASE m \in 1..Len(replies)
      BY <1>2, <1>4, <3>1, <3>2 DEF OrderInv
    <3>3. CASE m = Len(replies) + 1
      <4>1. Rank(requests[1]) < Rank(requests[n + 1])
        BY <1>5, <3>1 DEF OrderInv
      <4> QED
        BY <1>2, <1>4, <3>3, <4>1
    <3> QED
      BY <1>5, <3>2, <3>3
  <2>4. ASSUME NEW s \in Sections, state[s] = "unsent"
        PROVE  /\ \A n \in 1..Len(requests') : Rank(requests'[n]) < Rank(s)
               /\ \A n \in 1..Len(replies') : Rank(replies'[n].section) < Rank(s)
               /\ \A t \in Sections : Rank(s) < Rank(t) => state[t] = "unsent"
    <3>1. \A n \in 1..Len(requests') : Rank(requests'[n]) < Rank(s)
      BY <1>2, <1>5, <2>4 DEF OrderInv
    <3>2. ASSUME NEW n \in 1..Len(replies') PROVE Rank(replies'[n].section) < Rank(s)
      <4>1. CASE n \in 1..Len(replies)
        BY <1>4, <2>4, <4>1 DEF OrderInv
      <4>2. CASE n = Len(replies) + 1
        BY <1>4, <1>5, <2>4, <4>2 DEF OrderInv
      <4> QED
        BY <1>5, <4>1, <4>2
    <3> QED
      BY <2>4, <3>1, <3>2 DEF OrderInv
  <2> QED
    BY <1>1, <2>1, <2>2, <2>3, <2>4 DEF OrderInv
<1>7. WaitingInv'
  <2> SUFFICES ASSUME NEW s \in Sections, state'[s] = "waiting" PROVE OnItsWay(s)'
    BY DEF WaitingInv
  <2>1. OnItsWay(s)
    BY <1>1 DEF WaitingInv
  <2>2. CASE s \in dropped
    BY <1>1, <2>2 DEF OnItsWay
  <2>3. CASE \E n \in 1..Len(replies) : replies[n].section = s
    <3>1. PICK n \in 1..Len(replies) : replies[n].section = s
      BY <2>3
    <3>2. n \in 1..Len(replies') /\ replies'[n].section = s
      BY <1>4, <3>1
    <3> QED
      BY <3>2 DEF OnItsWay
  <2>4. CASE \E n \in 1..Len(requests) : requests[n] = s
    <3>1. PICK n \in 1..Len(requests) : requests[n] = s
      BY <2>4
    <3>2. CASE n = 1
      <4>1. Len(replies) + 1 \in 1..Len(replies') /\ replies'[Len(replies) + 1].section = s
        BY <1>4, <3>1, <3>2
      <4> QED
        BY <4>1 DEF OnItsWay
    <3>3. CASE n # 1
      <4>1. n - 1 \in 1..Len(requests') /\ requests'[n - 1] = s
        BY <1>2, <3>1, <3>3
      <4> QED
        BY <4>1 DEF OnItsWay
    <3> QED
      BY <3>2, <3>3
  <2> QED
    BY <2>1, <2>2, <2>3, <2>4 DEF OnItsWay
<1>8. UsersInv'
  BY <1>1 DEF UsersInv, Settled
<1> QED
  BY <1>6, <1>7, <1>8

\* The queues, when a request or a reply is lost.
LEMMA LossStep ==
  ASSUME TypeInv, OrderInv, WaitingInv, UsersInv, LoseRequest \/ LoseReply
  PROVE  OrderInv' /\ WaitingInv' /\ UsersInv'
<1>1. state' = state /\ dropped \subseteq dropped'
  BY DEF LoseRequest, LoseReply
<1>2. UsersInv'
  BY <1>1 DEF UsersInv, Settled
<1>3. CASE LoseRequest
  <2>1. /\ requests # <<>> /\ requests' = Tail(requests) /\ replies' = replies
        /\ dropped' = dropped \cup {Head(requests)}
    BY <1>3 DEF LoseRequest
  <2>2. /\ Len(requests) \in Nat /\ Len(requests) >= 1 /\ Head(requests) = requests[1]
        /\ Len(requests') = Len(requests) - 1
        /\ \A n \in 1..Len(requests') : requests'[n] = requests[n + 1]
    BY <2>1, Popped DEF TypeInv
  <2>3. \A n \in 1..Len(requests') : n + 1 \in 1..Len(requests)
    BY <2>2
  <2>4. ASSUME NEW m \in 1..Len(requests'), NEW n \in 1..Len(requests'), m < n
        PROVE  Rank(requests'[m]) < Rank(requests'[n])
    <3>1. m + 1 < n + 1
      BY <2>2, <2>4
    <3> QED
      BY <2>2, <2>3, <3>1 DEF OrderInv
  <2>5. OrderInv'
    <3>1. \A m \in 1..Len(replies), n \in 1..Len(requests') :
            Rank(replies[m].section) < Rank(requests'[n])
      BY <2>2, <2>3 DEF OrderInv
    <3>2. \A s \in Sections : state[s] = "unsent" =>
            /\ \A n \in 1..Len(requests') : Rank(requests'[n]) < Rank(s)
            /\ \A n \in 1..Len(replies) : Rank(replies[n].section) < Rank(s)
            /\ \A t \in Sections : Rank(s) < Rank(t) => state[t] = "unsent"
      BY <2>2, <2>3 DEF OrderInv
    <3>3. \A m, n \in 1..Len(replies) :
            m < n => Rank(replies[m].section) < Rank(replies[n].section)
      BY DEF OrderInv
    <3> QED
      BY <1>1, <2>1, <2>4, <3>1, <3>2, <3>3 DEF OrderInv
  <2>6. WaitingInv'
    <3> SUFFICES ASSUME NEW s \in Sections, state'[s] = "waiting" PROVE OnItsWay(s)'
      BY DEF WaitingInv
    <3>1. OnItsWay(s)
      BY <1>1 DEF WaitingInv
    <3>2. ASSUME NEW n \in 1..Len(requests), requests[n] = s
          PROVE  s \in dropped' \/ \E k \in 1..Len(requests') : requests'[k] = s
      <4>1. CASE n = 1
        BY <2>1, <2>2, <3>2, <4>1
      <4>2. CASE n # 1
        <5>1. n - 1 \in 1..Len(requests') /\ requests'[n - 1] = s
          BY <2>2, <3>2, <4>2
        <5> QED
          BY <5>1
      <4> QED
        BY <4>1, <4>2
    <3> QED
      BY <1>1, <2>1, <3>1, <3>2 DEF OnItsWay
  <2> QED
    BY <1>2, <2>5, <2>6
<1>4. CASE LoseReply
  <2>1. /\ replies # <<>> /\ replies' = Tail(replies) /\ requests' = requests
        /\ dropped' = dropped \cup {Head(replies).section}
    BY <1>4 DEF LoseReply
  <2>2. /\ Len(replies) \in Nat /\ Len(replies) >= 1 /\ Head(replies) = replies[1]
        /\ Len(replies') = Len(replies) - 1
        /\ \A n \in 1..Len(replies') : replies'[n] = replies[n + 1]
    BY <2>1, Popped DEF TypeInv
  <2>3. OrderInv'
    BY <1>1, <2>1, OrderWithoutReply
  <2>4. WaitingInv'
    <3> SUFFICES ASSUME NEW s \in Sections, state'[s] = "waiting" PROVE OnItsWay(s)'
      BY DEF WaitingInv
    <3>1. OnItsWay(s)
      BY <1>1 DEF WaitingInv
    <3>2. ASSUME NEW n \in 1..Len(replies), replies[n].section = s
          PROVE  s \in dropped' \/ \E k \in 1..Len(replies') : replies'[k].section = s
      <4>1. CASE n = 1
        BY <2>1, <2>2, <3>2, <4>1
      <4>2. CASE n # 1
        <5>1. n - 1 \in 1..Len(replies') /\ replies'[n - 1].section = s
          BY <2>2, <3>2, <4>2
        <5> QED
          BY <5>1
      <4> QED
        BY <4>1, <4>2
    <3> QED
      BY <1>1, <2>1, <3>1, <3>2 DEF OnItsWay
  <2> QED
    BY <1>2, <2>3, <2>4
<1> QED
  BY <1>3, <1>4

\* The queues, in every step.
LEMMA QueueStep ==
  ASSUME TypeInv, OrderInv, WaitingInv, UsersInv, [Next]_vars
  PROVE  OrderInv' /\ WaitingInv' /\ UsersInv'
<1>1. CASE SendRequest
  BY <1>1, SendStep
<1>2. CASE HandleReply
  BY <1>2, HandleReplyStep
<1>3. CASE Expire
  <2>1. PICK e \in Sections :
          state[e] = "waiting" /\ state' = [state EXCEPT ![e] = "expired"]
    BY <1>3 DEF Expire
  <2>2. UNCHANGED <<requests, replies, dropped>>
    BY <1>3 DEF Expire
  <2>3. \A s \in Sections : state'[s] = IF s = e THEN "expired" ELSE state[s]
    BY <2>1 DEF TypeInv
  <2>4. \A s \in Sections : state'[s] = "unsent" <=> state[s] = "unsent"
    BY <2>1, <2>3
  <2>5. OrderInv'
    BY <2>2, <2>4 DEF OrderInv
  <2>6. WaitingInv'
    BY <2>2, <2>3 DEF WaitingInv, OnItsWay
  <2>7. UsersInv'
    BY <2>2, <2>3, UsersLast DEF UsersInv, Settled
  <2> QED
    BY <2>5, <2>6, <2>7
<1>4. CASE HandleNotice \/ Commit \/ LoseNotice \/ Responses \/ UNCHANGED vars
  <2>1. UNCHANGED <<state, requests, replies, dropped>>
    BY <1>4, ResponsesOnly DEF HandleNotice, Commit, LoseNotice, vars
  <2> QED
    BY <2>1 DEF OrderInv, WaitingInv, OnItsWay, UsersInv, Settled
<1>5. CASE Serve
  BY <1>5, ServeStep
<1>6. CASE LoseRequest \/ LoseReply
  BY <1>6, LossStep
<1> QED
  BY <1>1, <1>2, <1>3, <1>4, <1>5, <1>6 DEF Next, Responses

\* The cache.
LEMMA CacheStep ==
  ASSUME TypeInv, CacheInv, [Next]_vars
  PROVE  CacheInv'
<1>0. "users" \in Sections
  BY UsersLast
<1>1. CASE SendRequest \/ Expire
  <2>1. UNCHANGED <<cache, noticed>>
    BY <1>1 DEF SendRequest, Expire
  <2>2. PICK s0 \in Sections : \E v \in {"waiting", "expired"} :
          state[s0] # "filled" /\ state' = [state EXCEPT ![s0] = v]
    BY <1>1, Ranks DEF SendRequest, Expire
  <2>3. \A s \in Sections : state'[s] = "filled" <=> state[s] = "filled"
    BY <2>2 DEF TypeInv
  <2> QED
    BY <1>0, <2>1, <2>3 DEF CacheInv
<1>2. CASE HandleReply
  <2> DEFINE r == Head(replies)
  <2>1. r \in Brought
    BY <1>2, Popped DEF HandleReply, TypeInv
  <2>2. r.section \in Sections /\ r.value \in ValuesOf(r.section)
    BY <2>1 DEF Brought
  <2>3. r.value # Missing
    BY <2>2, MissingAssumption DEF ValuesOf
  <2>4. CASE state[r.section] = "waiting"
    <3>1. /\ cache' = [cache EXCEPT ![r.section] = r.value]
          /\ state' = [state EXCEPT ![r.section] = "filled"]
          /\ noticed' = noticed
      BY <1>2, <2>4 DEF HandleReply
    <3> QED
      BY <1>0, <2>2, <2>3, <3>1 DEF CacheInv, TypeInv
  <2>5. CASE state[r.section] # "waiting"
    BY <1>2, <2>5 DEF HandleReply, CacheInv
  <2> QED
    BY <2>4, <2>5
<1>3. CASE HandleNotice
  <2> DEFINE r == Head(notices)
  <2>1. r \in Brought
    BY <1>3, Popped DEF HandleNotice, TypeInv
  <2>2. r.section \in Sections /\ r.value \in ValuesOf(r.section)
    BY <2>1 DEF Brought
  <2>3. r.value # Missing
    BY <2>2, MissingAssumption DEF ValuesOf
  <2>4. /\ cache' = [cache EXCEPT ![r.section] = r.value]
        /\ noticed' = noticed \cup {r.section} /\ state' = state
    BY <1>3 DEF HandleNotice
  <2> QED
    BY <1>0, <2>2, <2>3, <2>4 DEF CacheInv, TypeInv
<1>4. CASE Responses \/ Serve \/ Commit \/ Losses \/ UNCHANGED vars
  <2>1. UNCHANGED <<state, cache, noticed>>
    BY <1>4, ResponsesOnly
       DEF Serve, Commit, Losses, LoseRequest, LoseReply, LoseNotice, vars
  <2> QED
    BY <2>1 DEF CacheInv
<1> QED
  BY <1>1, <1>2, <1>3, <1>4 DEF Next, Responses, Losses

\* A section that is missing although the client was let in.
LEMMA MissingExplained ==
  ASSUME UsersInv, CacheInv, onvif_access_control,
         NEW s \in Sections, cache[s] = Missing
  PROVE  WentWrong(s)
<1>1. CASE state["users"] = "filled"
  <2>1. Settled(s) /\ state[s] # "filled"
    BY <1>1 DEF UsersInv, CacheInv
  <2> QED
    BY <2>1 DEF Settled, WentWrong
<1>2. CASE state["users"] # "filled"
  BY <1>2 DEF onvif_access_control, CacheInv, WentWrong
<1> QED
  BY <1>1, <1>2

\* A start that went wrong stays so.
LEMMA WrongForGood ==
  ASSUME TypeInv, [Next]_vars, NEW s \in Sections, WentWrong(s)
  PROVE  WentWrong(s)'
<1>1. dropped \subseteq dropped' /\ noticed \subseteq noticed'
  <2>1. CASE Responses
    BY <2>1, ResponsesOnly
  <2>2. CASE ~Responses
    BY <2>2 DEF Next, Responses, SendRequest, HandleReply, Expire, HandleNotice,
       Serve, Commit, LoseRequest, LoseReply, LoseNotice, vars
  <2> QED
    BY <2>1, <2>2
<1>2. ASSUME state[s] = "expired" PROVE state'[s] = "expired"
  <2>1. CASE SendRequest
    BY <1>2, <2>1 DEF SendRequest, TypeInv
  <2>2. CASE HandleReply
    BY <1>2, <2>2 DEF HandleReply, TypeInv
  <2>3. CASE Expire
    BY <1>2, <2>3 DEF Expire, TypeInv
  <2>4. CASE Responses
    BY <1>2, <2>4, ResponsesOnly
  <2>5. CASE HandleNotice \/ Serve \/ Commit \/ Losses \/ UNCHANGED vars
    BY <1>2, <2>5 DEF HandleNotice, Serve, Commit, Losses, LoseRequest, LoseReply,
       LoseNotice, vars
  <2> QED
    BY <2>1, <2>2, <2>3, <2>4, <2>5 DEF Next, Responses, Losses
<1> QED
  BY <1>1, <1>2 DEF WentWrong

\* What a response says is changed by the SOAP thread alone.
LEMMA SoapOnly ==
  ASSUME [Next]_vars, ~Responses
  PROVE  /\ response' = response /\ held' = held
         /\ usedNtp = TRUE => usedNtp' = TRUE
BY DEF Next, Responses, SendRequest, HandleReply, Expire, HandleNotice,
   Serve, Commit, LoseRequest, LoseReply, LoseNotice, vars

\* What GetDeviceInformation holds.
LEMMA HeldStep ==
  ASSUME SInv, [Next]_vars
  PROVE  HeldInv'
<1>0. "base_info" \in Sections
  BY Ranks
<1>1. WentWrong("base_info") => WentWrong("base_info")'
  BY <1>0, WrongForGood DEF SInv
<1>2. CASE ReadDeviceInformation
  <2>1. held' = [value |-> cache["base_info"], account |-> cache["users"]]
    BY <1>2 DEF ReadDeviceInformation
  <2>2. cache["base_info"] = Missing /\ cache["users"] # Missing => WentWrong("base_info")
    BY <1>0, MissingExplained DEF SInv, onvif_access_control
  <2> QED
    BY <1>1, <2>1, <2>2 DEF HeldInv
<1>3. CASE GetDeviceInformation
  BY <1>3 DEF GetDeviceInformation, HeldInv
<1>4. CASE Responses /\ ~ReadDeviceInformation /\ ~GetDeviceInformation
  <2>1. held' = held
    BY <1>4 DEF Responses, GetCapabilities, GetNetworkProtocols, GetScopes,
       GetSystemDateAndTime, Respond
  <2> QED
    BY <1>1, <2>1 DEF SInv, HeldInv
<1>5. CASE ~Responses
  BY <1>1, <1>5, SoapOnly DEF SInv, HeldInv
<1> QED
  BY <1>2, <1>3, <1>4, <1>5

\* Responses.
LEMMA ResponseStep ==
  ASSUME SInv, [Next]_vars
  PROVE  AuthenticatedReadsFilled'
<1>0. /\ "base_info" \in Sections /\ "network" \in Sections /\ "datetime" \in Sections
  BY Ranks
<1>1. ASSUME NEW s \in Sections, WentWrong(s) PROVE WentWrong(s)'
  BY <1>1, WrongForGood DEF SInv
<1>2. CASE GetCapabilities
  BY <1>2 DEF GetCapabilities, Respond, AuthenticatedReadsFilled, MadeOfNothing
<1>3. CASE GetNetworkProtocols
  <2>1. /\ response'.op = "GetNetworkProtocols" /\ response'.value = cache["network"]
        /\ onvif_access_control
    BY <1>3 DEF GetNetworkProtocols, Respond
  <2>2. cache["network"] = Missing => WentWrong("network")'
    BY <1>0, <1>1, <2>1, MissingExplained DEF SInv
  <2> QED
    BY <2>1, <2>2 DEF AuthenticatedReadsFilled, MadeOfNothing, SectionOf
<1>4. CASE GetScopes
  <2>1. /\ response'.op = "GetScopes" /\ response'.value = cache["base_info"]
        /\ onvif_access_control
    BY <1>4 DEF GetScopes, Respond
  <2>2. cache["base_info"] = Missing => WentWrong("base_info")'
    BY <1>0, <1>1, <2>1, MissingExplained DEF SInv
  <2> QED
    BY <2>1, <2>2 DEF AuthenticatedReadsFilled, MadeOfNothing, SectionOf
<1>5. CASE GetSystemDateAndTime
  <2>1. /\ onvif_access_control
        /\ response'.op = "GetSystemDateAndTime"
        /\ response'.value = "NTP" => cache["datetime"] # 0
        /\ usedNtp' = usedNtp
    BY <1>5 DEF GetSystemDateAndTime, Respond
  <2>2. ~usedNtp => cache["datetime"] # 1
    BY DEF SInv, NtpInv, TypeInv
  <2>3. cache["datetime"] \in {0, 1, Missing}
    BY <1>0 DEF SInv, TypeInv, ValuesOf
  <2>4. MadeOfNothing' => cache["datetime"] = Missing
    BY <2>1, <2>2, <2>3 DEF MadeOfNothing
  <2>5. cache["datetime"] = Missing => WentWrong("datetime")'
    BY <1>0, <1>1, <2>1, MissingExplained DEF SInv
  <2> QED
    BY <2>1, <2>4, <2>5 DEF AuthenticatedReadsFilled, SectionOf
<1>6. CASE ReadDeviceInformation
  BY <1>6 DEF ReadDeviceInformation, AuthenticatedReadsFilled, MadeOfNothing
<1>7. CASE GetDeviceInformation
  <2>1. response = NoResponse /\ held # NoResponse
    BY <1>7 DEF GetDeviceInformation, SInv, TypeInv
  <2>2. CASE response' = response
    BY <2>1, <2>2 DEF AuthenticatedReadsFilled, MadeOfNothing
  <2>3. CASE response' # response
    <3>1. /\ response'.op = "GetDeviceInformation"
          /\ response'.value = held.value /\ response'.account = held.account
      BY <1>7, <2>3 DEF GetDeviceInformation
    <3>2. held.value = Missing /\ held.account # Missing => WentWrong("base_info")'
      BY <1>0, <1>1, <2>1 DEF SInv, HeldInv
    <3> QED
      BY <3>1, <3>2 DEF AuthenticatedReadsFilled, MadeOfNothing, SectionOf, ReadEarly
  <2> QED
    BY <2>2, <2>3
<1>8. CASE ~Responses
  <2>1. response' = response /\ (usedNtp = TRUE => usedNtp' = TRUE)
    BY <1>8, SoapOnly
  <2>2. MadeOfNothing' => MadeOfNothing
    BY <2>1 DEF MadeOfNothing, SInv, TypeInv
  <2>3. MadeOfNothing => SectionOf[response.op] \in Sections
    <3>1. MadeOfNothing => response.op \in {"GetNetworkProtocols", "GetScopes",
                                "GetDeviceInformation", "GetSystemDateAndTime"}
      BY DEF MadeOfNothing, SInv, TypeInv, Responded, Readers
    <3> QED
      BY <1>0, <3>1 DEF SectionOf
  <2>4. MadeOfNothing => WentWrong(SectionOf[response.op])' \/ ReadEarly
    BY <1>1, <2>1, <2>3 DEF SInv, AuthenticatedReadsFilled
  <2> QED
    BY <2>1, <2>2, <2>4 DEF AuthenticatedReadsFilled, ReadEarly
<1> QED
  BY <1>2, <1>3, <1>4, <1>5, <1>6, <1>7, <1>8 DEF Responses

-----------------------------------------------------------------------------
\* Types, queues, cache and responses are right in every state.
THEOREM Inductive == Spec => []SInv
<1>1. Init => SInv
  <2> SUFFICES ASSUME Init PROVE SInv
    OBVIOUS
  <2>1. /\ state = [s \in Sections |-> "unsent"] /\ cache = [s \in Sections |-> Missing]
        /\ requests = <<>> /\ replies = <<>> /\ notices = <<>> /\ changes = 0
        /\ conf \in [Sections -> Values \cup {0, 1}]
        /\ \A s \in Sections : conf[s] \in ValuesOf(s)
        /\ held = NoResponse /\ response = NoResponse /\ dropped = {} /\ noticed = {}
        /\ usedNtp = (conf["datetime"] = 1)
    BY DEF Init
  <2>2. requests \in Seq(Sections) /\ replies \in Seq(Brought) /\ notices \in Seq(Brought)
        /\ Len(requests) = 0 /\ Len(replies) = 0 /\ Len(notices) = 0
    BY <2>1, EmptySeq
  <2>3. usedNtp \in BOOLEAN /\ (usedNtp = TRUE \/ conf["datetime"] # 1)
    BY <2>1
  <2>4. changes \in 0..MaxNotices
    BY <2>1, MaxNoticesAssumption
  <2>5. TypeInv
    BY <2>1, <2>2, <2>3, <2>4 DEF TypeInv
  <2>6. cache["datetime"] # 1 /\ "users" \in Sections
    BY <2>1, MissingAssumption, Ranks
  <2>7. NtpInv
    BY <2>2, <2>3, <2>6 DEF NtpInv
  <2>8. OrderInv
    BY <2>1, <2>2 DEF OrderInv
  <2>9. WaitingInv /\ UsersInv /\ CacheInv
    BY <2>1, <2>6 DEF WaitingInv, UsersInv, CacheInv
  <2>10. HeldInv /\ AuthenticatedReadsFilled
    BY <2>1 DEF HeldInv, AuthenticatedReadsFilled, MadeOfNothing
  <2> QED
    BY <2>5, <2>7, <2>8, <2>9, <2>10 DEF SInv
<1>2. SInv /\ [Next]_vars => SInv'
  BY TypeStep, NtpStep, QueueStep, CacheStep, HeldStep, ResponseStep DEF SInv
<1> QED
  BY <1>1, <1>2, PTL DEF Spec

\* Every variable has its type.
THEOREM TypeCorrect == Spec => []TypeOK
<1>1. TypeInv => TypeOK
  <2> SUFFICES ASSUME TypeInv PROVE TypeOK
    OBVIOUS
  <2>1. \A n \in 1..Len(replies) : replies[n].value \in ValuesOf(replies[n].section)
    BY ElementOfSeq DEF TypeInv, Brought
  <2>2. \A n \in 1..Len(notices) : notices[n].value \in ValuesOf(notices[n].section)
    BY ElementOfSeq DEF TypeInv, Brought
  <2> QED
    BY <2>1, <2>2 DEF TypeInv, TypeOK
<1> QED
  BY <1>1, Inductive, PTL DEF SInv

\* An operation that let its client in finds its section filled, and reports no
\* NTP that never was, unless the section's request was lost or given up, a
\* notice brought the account early, or the operation is GetDeviceInformation and
\* read before the account was there: the order of before_start's requests is
\* what this rests on.
THEOREM ReadsFilled == Spec => []AuthenticatedReadsFilled
BY Inductive, PTL DEF SInv
=============================================================================
