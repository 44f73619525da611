---------------------------- MODULE SettingsSync ----------------------------
(***************************************************************************)
(* The network section of the settings cache, priv->cached_property_hash,  *)
(* key by key: how the loop thread updates it from the startup reply and   *)
(* the set_network notices, while the SOAP thread's handlers read it.      *)
(*                                                                         *)
(* The mutex is held for one lookup or one insertion.  A message sets its  *)
(* keys one after the other, a handler may read several keys, and what a   *)
(* lookup returns is a pointer into the table, which the insertion of a    *)
(* new value for that key frees.                                           *)
(*                                                                         *)
(* A setting is named by the revision of iconfig's network section that    *)
(* gave it its value, so that newer and older can be told apart.  The keys *)
(* no handler reads are left out.  iconfig is outside the repository: log  *)
(* is the changes it has made, and announces in order, since the daemon    *)
(* registered its notice handlers.  Calls behave as module Rpc says.       *)
(***************************************************************************)
EXTENDS Integers, Sequences

CONSTANTS NotHeld,    \* the handler has no pointer for a key
          Freed,      \* the pointer it has is to freed memory
          Unread,     \* the handler has not used a key
          Garbage,    \* what it made of freed memory
          BadAddress, \* the first characters of an address, taken for a pointer
          Others,     \* the sets of keys other clients of iconfig change
          MaxRevs     \* bound: the changes iconfig makes

Keys == {"ipaddr", "dns1", "dns2", "http", "rtsp"}

ASSUME NothingAssumption ==
  {NotHeld, Freed, Unread, Garbage, BadAddress} \cap Int = {}
ASSUME DistinctAssumption ==
  NotHeld # Freed /\ Unread \notin {Garbage, BadAddress}
ASSUME OthersAssumption == Others \subseteq SUBSET Keys
ASSUME MaxRevsAssumption == MaxRevs \in Nat

\* A string that is not there is NULL, a number that is not there reads as -1.
Missing == -1

VARIABLES
  log,       \* iconfig: the keys each of its changes set
  cursor,    \* the change whose notice left the notice channel last
  lost,      \* history: some notice was lost
  query,     \* the startup get_network request
  snapshot,  \* the revision the reply carries, -1 before there is a reply
  mergedAt,  \* history: the cursor when the reply was handled, -1 before
  cache,     \* cached_property_hash: the revision of each key, or Missing
  todo,      \* loop thread: keys of the message in hand that are not set yet
  op,        \* SOAP thread: the operation it is in, or "none"
  step,      \* the step of the operation it is at
  held,      \* the pointer it holds for each key
  got,       \* what it has made of each key
  began      \* history: the cursor when it began, and whether it was settled

daemon == <<query, mergedAt, cache, todo>>
iconfig == <<log, snapshot>>
soap == <<op, step, held, got, began>>
vars == <<log, cursor, lost, query, snapshot, mergedAt, cache, todo, op, step,
          held, got, began>>

-----------------------------------------------------------------------------
\* The revision of key k after the first r changes.
ValueAt(k, r) ==
  CHOOSE i \in 0..r :
    (i = 0 \/ k \in log[i]) /\ \A j \in (i + 1)..r : k \notin log[j]

\* One of the changes after revision i, up to revision j, sets key k.
Touched(k, i, j) == \E n \in (i + 1)..j : k \in log[n]

\* The startup reply is merged and the notices of changes it covers handled.
Settled == query = "merged" /\ cursor >= snapshot /\ todo = {}

NothingHeld == [k \in Keys |-> NotHeld]
NothingRead == [k \in Keys |-> Unread]
NotBegun    == [cursor |-> 0, settled |-> FALSE]

\* ipcam_ionvif_init, and before_start up to the request for the network.
Init ==
  /\ log = <<>>
  /\ cursor = 0
  /\ lost = FALSE
  /\ query = "sent"
  /\ snapshot = -1
  /\ mergedAt = -1
  /\ cache = [k \in Keys |-> Missing]
  /\ todo = {}
  /\ op = "none"
  /\ step = 1
  /\ held = NothingHeld
  /\ got = NothingRead
  /\ began = NotBegun

-----------------------------------------------------------------------------
(***************************************************************************)
(* The loop thread.                                                        *)
(***************************************************************************)

\* Mutant: "dns2" is not looked for.
Order_without_dns2 == <<"ipaddr", "dns1", "http", "rtsp">>

\* The order in which update_network_setting looks for the keys of a message.
Order == <<"ipaddr", "dns1", "dns2", "http", "rtsp">>

Updated(keys) == keys \cap {Order[i] : i \in 1..Len(Order)}

\* The next key to set, if some are left.
IsNext(k) ==
  \E i \in 1..Len(Order) :
    k = Order[i] /\ k \in todo /\ \A j \in 1..(i - 1) : Order[j] \notin todo

\* Mutant: a reply that comes once more is merged once more.
MergeReply_again ==
  /\ query \in {"answered", "merged"}
  /\ todo = {}
  /\ query' = "merging"
  /\ todo' = Updated(Keys)
  /\ mergedAt' = IF mergedAt = -1 THEN cursor ELSE mergedAt
  /\ UNCHANGED <<log, cursor, lost, snapshot, cache, soap>>

\* The reply carries the whole section.
MergeReply ==
  /\ query = "answered"
  /\ todo = {}
  /\ query' = "merging"
  /\ todo' = Updated(Keys)
  /\ mergedAt' = cursor
  /\ UNCHANGED <<log, cursor, lost, snapshot, cache, soap>>

\* Mutant: a call with timeout is taken for the reply.
IgnoreReply_as_merged ==
  /\ query \in {"sent", "answered"}
  /\ todo = {}
  /\ query' = "merged"
  /\ UNCHANGED <<iconfig, cursor, lost, mergedAt, cache, todo, soap>>

\* The handler is called with timeout, or with a reply that has no body.
IgnoreReply ==
  /\ query \in {"sent", "answered"}
  /\ todo = {}
  /\ query' = "expired"
  /\ UNCHANGED <<iconfig, cursor, lost, mergedAt, cache, todo, soap>>

\* Mutant: set_network is not handled.
HandleNotice_ignored ==
  /\ cursor < Len(log)
  /\ todo = {}
  /\ cursor' = cursor + 1
  /\ UNCHANGED <<iconfig, lost, query, mergedAt, cache, todo, soap>>

HandleNotice ==
  /\ cursor < Len(log)
  /\ todo = {}
  /\ cursor' = cursor + 1
  /\ todo' = Updated(log[cursor + 1])
  /\ UNCHANGED <<iconfig, lost, query, mergedAt, cache, soap>>

\* Mutant: a key that is there is not set again.
set_property_if_missing(k, value) ==
  /\ cache' = IF cache[k] = Missing THEN [cache EXCEPT ![k] = value] ELSE cache
  /\ held' = held

\* The table frees the value it had, to which the handler may have a pointer.
set_property(k, value) ==
  /\ cache' = [cache EXCEPT ![k] = value]
  /\ held' = [held EXCEPT ![k] = IF @ \in Nat THEN Freed ELSE @]

\* update_network_setting sets the next key it finds in the message.
SetProperty ==
  /\ \E k \in todo :
       /\ IsNext(k)
       /\ set_property(k, IF query = "merging" THEN ValueAt(k, snapshot)
                          ELSE cursor)
       /\ todo' = todo \ {k}
       /\ query' = IF query = "merging" /\ todo' = {} THEN "merged" ELSE query
  /\ UNCHANGED <<iconfig, cursor, lost, mergedAt, op, step, got, began>>

-----------------------------------------------------------------------------
(***************************************************************************)
(* The SOAP thread's handlers that read the network section.               *)
(***************************************************************************)
Lookup(k) == [do |-> "lookup", key |-> k]
Use(k)    == [do |-> "use", key |-> k]
Call      == [do |-> "call", key |-> "ipaddr"]

\* What each handler does, in order.  A string is used after all lookups, a
\* number where it is looked up, after the unlock all the same.

\* GetWsdlUrl and GetCapabilities read what GetServices does.
GetServices == <<Lookup("ipaddr"), Use("ipaddr")>>

\* FromDHCP, which is read from a key that nothing sets, is left out.
GetDNS == <<Lookup("dns1"), Lookup("dns2"), Use("dns1"), Use("dns2")>>

GetNetworkProtocols ==
  <<Lookup("http"), Use("http"), Lookup("rtsp"), Use("rtsp")>>

\* Asks iconfig for the address, and looks it up only if there is no answer.
\* The path of the stream is of another section.
GetStreamUri ==
  <<Call, Lookup("ipaddr"), Use("ipaddr"), Lookup("rtsp"), Use("rtsp")>>

Program(o) ==
  CASE o = "GetServices"         -> GetServices
    [] o = "GetDNS"              -> GetDNS
    [] o = "GetNetworkProtocols" -> GetNetworkProtocols
    [] o = "GetStreamUri"        -> GetStreamUri
    [] OTHER                     -> <<>>

Readers == {"GetServices", "GetDNS", "GetNetworkProtocols", "GetStreamUri"}

\* The handler is at a step that does d to key k, and goes on to step s.
Goes(d, k, s) ==
  /\ step <= Len(Program(op))
  /\ Program(op)[step] = [do |-> d, key |-> k]
  /\ step' = s
  /\ UNCHANGED <<iconfig, cursor, lost, daemon, op, began>>

Begin ==
  /\ op = "none"
  /\ op' \in Readers
  /\ began' = [cursor |-> cursor, settled |-> Settled]
  /\ UNCHANGED <<iconfig, cursor, lost, daemon, step, held, got>>

get_property ==
  \E k \in Keys :
    /\ Goes("lookup", k, step + 1)
    /\ held' = [held EXCEPT ![k] = cache[k]]
    /\ got' = got

\* GetStreamUri looks the address up with get_int_property, and takes the number
\* it gets for the pointer to the string.
TakenForNumber(o, k) == o = "GetStreamUri" /\ k = "ipaddr"

\* What is made of a pointer.  get_int_property of a string gives its first
\* characters, but -1 if there is none.
UsedAs(k) ==
  IF held[k] = Freed THEN Garbage
  ELSE IF TakenForNumber(op, k) /\ held[k] # Missing THEN BadAddress
  ELSE held[k]

UseProperty ==
  \E k \in Keys :
    /\ Goes("use", k, step + 1)
    /\ got' = [got EXCEPT ![k] = UsedAs(k)]
    /\ held' = [held EXCEPT ![k] = NotHeld]

\* iconfig answers GetStreamUri.  The address is used after json_node_free: it
\* is there if the base service still has the message the node is a copy of.
Answered ==
  /\ Goes("call", "ipaddr", step + 3)
  /\ \E a \in {ValueAt("ipaddr", Len(log)), Garbage} :
       got' = [got EXCEPT !["ipaddr"] = a]
  /\ held' = held

Unanswered ==
  /\ Goes("call", "ipaddr", step + 1)
  /\ UNCHANGED <<held, got>>

Respond ==
  /\ op # "none"
  /\ step > Len(Program(op))
  /\ op' = "none"
  /\ step' = 1
  /\ held' = NothingHeld
  /\ got' = NothingRead
  /\ began' = NotBegun
  /\ UNCHANGED <<iconfig, cursor, lost, daemon>>

-----------------------------------------------------------------------------
(***************************************************************************)
(* iconfig's changes, some made by the SOAP thread's set operations, and   *)
(* the channels.  A set of a daemon that gave up on it is one of others'.  *)
(***************************************************************************)
Commit(keys) ==
  /\ Len(log) < MaxRevs
  /\ log' = Append(log, keys)
  /\ UNCHANGED <<cursor, lost, snapshot, daemon, soap>>

SetDNS == op = "none" /\ Commit({"dns1", "dns2"})

\* If the address is to come from DHCP, only keys that are left out are set.
SetNetworkInterfaces == op = "none" /\ Commit({"ipaddr"})

\* The ports that the request names.
SetNetworkProtocols ==
  op = "none" /\ \E keys \in SUBSET {"http", "rtsp"} \ {{}} : Commit(keys)

OthersChange == \E keys \in Others : Commit(keys)

AnswerGetNetwork ==
  /\ query = "sent"
  /\ query' = "answered"
  /\ snapshot' = Len(log)
  /\ UNCHANGED <<log, cursor, lost, mergedAt, cache, todo, soap>>

LoseNotice ==
  /\ cursor < Len(log)
  /\ todo = {}
  /\ cursor' = cursor + 1
  /\ lost' = TRUE
  /\ UNCHANGED <<iconfig, daemon, soap>>

Next ==
  \/ MergeReply \/ IgnoreReply \/ HandleNotice \/ SetProperty
  \/ Begin \/ get_property \/ UseProperty \/ Answered \/ Unanswered \/ Respond
  \/ SetDNS \/ SetNetworkInterfaces \/ SetNetworkProtocols
  \/ OthersChange \/ AnswerGetNetwork \/ LoseNotice

Spec == Init /\ [][Next]_vars

\* The loop thread keeps running: it finishes the message in hand, takes the
\* next one, and the request's 60 second timer fires if no reply comes.
Fairness ==
  /\ WF_vars(SetProperty)
  /\ WF_vars(HandleNotice)
  /\ WF_vars(MergeReply \/ IgnoreReply)

FairSpec == Spec /\ Fairness

-----------------------------------------------------------------------------
\* Every variable has its type, and the positions are positions of the log.
TypeOK ==
  /\ log \in Seq(SUBSET Keys)
  /\ Len(log) <= MaxRevs
  /\ cursor \in 0..Len(log)
  /\ lost \in BOOLEAN
  /\ query \in {"sent", "answered", "merging", "merged", "expired"}
  /\ snapshot \in -1..Len(log)
  /\ mergedAt \in -1..cursor
  /\ cache \in [Keys -> Missing..Len(log)]
  /\ todo \in SUBSET Keys
  /\ op \in Readers \cup {"none"}
  /\ step \in 1..(Len(Program(op)) + 1)
  /\ held \in [Keys -> (Missing..Len(log)) \cup {NotHeld, Freed}]
  /\ got \in [Keys -> (Missing..Len(log)) \cup {Unread, Garbage, BadAddress}]
  /\ began \in [cursor : 0..cursor, settled : BOOLEAN]
  /\ query \in {"answered", "merging", "merged"} => snapshot >= 0
  /\ query \in {"merging", "merged"} => mergedAt >= 0

\* When an operation began, key k was what an overtaken snapshot had made it:
\* a change made after the snapshot was taken had its notice handled before.
Overtaken(k) ==
  Touched(k, snapshot, mergedAt) /\ ~Touched(k, mergedAt, began.cursor)

\* The keys the operation has read from the cache and used.
WasRead(k) == got[k] # Unread /\ ~TakenForNumber(op, k)

\* An operation begun when the cache was settled reports no setting older than
\* what the daemon had been told by then, and none newer than what it has been
\* told by now.  It reads freed memory only if a notice handled while it ran
\* set that very key (get_property, set_property).
ReadsAreRecent ==
  ~lost /\ began.settled =>
    \A k \in Keys :
      WasRead(k) /\ ~Overtaken(k) =>
        \/ got[k] \in {ValueAt(k, r) : r \in began.cursor..cursor}
        \/ got[k] = Garbage /\ Touched(k, began.cursor, cursor)

\* Two settings an operation reports together (the two DNS servers, the two
\* ports) were iconfig's together at one time, unless both were changed by
\* notices handled while it ran.
MixedOnlyIfBothChange ==
  ~lost /\ began.settled =>
    \A k, l \in Keys :
      WasRead(k) /\ WasRead(l) /\ ~Overtaken(k) /\ ~Overtaken(l) =>
        \/ Touched(k, began.cursor, cursor) /\ Touched(l, began.cursor, cursor)
        \/ Garbage \in {got[k], got[l]}
        \/ \E r \in began.cursor..cursor :
             got[k] = ValueAt(k, r) /\ got[l] = ValueAt(l, r)

\* A setting in the cache goes back to an older one only while the startup reply
\* is merged, which happens once, or while notices of changes the reply already
\* had are handled after it.
BackOnlyAtStartup ==
  [][\A k \in Keys :
       cache'[k] < cache[k] => cursor = mergedAt \/ cursor <= snapshot]_vars

\* The cache ends equal to iconfig's section for good, unless a notice was lost,
\* the startup request expired, or the snapshot was overtaken.
EventuallyAgrees ==
  <>[](\/ \A k \in Keys : cache[k] = ValueAt(k, Len(log))
       \/ lost \/ query = "expired" \/ mergedAt > snapshot)

\* What GetStreamUri is documented to return: "a URI that can be used to initiate
\* a live media stream".  If iconfig does not answer and the cache has the address,
\* the URI's host is that address, and not what the memory has to which the first
\* characters of the address, taken for a pointer, happen to point.
UriHasAddress == op = "GetStreamUri" => got["ipaddr"] # BadAddress
=============================================================================
