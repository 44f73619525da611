------------------------- MODULE SettingsSync_proofs -------------------------
(***************************************************************************)
(* Invariance proofs for SettingsSync, for every number of changes and     *)
(* every choice of what other clients change.  At the end, that the cache  *)
(* comes to agree with iconfig.                                            *)
(***************************************************************************)
EXTENDS SettingsSync, TLAPS

-----------------------------------------------------------------------------
(***************************************************************************)
(* The inductive invariant.                                                *)
(***************************************************************************)

\* i is the revision of key k after the first r changes of l.
Latest(l, k, r, i) ==
  /\ i \in 0..r
  /\ i = 0 \/ k \in l[i]
  /\ \A j \in (i + 1)..r : k \notin l[j]

\* Every key has a revision after any number of changes.
HasValue == \A k \in Keys, r \in 0..Len(log) : \E i \in 0..r : Latest(log, k, r, i)

\* A handler has looked up what it is about to use.
HeldForUse ==
  /\ op = "GetServices" /\ step = 2 => held["ipaddr"] # NotHeld
  /\ op = "GetDNS" /\ step \in {2, 3} => held["dns1"] # NotHeld
  /\ op = "GetDNS" /\ step \in {3, 4} => held["dns2"] # NotHeld
  /\ op = "GetNetworkProtocols" /\ step = 2 => held["http"] # NotHeld
  /\ op = "GetNetworkProtocols" /\ step = 4 => held["rtsp"] # NotHeld
  /\ op = "GetStreamUri" /\ step = 3 => held["ipaddr"] # NotHeld
  /\ op = "GetStreamUri" /\ step = 5 => held["rtsp"] # NotHeld

TypeInv == TypeOK /\ HasValue /\ HeldForUse

-----------------------------------------------------------------------------
(***************************************************************************)
(* The revision of a key.                                                  *)
(***************************************************************************)

\* There is one, and ValueAt is it.
LEMMA ValueAtIsLatest ==
  ASSUME HasValue, NEW k \in Keys, NEW r \in 0..Len(log)
  PROVE  ValueAt(k, r) \in 0..r /\ Latest(log, k, r, ValueAt(k, r))
  <1>1. \E i \in 0..r :
          (i = 0 \/ k \in log[i]) /\ \A j \in (i + 1)..r : k \notin log[j]
    BY DEF HasValue, Latest
  <1> QED
    BY <1>1 DEF ValueAt, Latest

LEMMA LatestIsUnique ==
  ASSUME NEW l, NEW k, NEW r \in Nat, NEW i, NEW j,
         Latest(l, k, r, i), Latest(l, k, r, j)
  PROVE  i = j
  BY DEF Latest

\* A commit appends one set of keys.
LEMMA CommitExtends ==
  ASSUME TypeOK, NEW keys \in SUBSET Keys, Commit(keys)
  PROVE  /\ Len(log) < MaxRevs
         /\ log' \in Seq(SUBSET Keys)
         /\ Len(log') = Len(log) + 1
         /\ log'[Len(log) + 1] = keys
         /\ \A n \in 1..Len(log) : log'[n] = log[n]
         /\ UNCHANGED <<cursor, lost, query, snapshot, mergedAt, cache, todo,
                        op, step, held, got, began>>
  BY DEF TypeOK, Commit, daemon, soap

\* The changes that grow the log, and the steps that leave it alone.
Commits == \E keys \in SUBSET Keys : Commit(keys)

LEMMA NextCommits ==
  SetDNS \/ SetNetworkInterfaces \/ SetNetworkProtocols \/ OthersChange => Commits
  <1>1. {"dns1", "dns2"} \in SUBSET Keys /\ {"ipaddr"} \in SUBSET Keys
    BY DEF Keys
  <1>2. \A keys \in SUBSET {"http", "rtsp"} : keys \in SUBSET Keys
    BY DEF Keys
  <1>3. \A keys \in Others : keys \in SUBSET Keys
    BY OthersAssumption
  <1> QED
    BY <1>1, <1>2, <1>3 DEF SetDNS, SetNetworkInterfaces, SetNetworkProtocols,
                            OthersChange, Commits

LEMMA HasValueStep == TypeOK /\ HasValue /\ [Next]_vars => HasValue'
  <1> SUFFICES ASSUME TypeOK, HasValue, [Next]_vars PROVE HasValue'
    OBVIOUS
  <1>1. CASE Commits
    <2>1. PICK keys \in SUBSET Keys : Commit(keys)
      BY <1>1 DEF Commits
    <2> DEFINE len == Len(log)
    <2>2. /\ len \in Nat /\ Len(log') = len + 1 /\ log'[len + 1] = keys
          /\ \A n \in 1..len : log'[n] = log[n]
      BY <2>1, CommitExtends DEF TypeOK
    <2> SUFFICES ASSUME NEW k \in Keys, NEW r \in 0..(len + 1)
                 PROVE  \E i \in 0..r : Latest(log', k, r, i)
      BY <2>2 DEF HasValue
    <2> HIDE DEF len
    <2>3. ASSUME NEW i, NEW q \in 0..len, Latest(log, k, q, i) PROVE Latest(log', k, q, i)
      BY <2>2, <2>3 DEF Latest
    <2>4. CASE r <= len
      <3>1. PICK i \in 0..r : Latest(log, k, r, i)
        BY <2>2, <2>4 DEF HasValue, len
      <3> QED
        BY <2>2, <2>3, <2>4, <3>1
    <2>5. CASE r = len + 1 /\ k \in keys
      <3>1. Latest(log', k, r, r)
        BY <2>2, <2>5 DEF Latest
      <3> QED
        BY <2>2, <2>5, <3>1
    <2>6. CASE r = len + 1 /\ k \notin keys
      <3>1. PICK i \in 0..len : Latest(log, k, len, i)
        BY <2>2 DEF HasValue, len
      <3>2. Latest(log', k, len, i)
        BY <2>2, <2>3, <3>1
      <3>3. Latest(log', k, r, i)
        BY <2>2, <2>6, <3>2 DEF Latest
      <3> QED
        BY <2>2, <2>6, <3>1, <3>3
    <2> QED
      BY <2>2, <2>4, <2>5, <2>6
  <1>2. CASE log' = log
    BY <1>2 DEF HasValue, Latest
  <1> QED
    BY <1>1, <1>2, NextCommits
    DEF Next, MergeReply, IgnoreReply, HandleNotice, SetProperty, Begin,
        get_property, UseProperty, Answered, Unanswered, Respond, Goes,
        AnswerGetNetwork, LoseNotice, iconfig, vars

-----------------------------------------------------------------------------
(***************************************************************************)
(* Types.                                                                  *)
(***************************************************************************)

\* A program's length, and what it does where.
LEMMA ProgramSteps ==
  ASSUME op \in Readers \cup {"none"}, step \in 1..Len(Program(op)),
         NEW d, NEW k, Program(op)[step] = [do |-> d, key |-> k]
  PROVE  /\ k \in Keys
         /\ d = "call" => op = "GetStreamUri" /\ step = 1
         /\ d = "lookup" =>
              \/ op = "GetServices" /\ step = 1 /\ k = "ipaddr"
              \/ op = "GetDNS" /\ step = 1 /\ k = "dns1"
              \/ op = "GetDNS" /\ step = 2 /\ k = "dns2"
              \/ op = "GetNetworkProtocols" /\ step = 1 /\ k = "http"
              \/ op = "GetNetworkProtocols" /\ step = 3 /\ k = "rtsp"
              \/ op = "GetStreamUri" /\ step = 2 /\ k = "ipaddr"
              \/ op = "GetStreamUri" /\ step = 4 /\ k = "rtsp"
         /\ d = "use" =>
              \/ op = "GetServices" /\ step = 2 /\ k = "ipaddr"
              \/ op = "GetDNS" /\ step = 3 /\ k = "dns1"
              \/ op = "GetDNS" /\ step = 4 /\ k = "dns2"
              \/ op = "GetNetworkProtocols" /\ step = 2 /\ k = "http"
              \/ op = "GetNetworkProtocols" /\ step = 4 /\ k = "rtsp"
              \/ op = "GetStreamUri" /\ step = 3 /\ k = "ipaddr"
              \/ op = "GetStreamUri" /\ step = 5 /\ k = "rtsp"
         /\ Len(Program("GetStreamUri")) = 5
  <1> DEFINE p == Program(op)
  <1> USE DEF Lookup, Use, Call, Keys
  <1>0. Len(Program("GetStreamUri")) = 5
    BY DEF Program, GetStreamUri
  <1>1. CASE op = "GetServices"
    <2>1. Len(p) = 2 /\ p[1] = Lookup("ipaddr") /\ p[2] = Use("ipaddr")
      BY <1>1 DEF Program, GetServices
    <2> QED
      BY <1>0, <1>1, <2>1
  <1>2. CASE op = "GetDNS"
    <2>1. /\ Len(p) = 4 /\ p[1] = Lookup("dns1") /\ p[2] = Lookup("dns2")
          /\ p[3] = Use("dns1") /\ p[4] = Use("dns2")
      BY <1>2 DEF Program, GetDNS
    <2> QED
      BY <1>0, <1>2, <2>1
  <1>3. CASE op = "GetNetworkProtocols"
    <2>1. /\ Len(p) = 4 /\ p[1] = Lookup("http") /\ p[2] = Use("http")
          /\ p[3] = Lookup("rtsp") /\ p[4] = Use("rtsp")
      BY <1>3 DEF Program, GetNetworkProtocols
    <2>2. \/ step = 1 /\ d = "lookup" /\ k = "http"
          \/ step = 2 /\ d = "use" /\ k = "http"
          \/ step = 3 /\ d = "lookup" /\ k = "rtsp"
          \/ step = 4 /\ d = "use" /\ k = "rtsp"
      <3>1. step \in 1..4
        BY <2>1
      <3>2. CASE step = 1
        BY <2>1, <3>2
      <3>3. CASE step = 2
        BY <2>1, <3>3
      <3>4. CASE step = 3
        BY <2>1, <3>4
      <3>5. CASE step = 4
        BY <2>1, <3>5
      <3> QED
        BY <3>1, <3>2, <3>3, <3>4, <3>5
    <2> QED
      BY <1>0, <1>3, <2>2
  <1>4. CASE op = "GetStreamUri"
    <2>1. /\ Len(p) = 5 /\ p[1] = Call /\ p[2] = Lookup("ipaddr")
          /\ p[3] = Use("ipaddr") /\ p[4] = Lookup("rtsp") /\ p[5] = Use("rtsp")
      BY <1>4 DEF Program, GetStreamUri
    <2> QED
      BY <1>0, <1>4, <2>1
  <1>5. CASE op = "none"
    <2>1. Len(p) = 0
      BY <1>5 DEF Program
    <2> QED
      BY <2>1
  <1> QED
    BY <1>1, <1>2, <1>3, <1>4, <1>5 DEF Readers

\* A program has at least no step.
LEMMA ProgramLength == \A o : Len(Program(o)) \in Nat
  BY DEF Program, GetServices, GetDNS, GetNetworkProtocols, GetStreamUri

\* The invariant holds at the start.
LEMMA TypeInit == Init => TypeInv
  <1> SUFFICES ASSUME Init PROVE TypeInv
    OBVIOUS
  <1>1. Len(log) = 0 /\ log \in Seq(SUBSET Keys)
    BY DEF Init
  <1>2. TypeOK
    <2>1. cache \in [Keys -> Missing..Len(log)]
      BY <1>1 DEF Init, Missing
    <2>2. /\ held \in [Keys -> (Missing..Len(log)) \cup {NotHeld, Freed}]
          /\ got \in [Keys -> (Missing..Len(log)) \cup {Unread, Garbage, BadAddress}]
      BY DEF Init, NothingHeld, NothingRead
    <2>3. step \in 1..(Len(Program(op)) + 1)
      BY ProgramLength DEF Init
    <2>4. cursor = 0 /\ snapshot = -1 /\ mergedAt = -1 /\ query = "sent"
      BY DEF Init
    <2>5. began \in [cursor : 0..cursor, settled : BOOLEAN]
      BY <2>4 DEF Init, NotBegun
    <2>6. lost \in BOOLEAN /\ todo \in SUBSET Keys /\ op \in Readers \cup {"none"}
      BY DEF Init
    <2> QED
      BY <1>1, <2>1, <2>2, <2>3, <2>4, <2>5, <2>6, MaxRevsAssumption DEF TypeOK
  <1>3. HasValue
    <2> SUFFICES ASSUME NEW k \in Keys, NEW r \in 0..Len(log)
                 PROVE  \E i \in 0..r : Latest(log, k, r, i)
      BY DEF HasValue
    <2>1. 0 \in 0..r /\ Latest(log, k, r, 0)
      BY <1>1 DEF Latest
    <2> QED
      BY <2>1
  <1>4. HeldForUse
    BY DEF Init, HeldForUse
  <1> QED
    BY <1>2, <1>3, <1>4 DEF TypeInv

\* A key that is set next is a key, and gets a revision.
LEMMA SetValue ==
  ASSUME TypeOK, HasValue, todo # {}
  PROVE  cursor \in 0..Len(log) /\
         (query = "merging" => \A k \in Keys : ValueAt(k, snapshot) \in 0..Len(log))
  <1>1. query = "merging" => snapshot \in 0..Len(log)
    BY DEF TypeOK
  <1> QED
    BY <1>1, ValueAtIsLatest DEF TypeOK

LEMMA TypeStep == TypeInv /\ [Next]_vars => TypeOK' /\ HeldForUse'
  <1> SUFFICES ASSUME TypeInv, [Next]_vars PROVE TypeOK' /\ HeldForUse'
    OBVIOUS
  <1> USE DEF TypeInv
  <1>0. /\ Len(log) \in Nat /\ cursor \in Nat /\ cursor <= Len(log)
        /\ Len(Program(op)) \in Nat
    BY ProgramLength DEF TypeOK
  <1>1. CASE MergeReply
    BY <1>0, <1>1 DEF MergeReply, TypeOK, HeldForUse, Updated, soap, Missing
  <1>2. CASE IgnoreReply
    BY <1>0, <1>2 DEF IgnoreReply, TypeOK, HeldForUse, iconfig, soap
  <1>3. CASE HandleNotice
    BY <1>0, <1>3 DEF HandleNotice, TypeOK, HeldForUse, Updated, iconfig, soap, Missing
  <1>4. CASE SetProperty
    <2>1. PICK k \in todo :
            /\ set_property(k, IF query = "merging" THEN ValueAt(k, snapshot)
                               ELSE cursor)
            /\ todo' = todo \ {k}
            /\ query' = IF query = "merging" /\ todo' = {} THEN "merged" ELSE query
      BY <1>4 DEF SetProperty
    <2>2. UNCHANGED <<log, snapshot, cursor, lost, mergedAt, op, step, got, began>>
      BY <1>4 DEF SetProperty, iconfig
    <2> DEFINE value == IF query = "merging" THEN ValueAt(k, snapshot) ELSE cursor
    <2>3. value \in 0..Len(log) /\ k \in Keys
      BY <2>1, SetValue DEF TypeOK
    <2>4. cache' \in [Keys -> Missing..Len(log)]
      BY <2>1, <2>3, <1>0 DEF set_property, TypeOK, Missing
    <2>5. held' \in [Keys -> (Missing..Len(log)) \cup {NotHeld, Freed}]
      BY <2>1, <2>3 DEF set_property, TypeOK
    <2>6. \A l \in Keys : held[l] # NotHeld => held'[l] # NotHeld
      BY <2>1, DistinctAssumption DEF set_property, TypeOK
    <2>7. HeldForUse'
      BY <2>2, <2>6 DEF HeldForUse, Keys
    <2> QED
      BY <2>1, <2>2, <2>4, <2>5, <2>7 DEF TypeOK
  <1>5. CASE Begin
    <2>1. /\ op' \in Readers /\ step' = step /\ held' = held /\ got' = got
          /\ began' = [cursor |-> cursor, settled |-> Settled]
          /\ UNCHANGED <<log, snapshot, cursor, lost, query, mergedAt, cache, todo>>
      BY <1>5 DEF Begin, iconfig, daemon
    <2>2. step = 1
      <3>1. op = "none" /\ Len(Program("none")) = 0
        BY <1>5 DEF Begin, Program
      <3> QED
        BY <3>1 DEF TypeOK
    <2>3. Len(Program(op')) \in Nat
      BY ProgramLength
    <2>4. began' \in [cursor : 0..cursor, settled : BOOLEAN]
      BY <1>0, <2>1 DEF Settled
    <2>5. step' \in 1..(Len(Program(op')) + 1)
      BY <2>1, <2>2, <2>3
    <2> QED
      BY <2>1, <2>2, <2>4, <2>5 DEF TypeOK, HeldForUse
  <1>6. CASE get_property
    <2>1. PICK k \in Keys : /\ Goes("lookup", k, step + 1)
                            /\ held' = [held EXCEPT ![k] = cache[k]]
                            /\ got' = got
      BY <1>6 DEF get_property
    <2>2. /\ step \in 1..Len(Program(op)) /\ step' = step + 1 /\ op' = op
          /\ Program(op)[step] = [do |-> "lookup", key |-> k]
          /\ UNCHANGED <<log, snapshot, cursor, lost, query, mergedAt, cache, todo,
                         began>>
      BY <1>0, <2>1 DEF Goes, iconfig, daemon, TypeOK
    <2>3. step' \in 1..(Len(Program(op')) + 1)
      BY <1>0, <2>2
    <2>4. cache[k] \in Missing..Len(log)
      BY <2>1 DEF TypeOK
    <2>5. held' \in [Keys -> (Missing..Len(log)) \cup {NotHeld, Freed}]
      BY <2>1, <2>4 DEF TypeOK
    <2>6. TypeOK'
      BY <2>1, <2>2, <2>3, <2>5 DEF TypeOK
    <2>7. /\ held'[k] # NotHeld
          /\ \A l \in Keys : l # k => held'[l] = held[l]
      BY <2>1, <2>4, NothingAssumption DEF TypeOK, Missing
    <2>8. HeldForUse'
      BY <2>2, <2>7, ProgramSteps DEF HeldForUse, Keys, TypeOK
    <2> QED
      BY <2>6, <2>8
  <1>7. CASE UseProperty
    <2>1. PICK k \in Keys :
            /\ Goes("use", k, step + 1)
            /\ got' = [got EXCEPT ![k] = UsedAs(k)]
            /\ held' = [held EXCEPT ![k] = NotHeld]
      BY <1>7 DEF UseProperty
    <2>2. /\ step \in 1..Len(Program(op)) /\ step' = step + 1 /\ op' = op
          /\ Program(op)[step] = [do |-> "use", key |-> k]
          /\ UNCHANGED <<log, snapshot, cursor, lost, query, mergedAt, cache, todo,
                         began>>
      BY <1>0, <2>1 DEF Goes, iconfig, daemon, TypeOK
    <2>3. step' \in 1..(Len(Program(op')) + 1)
      BY <1>0, <2>2
    <2>4. held[k] # NotHeld
      BY <2>2, ProgramSteps DEF HeldForUse, TypeOK
    <2>5. got' \in [Keys -> (Missing..Len(log)) \cup {Unread, Garbage, BadAddress}]
      <3>1. UsedAs(k) \in (Missing..Len(log)) \cup {Unread, Garbage, BadAddress}
        BY <2>4 DEF TypeOK, UsedAs
      <3> QED
        BY <2>1, <3>1 DEF TypeOK
    <2>6. held' \in [Keys -> (Missing..Len(log)) \cup {NotHeld, Freed}]
      BY <2>1 DEF TypeOK
    <2>7. TypeOK'
      BY <2>2, <2>3, <2>5, <2>6 DEF TypeOK
    <2>8. \A l \in Keys : l # k => held'[l] = held[l]
      BY <2>1 DEF TypeOK
    <2>9. HeldForUse'
      BY <2>2, <2>8, ProgramSteps DEF HeldForUse, Keys, TypeOK
    <2> QED
      BY <2>7, <2>9
  <1>8. CASE Answered \/ Unanswered
    <2>1. PICK n \in {1, 3} : Goes("call", "ipaddr", step + n)
      BY <1>8 DEF Answered, Unanswered
    <2>2. /\ step \in 1..Len(Program(op)) /\ step' = step + n /\ op' = op
          /\ Program(op)[step] = [do |-> "call", key |-> "ipaddr"]
          /\ UNCHANGED <<log, snapshot, cursor, lost, query, mergedAt, cache, todo,
                         began>>
      BY <1>0, <2>1 DEF Goes, iconfig, daemon, TypeOK
    <2>3. held' = held
      BY <1>8 DEF Answered, Unanswered
    <2>4. op = "GetStreamUri" /\ step = 1 /\ Len(Program(op)) = 5
      BY <2>2, ProgramSteps DEF TypeOK
    <2>5. got' \in [Keys -> (Missing..Len(log)) \cup {Unread, Garbage, BadAddress}]
      <3>1. ValueAt("ipaddr", Len(log)) \in 0..Len(log)
        BY <1>0, ValueAtIsLatest DEF Keys
      <3>2. CASE Answered
        <4>1. PICK a \in {ValueAt("ipaddr", Len(log)), Garbage} :
                got' = [got EXCEPT !["ipaddr"] = a]
          BY <3>2 DEF Answered
        <4>2. a \in (Missing..Len(log)) \cup {Unread, Garbage, BadAddress}
          BY <1>0, <3>1, <4>1 DEF Missing
        <4> QED
          BY <4>1, <4>2 DEF TypeOK
      <3>3. CASE Unanswered
        BY <3>3 DEF Unanswered, TypeOK
      <3> QED
        BY <1>8, <3>2, <3>3
    <2>6. step' \in 1..(Len(Program(op')) + 1)
      BY <2>2, <2>4
    <2>7. TypeOK'
      BY <2>2, <2>3, <2>5, <2>6 DEF TypeOK
    <2>8. HeldForUse'
      BY <2>2, <2>4 DEF HeldForUse
    <2> QED
      BY <2>7, <2>8
  <1>9. CASE Respond
    <2>1. /\ op' = "none" /\ step' = 1 /\ held' = NothingHeld /\ got' = NothingRead
          /\ began' = NotBegun
          /\ UNCHANGED <<log, snapshot, cursor, lost, query, mergedAt, cache, todo>>
      BY <1>9 DEF Respond, iconfig, daemon
    <2>2. Len(Program("none")) \in Nat
      BY ProgramLength
    <2> QED
      BY <1>0, <2>1, <2>2 DEF TypeOK, HeldForUse, NothingHeld, NothingRead, NotBegun
  <1>10. CASE Commits
    <2>1. PICK keys \in SUBSET Keys : Commit(keys)
      BY <1>10 DEF Commits
    <2>2. /\ Len(log) < MaxRevs /\ log' \in Seq(SUBSET Keys)
          /\ Len(log') = Len(log) + 1
          /\ UNCHANGED <<cursor, lost, query, snapshot, mergedAt, cache, todo,
                         op, step, held, got, began>>
      BY <2>1, CommitExtends
    <2>3. Missing..Len(log) \subseteq Missing..Len(log')
      BY <1>0, <2>2 DEF Missing
    <2>4. /\ cache' \in [Keys -> Missing..Len(log')]
          /\ held' \in [Keys -> (Missing..Len(log')) \cup {NotHeld, Freed}]
          /\ got' \in [Keys -> (Missing..Len(log')) \cup {Unread, Garbage, BadAddress}]
      BY <2>2, <2>3 DEF TypeOK
    <2> QED
      BY <1>0, <2>2, <2>4, MaxRevsAssumption DEF TypeOK, HeldForUse
  <1>11. CASE AnswerGetNetwork
    BY <1>0, <1>11 DEF AnswerGetNetwork, TypeOK, HeldForUse, soap
  <1>12. CASE LoseNotice
    BY <1>0, <1>12 DEF LoseNotice, TypeOK, HeldForUse, iconfig, daemon, soap
  <1>13. CASE UNCHANGED vars
    BY <1>13 DEF vars, TypeOK, HeldForUse
  <1> QED
    BY <1>1, <1>2, <1>3, <1>4, <1>5, <1>6, <1>7, <1>8, <1>9, <1>10, <1>11, <1>12,
       <1>13, NextCommits DEF Next

THEOREM TypeInductive == Spec => []TypeInv
  <1>1. TypeInv /\ [Next]_vars => TypeInv'
    BY TypeStep, HasValueStep DEF TypeInv
  <1> QED
    BY <1>1, TypeInit, PTL DEF Spec

\* Type correctness of the cache, the handlers and the channels.
THEOREM TypeCorrect == Spec => []TypeOK
  <1>1. TypeInv => TypeOK
    BY DEF TypeInv
  <1> QED
    BY <1>1, TypeInductive, PTL

-----------------------------------------------------------------------------
(***************************************************************************)
(* The cache, key by key.  The operators below take the log as an          *)
(* argument, so that the lemmas hold of it before and after a step.        *)
(***************************************************************************)
ValueIn(l, k, r) ==
  CHOOSE i \in 0..r :
    (i = 0 \/ k \in l[i]) /\ \A j \in (i + 1)..r : k \notin l[j]

TouchedIn(l, k, i, j) == \E n \in (i + 1)..j : k \in l[n]

\* What key k is after the notices from i to c, if it was old before them.
At(l, k, i, c, old) == IF TouchedIn(l, k, i, c) THEN ValueIn(l, k, c) ELSE old

\* The last notice that has been applied to key k.
Applied(k) == IF k \in todo /\ query # "merging" THEN cursor - 1 ELSE cursor

\* The message in hand is the startup reply, or the last notice.
StageInv ==
  /\ query = "merging" => todo # {} /\ cursor = mergedAt
  /\ query # "merging" /\ todo # {} => cursor >= 1 /\ todo \subseteq log[cursor]
  /\ query = "merged" /\ todo # {} => mergedAt < cursor

\* No key is newer than all the daemon has been told.
BoundInv == \A k \in Keys : cache[k] <= cursor \/ cache[k] <= snapshot

\* What each key is made of: what the last notice applied that sets it said, or
\* else what the startup reply said, or nothing.
CacheInv ==
  ~lost =>
    \A k \in Keys :
      /\ query \notin {"merging", "merged"} =>
           cache[k] = At(log, k, 0, Applied(k), Missing)
      /\ query = "merging" =>
           cache[k] = IF k \in todo THEN At(log, k, 0, cursor, Missing)
                      ELSE ValueIn(log, k, snapshot)
      /\ query = "merged" =>
           cache[k] = At(log, k, mergedAt, Applied(k), ValueIn(log, k, snapshot))

CInv == TypeInv /\ StageInv /\ BoundInv /\ CacheInv

LEMMA ValueInIsLatest ==
  ASSUME NEW l, NEW k, NEW r \in Nat, NEW i \in 0..r, Latest(l, k, r, i)
  PROVE  ValueIn(l, k, r) = i
  <1>1. (i = 0 \/ k \in l[i]) /\ \A j \in (i + 1)..r : k \notin l[j]
    BY DEF Latest
  <1>2. /\ ValueIn(l, k, r) \in 0..r
        /\ ValueIn(l, k, r) = 0 \/ k \in l[ValueIn(l, k, r)]
        /\ \A j \in (ValueIn(l, k, r) + 1)..r : k \notin l[j]
    BY <1>1 DEF ValueIn
  <1>3. Latest(l, k, r, ValueIn(l, k, r))
    BY <1>2 DEF Latest
  <1> QED
    BY <1>3, LatestIsUnique

\* A key that the r-th change sets has revision r.
LEMMA ValueHere ==
  ASSUME NEW l, NEW k, NEW r \in Nat, k \in l[r]
  PROVE  ValueIn(l, k, r) = r
  <1>1. Latest(l, k, r, r)
    BY DEF Latest
  <1> QED
    BY <1>1, ValueInIsLatest

\* A key that no change after i sets keeps its revision.
LEMMA ValueFrame ==
  ASSUME HasValue, NEW k \in Keys, NEW i \in 0..Len(log), NEW j \in 0..Len(log),
         Len(log) \in Nat, i <= j, ~TouchedIn(log, k, i, j)
  PROVE  ValueIn(log, k, i) = ValueIn(log, k, j)
  <1>1. PICK v \in 0..i : Latest(log, k, i, v)
    BY DEF HasValue
  <1>2. Latest(log, k, j, v)
    BY <1>1 DEF Latest, TouchedIn
  <1>3. v \in 0..j /\ i \in Nat /\ j \in Nat
    OBVIOUS
  <1> QED
    BY <1>1, <1>2, <1>3, ValueInIsLatest

\* What a commit does not reach.
LEMMA CommitKeeps ==
  ASSUME TypeOK, HasValue, NEW keys \in SUBSET Keys, Commit(keys), NEW k \in Keys
  PROVE  /\ \A r \in 0..Len(log) : ValueIn(log', k, r) = ValueIn(log, k, r)
         /\ \A i \in Nat, j \in 0..Len(log) :
              TouchedIn(log', k, i, j) <=> TouchedIn(log, k, i, j)
  <1>1. (\A n \in 1..Len(log) : log'[n] = log[n]) /\ Len(log) \in Nat
    <2>1. Len(log) \in Nat
      BY DEF TypeOK
    <2>2. \A n \in 1..Len(log) : log'[n] = log[n]
      BY CommitExtends
    <2> QED
      BY <2>1, <2>2
  <1>2. ASSUME NEW r \in 0..Len(log) PROVE ValueIn(log', k, r) = ValueIn(log, k, r)
    <2>1. PICK v \in 0..r : Latest(log, k, r, v)
      BY DEF HasValue
    <2>2. Latest(log', k, r, v)
      BY <1>1, <2>1 DEF Latest
    <2>3. r \in Nat
      BY <1>1
    <2> QED
      BY <2>1, <2>2, <2>3, ValueInIsLatest
  <1>3. ASSUME NEW i \in Nat, NEW j \in 0..Len(log)
        PROVE  TouchedIn(log', k, i, j) <=> TouchedIn(log, k, i, j)
    BY <1>1 DEF TouchedIn
  <1> QED
    BY <1>2, <1>3

\* A message is applied to all the keys it sets.
LEMMA UpdatedIsAll == \A keys \in SUBSET Keys : Updated(keys) = keys
  <1>1. /\ Len(Order) = 5 /\ Order[1] = "ipaddr" /\ Order[2] = "dns1"
        /\ Order[3] = "dns2" /\ Order[4] = "http" /\ Order[5] = "rtsp"
    BY DEF Order
  <1>2. Keys \subseteq {Order[i] : i \in 1..Len(Order)}
    BY <1>1 DEF Keys
  <1> QED
    BY <1>2 DEF Updated

LEMMA StageInit == Init => StageInv /\ BoundInv /\ CacheInv
  <1> SUFFICES ASSUME Init PROVE StageInv /\ BoundInv /\ CacheInv
    OBVIOUS
  <1>1. \A k \in Keys : ~TouchedIn(log, k, 0, 0)
    BY DEF TouchedIn
  <1> QED
    BY <1>1 DEF Init, StageInv, BoundInv, CacheInv, At, Applied, Missing

LEMMA StageStep == CInv /\ [Next]_vars => StageInv' /\ BoundInv'
  <1> SUFFICES ASSUME CInv, [Next]_vars PROVE StageInv' /\ BoundInv'
    OBVIOUS
  <1> USE DEF CInv, TypeInv
  <1>0. /\ Len(log) \in Nat /\ cursor \in Nat /\ cursor <= Len(log)
        /\ mergedAt \in Int /\ mergedAt <= cursor
        /\ snapshot \in Int /\ snapshot <= Len(log)
        /\ \A k \in Keys : cache[k] \in Int /\ cache[k] <= Len(log)
    BY DEF TypeOK, Missing
  <1>1. CASE MergeReply
    <2>1. todo' # {}
      BY <1>1, UpdatedIsAll DEF MergeReply, Keys
    <2> QED
      BY <1>1, <2>1 DEF MergeReply, StageInv, BoundInv
  <1>2. CASE IgnoreReply
    BY <1>2 DEF IgnoreReply, iconfig, StageInv, BoundInv
  <1>3. CASE HandleNotice
    <2>1. /\ cursor' = cursor + 1 /\ todo = {} /\ todo' = log[cursor + 1]
          /\ UNCHANGED <<log, snapshot, lost, query, mergedAt, cache>>
      BY <1>0, <1>3, UpdatedIsAll DEF HandleNotice, iconfig, TypeOK
    <2> QED
      BY <1>0, <2>1 DEF StageInv, BoundInv
  <1>4. CASE SetProperty
    <2>1. PICK k \in todo :
            /\ cache' = [cache EXCEPT ![k] = IF query = "merging"
                                             THEN ValueAt(k, snapshot) ELSE cursor]
            /\ todo' = todo \ {k}
            /\ query' = IF query = "merging" /\ todo' = {} THEN "merged" ELSE query
      BY <1>4 DEF SetProperty, set_property
    <2>2. UNCHANGED <<log, snapshot, cursor, mergedAt>>
      BY <1>4 DEF SetProperty, iconfig
    <2>3. StageInv'
      BY <2>1, <2>2 DEF StageInv
    <2>4. query = "merging" => snapshot \in 0..Len(log)
      BY <1>0 DEF TypeOK
    <2>5. query = "merging" => ValueAt(k, snapshot) <= snapshot
      BY <2>1, <2>4, ValueAtIsLatest DEF TypeOK
    <2>6. \A l \in Keys : cache'[l] = IF l = k THEN IF query = "merging"
                                                   THEN ValueAt(k, snapshot)
                                                   ELSE cursor
                                      ELSE cache[l]
      BY <2>1 DEF TypeOK
    <2>7. BoundInv'
      BY <1>0, <2>2, <2>5, <2>6 DEF BoundInv
    <2> QED
      BY <2>3, <2>7
  <1>5. CASE Commits
    <2>1. PICK keys \in SUBSET Keys : Commit(keys)
      BY <1>5 DEF Commits
    <2>2. cursor >= 1 => log'[cursor] = log[cursor]
      BY <1>0, <2>1, CommitExtends
    <2> QED
      BY <2>1, <2>2, CommitExtends DEF StageInv, BoundInv
  <1>6. CASE AnswerGetNetwork
    <2>1. /\ query' = "answered" /\ query = "sent" /\ snapshot' = Len(log)
          /\ UNCHANGED <<log, cursor, mergedAt, cache, todo>>
      BY <1>6 DEF AnswerGetNetwork
    <2> QED
      BY <1>0, <2>1 DEF StageInv, BoundInv
  <1>7. CASE LoseNotice
    <2>1. /\ cursor' = cursor + 1 /\ todo = {}
          /\ UNCHANGED <<log, snapshot, query, mergedAt, cache, todo>>
      BY <1>7 DEF LoseNotice, iconfig, daemon
    <2> QED
      BY <1>0, <2>1 DEF StageInv, BoundInv
  <1>8. CASE UNCHANGED <<log, snapshot, cursor, query, mergedAt, cache, todo>>
    BY <1>8 DEF StageInv, BoundInv
  <1> QED
    BY <1>1, <1>2, <1>3, <1>4, <1>5, <1>6, <1>7, <1>8, NextCommits
    DEF Next, Begin, get_property, UseProperty, Answered, Unanswered, Respond, Goes,
        iconfig, daemon, vars

\* Handling a notice that does not set key k leaves k what it is.
LEMMA AtFrame ==
  ASSUME HasValue, NEW k \in Keys, NEW i \in Nat, NEW c \in 0..(Len(log) - 1),
         Len(log) \in Nat, k \notin log[c + 1], NEW old
  PROVE  At(log, k, i, c + 1, old) = At(log, k, i, c, old)
  <1>1. TouchedIn(log, k, i, c + 1) <=> TouchedIn(log, k, i, c)
    BY DEF TouchedIn
  <1>2. ~TouchedIn(log, k, c, c + 1)
    BY DEF TouchedIn
  <1>3. ValueIn(log, k, c) = ValueIn(log, k, c + 1)
    BY <1>2, ValueFrame
  <1> QED
    BY <1>1, <1>3 DEF At

\* Handling one that does makes k the number of that change.
LEMMA AtHere ==
  ASSUME NEW k, NEW i \in Nat, NEW c \in Nat, i < c, k \in log[c], NEW old
  PROVE  At(log, k, i, c, old) = c
  <1>1. TouchedIn(log, k, i, c)
    BY DEF TouchedIn
  <1> QED
    BY <1>1, ValueHere DEF At

LEMMA CacheStep == CInv /\ [Next]_vars => CacheInv'
  <1> SUFFICES ASSUME CInv, [Next]_vars PROVE CacheInv'
    OBVIOUS
  <1> USE DEF CInv, TypeInv
  <1>0. /\ Len(log) \in Nat /\ cursor \in Nat /\ cursor <= Len(log)
        /\ mergedAt \in Int /\ mergedAt <= cursor
        /\ query \in {"merging", "merged"} =>
             mergedAt \in 0..cursor /\ snapshot \in 0..Len(log)
    BY DEF TypeOK
  \* Steps that leave the cache, the message in hand and the log alone.
  <1>1. ASSUME UNCHANGED <<log, cursor, lost, cache, todo, mergedAt>>,
               \/ query' = query /\ snapshot' = snapshot
               \/ {query, query'} \cap {"merging", "merged"} = {}
        PROVE  CacheInv'
    BY <1>1 DEF CacheInv, Applied
  <1>2. CASE MergeReply
    <2>1. /\ query = "answered" /\ query' = "merging" /\ todo = {} /\ todo' = Keys
          /\ UNCHANGED <<log, cursor, lost, cache>>
      BY <1>2, UpdatedIsAll DEF MergeReply
    <2> QED
      BY <2>1 DEF CacheInv, Applied
  <1>3. CASE IgnoreReply
    BY <1>1, <1>3 DEF IgnoreReply, iconfig
  <1>4. CASE HandleNotice
    <2>1. /\ cursor' = cursor + 1 /\ todo = {} /\ todo' = log[cursor + 1]
          /\ cursor \in 0..(Len(log) - 1)
          /\ UNCHANGED <<log, snapshot, lost, query, mergedAt, cache>>
      BY <1>0, <1>4, UpdatedIsAll DEF HandleNotice, iconfig, TypeOK
    <2>2. query # "merging"
      BY <2>1 DEF StageInv
    <2>3. ASSUME NEW k \in Keys, NEW i \in Nat, NEW old
          PROVE  At(log, k, i, Applied(k)', old) = At(log, k, i, cursor, old)
      <3>1. CASE k \in log[cursor + 1]
        <4>1. Applied(k)' = cursor
          BY <1>0, <2>1, <2>2, <3>1 DEF Applied
        <4> QED
          BY <4>1
      <3>2. CASE k \notin log[cursor + 1]
        <4>1. Applied(k)' = cursor + 1
          BY <2>1, <3>2 DEF Applied
        <4>2. At(log, k, i, cursor + 1, old) = At(log, k, i, cursor, old)
          BY <1>0, <2>1, <3>2, AtFrame
        <4> QED
          BY <4>1, <4>2
      <3> QED
        BY <3>1, <3>2
    <2>4. \A k \in Keys : Applied(k) = cursor
      BY <2>1 DEF Applied
    <2> QED
      BY <1>0, <2>1, <2>2, <2>3, <2>4 DEF CacheInv
  <1>5. CASE SetProperty
    <2>1. PICK k \in todo :
            /\ cache' = [cache EXCEPT ![k] = IF query = "merging"
                                             THEN ValueAt(k, snapshot) ELSE cursor]
            /\ todo' = todo \ {k}
            /\ query' = IF query = "merging" /\ todo' = {} THEN "merged" ELSE query
      BY <1>5 DEF SetProperty, set_property
    <2>2. UNCHANGED <<log, snapshot, cursor, lost, mergedAt>>
      BY <1>5 DEF SetProperty, iconfig
    <2>3. ValueAt(k, snapshot) = ValueIn(log, k, snapshot)
      BY DEF ValueAt, ValueIn
    <2>4. \A l \in Keys : cache'[l] = IF l = k THEN IF query = "merging"
                                                   THEN ValueIn(log, k, snapshot)
                                                   ELSE cursor
                                      ELSE cache[l]
      BY <2>1, <2>3 DEF TypeOK
    <2>5. CASE query = "merging"
      <3>1. \A l \in Keys : \A old : At(log, l, mergedAt, cursor, old) = old
        BY <1>0, <2>5 DEF At, TouchedIn, StageInv
      <3> SUFFICES ASSUME ~lost, NEW l \in Keys
                   PROVE  /\ query' = "merging" =>
                               cache'[l] = IF l \in todo'
                                           THEN At(log, l, 0, cursor, Missing)
                                           ELSE ValueIn(log, l, snapshot)
                          /\ query' = "merged" =>
                               cache'[l] = At(log, l, mergedAt, Applied(l)',
                                              ValueIn(log, l, snapshot))
        BY <2>1, <2>2, <2>5 DEF CacheInv
      <3>2. cache[l] = IF l \in todo THEN At(log, l, 0, cursor, Missing)
                       ELSE ValueIn(log, l, snapshot)
        BY <2>5 DEF CacheInv
      <3>3. cache'[l] = IF l \in todo' THEN At(log, l, 0, cursor, Missing)
                        ELSE ValueIn(log, l, snapshot)
        BY <2>1, <2>4, <2>5, <3>2
      <3>4. query' = "merged" => todo' = {} /\ Applied(l)' = cursor
        BY <2>1, <2>2, <2>5 DEF Applied
      <3> QED
        BY <3>1, <3>3, <3>4
    <2>6. CASE query # "merging"
      <3>1. query' = query /\ k \in log[cursor] /\ cursor >= 1 /\ k \in Keys
            /\ (query = "merged" => mergedAt < cursor)
        BY <2>1, <2>6 DEF StageInv, TypeOK
      <3>2. Applied(k)' = cursor
        BY <2>1, <2>2 DEF Applied
      <3>3. \A l \in Keys : l # k => Applied(l)' = Applied(l)
        BY <2>1, <2>2, <2>6, <3>1 DEF Applied
      <3>4. /\ At(log, k, 0, cursor, Missing) = cursor
            /\ query = "merged" =>
                 At(log, k, mergedAt, cursor, ValueIn(log, k, snapshot)) = cursor
        BY <1>0, <3>1, AtHere
      <3> QED
        BY <2>2, <2>4, <2>6, <3>1, <3>2, <3>3, <3>4 DEF CacheInv
    <2> QED
      BY <2>5, <2>6
  <1>6. CASE Commits
    <2>1. PICK keys \in SUBSET Keys : Commit(keys)
      BY <1>6 DEF Commits
    <2>2. UNCHANGED <<cursor, lost, query, snapshot, mergedAt, cache, todo>>
      BY <2>1, CommitExtends
    <2>3. ASSUME NEW k \in Keys, NEW i \in Nat, NEW c \in 0..Len(log), NEW old
          PROVE  At(log', k, i, c, old) = At(log, k, i, c, old)
      BY <2>1, <2>3, CommitKeeps DEF At
    <2>4. \A k \in Keys : Applied(k)' = Applied(k) /\ Applied(k) \in 0..Len(log)
      BY <1>0, <2>2 DEF Applied, StageInv
    <2>5. query \in {"merging", "merged"} =>
            \A k \in Keys : ValueIn(log', k, snapshot) = ValueIn(log, k, snapshot)
      BY <1>0, <2>1, CommitKeeps
    <2> QED
      BY <1>0, <2>2, <2>3, <2>4, <2>5 DEF CacheInv
  <1>7. CASE AnswerGetNetwork
    BY <1>1, <1>7 DEF AnswerGetNetwork
  <1>8. CASE LoseNotice
    BY <1>8 DEF LoseNotice, CacheInv
  <1>9. CASE UNCHANGED <<log, snapshot, cursor, lost, query, mergedAt, cache, todo>>
    BY <1>1, <1>9
  <1> QED
    BY <1>2, <1>3, <1>4, <1>5, <1>6, <1>7, <1>8, <1>9, NextCommits
    DEF Next, Begin, get_property, UseProperty, Answered, Unanswered, Respond, Goes,
        iconfig, daemon, vars

THEOREM CacheInductive == Spec => []CInv
  <1>1. Init => CInv
    BY TypeInit, StageInit DEF CInv
  <1>2. CInv /\ [Next]_vars => CInv'
    BY TypeStep, HasValueStep, StageStep, CacheStep DEF CInv, TypeInv
  <1> QED
    BY <1>1, <1>2, PTL DEF Spec

\* A setting goes back only while the reply is merged, or while notices of
\* changes that the reply already had are handled.
THEOREM GoesBackOnlyAtStartup == Spec => BackOnlyAtStartup
  <1> DEFINE Allowed == cursor = mergedAt \/ cursor <= snapshot
  <1>1. ASSUME CInv, [Next]_vars, NEW k \in Keys, cache'[k] < cache[k]
        PROVE  Allowed
    <2>0. /\ cursor \in Int /\ snapshot \in Int /\ cache[k] \in Int
          /\ cache \in [Keys -> Missing..Len(log)]
      BY <1>1 DEF CInv, TypeInv, TypeOK, Missing
    <2>1. CASE SetProperty
      <3>1. PICK l \in todo :
              cache' = [cache EXCEPT ![l] = IF query = "merging"
                                            THEN ValueAt(l, snapshot) ELSE cursor]
        BY <2>1 DEF SetProperty, set_property
      <3>2. CASE query = "merging"
        BY <1>1, <3>2 DEF CInv, StageInv
      <3>3. CASE query # "merging"
        <4>1. cache'[k] = cursor
          BY <1>1, <2>0, <3>1, <3>3
        <4> QED
          BY <1>1, <2>0, <4>1 DEF CInv, BoundInv
      <3> QED
        BY <3>2, <3>3
    <2>2. CASE cache' = cache
      BY <1>1, <2>0, <2>2
    <2> QED
      BY <1>1, <2>1, <2>2
      DEF Next, MergeReply, IgnoreReply, HandleNotice, Begin, get_property,
          UseProperty, Answered, Unanswered, Respond, Goes, SetDNS,
          SetNetworkInterfaces, SetNetworkProtocols, OthersChange, Commit,
          AnswerGetNetwork, LoseNotice, daemon, vars
  <1>2. CInv /\ [Next]_vars =>
          [\A k \in Keys : cache'[k] < cache[k] => Allowed]_vars
    BY <1>1
  <1> QED
    BY <1>2, CacheInductive, PTL DEF Spec, BackOnlyAtStartup

-----------------------------------------------------------------------------
(***************************************************************************)
(* What an operation reads.                                                *)
(***************************************************************************)

\* v is what key k was at one of the revisions from b to c.
Recent(l, k, b, c, v) == \E r \in b..c : v = ValueIn(l, k, r)

LEMMA ValueInIsPosition ==
  ASSUME HasValue, NEW k \in Keys, NEW r \in 0..Len(log)
  PROVE  ValueIn(log, k, r) \in 0..r
  BY ValueAtIsLatest DEF ValueAt, ValueIn

\* Between operations the SOAP thread holds nothing.
IdleInv ==
  op = "none" => held = NothingHeld /\ got = NothingRead /\ ~began.settled

\* A settled cache stays so, and a message in hand is newer than the operation.
BeganInv ==
  began.settled =>
    /\ query = "merged"
    /\ snapshot <= began.cursor /\ mergedAt <= began.cursor
    /\ todo # {} => began.cursor < cursor

\* What it holds, and what it has made of it, is recent or has been replaced.
ReadInv ==
  ~lost /\ began.settled =>
    \A k \in Keys :
      ~Overtaken(k) =>
        /\ \/ held[k] = NotHeld
           \/ Recent(log, k, began.cursor, cursor, held[k])
           \/ held[k] = Freed /\ TouchedIn(log, k, began.cursor, cursor)
        /\ WasRead(k) =>
             \/ Recent(log, k, began.cursor, cursor, got[k])
             \/ got[k] = Garbage /\ TouchedIn(log, k, began.cursor, cursor)

RInv == CInv /\ IdleInv /\ BeganInv /\ ReadInv

\* The positions, once the cache is settled.
LEMMA SettledPositions ==
  ASSUME CInv, BeganInv, began.settled
  PROVE  /\ Len(log) \in Nat /\ cursor \in 0..Len(log)
         /\ began.cursor \in 0..cursor
         /\ snapshot \in 0..began.cursor /\ mergedAt \in 0..began.cursor
  BY DEF CInv, TypeInv, TypeOK, BeganInv

\* What the cache has of a key that was not overtaken.
LEMMA CacheIsRecent ==
  ASSUME CInv, BeganInv, ~lost, began.settled, NEW k \in Keys, ~Overtaken(k)
  PROVE  Recent(log, k, began.cursor, cursor, cache[k])
  <1>1. /\ Len(log) \in Nat /\ cursor \in 0..Len(log)
        /\ began.cursor \in 0..cursor
        /\ snapshot \in 0..began.cursor /\ mergedAt \in 0..began.cursor
    BY SettledPositions
  <1> DEFINE a == Applied(k)
  <1>2. a \in began.cursor..cursor
    BY <1>1 DEF Applied, BeganInv
  <1>3. cache[k] = At(log, k, mergedAt, a, ValueIn(log, k, snapshot))
    BY DEF CInv, CacheInv, BeganInv
  <1> HIDE DEF a
  <1>4. CASE TouchedIn(log, k, mergedAt, a)
    BY <1>2, <1>3, <1>4 DEF At, Recent
  <1>5. CASE ~TouchedIn(log, k, mergedAt, a)
    <2>1. ~Touched(k, mergedAt, began.cursor)
      BY <1>1, <1>2, <1>5 DEF Touched, TouchedIn
    <2>2. ~Touched(k, snapshot, mergedAt)
      BY <2>1 DEF Overtaken
    <2>3. ~TouchedIn(log, k, snapshot, a)
      BY <1>1, <1>2, <1>5, <2>2 DEF Touched, TouchedIn
    <2>4. snapshot \in 0..Len(log) /\ a \in 0..Len(log) /\ snapshot <= a
      BY <1>1, <1>2
    <2>5. ValueIn(log, k, snapshot) = ValueIn(log, k, a)
      BY <1>1, <2>3, <2>4, ValueFrame DEF CInv, TypeInv
    <2> QED
      BY <1>2, <1>3, <1>5, <2>5 DEF At, Recent
  <1> QED
    BY <1>4, <1>5

LEMMA ReadInit == Init => IdleInv /\ BeganInv /\ ReadInv
  BY DEF Init, NotBegun, IdleInv, BeganInv, ReadInv

LEMMA BeganStep == RInv /\ [Next]_vars => IdleInv' /\ BeganInv'
  <1> SUFFICES ASSUME RInv, [Next]_vars PROVE IdleInv' /\ BeganInv'
    OBVIOUS
  <1> USE DEF RInv
  <1>0. /\ cursor \in Nat /\ Len(log) \in Nat
        /\ began.cursor \in Nat /\ began.cursor <= cursor
        /\ snapshot \in Int /\ mergedAt \in Int /\ mergedAt <= cursor
    BY DEF CInv, TypeInv, TypeOK
  <1>1. CASE MergeReply
    BY <1>1 DEF MergeReply, soap, IdleInv, BeganInv
  <1>2. CASE IgnoreReply
    BY <1>2 DEF IgnoreReply, iconfig, soap, IdleInv, BeganInv
  <1>3. CASE HandleNotice
    BY <1>0, <1>3 DEF HandleNotice, iconfig, soap, IdleInv, BeganInv
  <1>4. CASE SetProperty
    <2>1. PICK k \in todo :
            /\ held' = [held EXCEPT ![k] = IF @ \in Nat THEN Freed ELSE @]
            /\ todo' = todo \ {k}
            /\ query' = IF query = "merging" /\ todo' = {} THEN "merged" ELSE query
      BY <1>4 DEF SetProperty, set_property
    <2>2. UNCHANGED <<log, snapshot, cursor, lost, mergedAt, op, step, got, began>>
      BY <1>4 DEF SetProperty, iconfig
    <2>3. BeganInv'
      BY <2>1, <2>2 DEF BeganInv
    <2>4. held = NothingHeld => held' = NothingHeld
      <3> SUFFICES ASSUME held = NothingHeld PROVE held' = NothingHeld
        OBVIOUS
      <3>1. \A l \in Keys : held[l] = NotHeld
        BY DEF NothingHeld
      <3>2. NotHeld \notin Nat
        BY NothingAssumption
      <3>3. k \in Keys
        BY <2>1 DEF CInv, TypeInv, TypeOK
      <3>4. held' = [held EXCEPT ![k] = NotHeld]
        BY <2>1, <3>1, <3>2, <3>3
      <3> QED
        BY <3>3, <3>4 DEF NothingHeld
    <2> QED
      BY <2>2, <2>3, <2>4 DEF IdleInv
  <1>5. CASE Begin
    <2>1. op' # "none"
      BY <1>5 DEF Begin, Readers
    <2>2. /\ began' = [cursor |-> cursor, settled |-> Settled]
          /\ UNCHANGED <<log, snapshot, cursor, query, mergedAt, todo>>
      BY <1>5 DEF Begin, iconfig, daemon
    <2> QED
      BY <1>0, <2>1, <2>2 DEF IdleInv, BeganInv, Settled
  <1>6. CASE get_property \/ UseProperty \/ Answered \/ Unanswered
    <2>1. PICK d, k, n : Goes(d, k, n)
      BY <1>6 DEF get_property, UseProperty, Answered, Unanswered
    <2>2. UNCHANGED <<log, snapshot, cursor, query, mergedAt, todo, op, began>>
      BY <2>1 DEF Goes, iconfig, daemon
    <2>3. op # "none"
      <3>1. step \in 1..Len(Program(op))
        BY <2>1, ProgramLength DEF Goes, CInv, TypeInv, TypeOK
      <3>2. Len(Program("none")) = 0
        BY DEF Program
      <3> QED
        BY <3>1, <3>2
    <2> QED
      BY <2>2, <2>3 DEF IdleInv, BeganInv
  <1>7. CASE Respond
    BY <1>7 DEF Respond, NotBegun, IdleInv, BeganInv
  <1>8. CASE Commits
    BY <1>8, CommitExtends DEF Commits, CInv, TypeInv, IdleInv, BeganInv
  <1>9. CASE AnswerGetNetwork
    BY <1>9 DEF AnswerGetNetwork, soap, IdleInv, BeganInv
  <1>10. CASE LoseNotice
    BY <1>0, <1>10 DEF LoseNotice, iconfig, daemon, soap, IdleInv, BeganInv
  <1>11. CASE UNCHANGED vars
    BY <1>11 DEF vars, IdleInv, BeganInv
  <1> QED
    BY <1>1, <1>2, <1>3, <1>4, <1>5, <1>6, <1>7, <1>8, <1>9, <1>10, <1>11,
       NextCommits DEF Next

LEMMA ReadStep == RInv /\ [Next]_vars => ReadInv'
  <1> SUFFICES ASSUME RInv, [Next]_vars PROVE ReadInv'
    OBVIOUS
  <1> USE DEF RInv
  \* Steps before the cache is settled, or that leave the SOAP thread alone.
  <1>1. ASSUME began' = began, query # "merged" PROVE ReadInv'
    BY <1>1 DEF ReadInv, BeganInv
  <1>2. ASSUME UNCHANGED <<log, lost, snapshot, mergedAt, op, held, got, began>>,
               cursor' \in Nat, cursor <= cursor'
        PROVE  ReadInv'
    <2> SUFFICES ASSUME ~lost, began.settled, NEW k \in Keys, ~Overtaken(k)'
                 PROVE  /\ \/ held[k] = NotHeld
                           \/ Recent(log, k, began.cursor, cursor', held[k])
                           \/ held[k] = Freed /\ TouchedIn(log, k, began.cursor, cursor')
                        /\ WasRead(k)' =>
                             \/ Recent(log, k, began.cursor, cursor', got[k])
                             \/ got[k] = Garbage /\ TouchedIn(log, k, began.cursor, cursor')
      BY <1>2 DEF ReadInv
    <2>1. ~Overtaken(k) /\ (WasRead(k)' <=> WasRead(k))
      BY <1>2 DEF Overtaken, Touched, WasRead
    <2>2. cursor \in Nat /\ began.cursor \in 0..cursor
      BY SettledPositions
    <2>3. \A v : Recent(log, k, began.cursor, cursor, v) =>
                   Recent(log, k, began.cursor, cursor', v)
      BY <1>2, <2>2 DEF Recent
    <2>4. TouchedIn(log, k, began.cursor, cursor) =>
            TouchedIn(log, k, began.cursor, cursor')
      BY <1>2, <2>2 DEF TouchedIn
    <2> QED
      BY <2>1, <2>3, <2>4 DEF ReadInv
  <1>3. CASE MergeReply
    BY <1>1, <1>3 DEF MergeReply, soap
  <1>4. CASE IgnoreReply
    BY <1>1, <1>4 DEF IgnoreReply, soap
  <1>5. CASE HandleNotice
    BY <1>2, <1>5 DEF HandleNotice, iconfig, soap, CInv, TypeInv, TypeOK
  <1>6. CASE SetProperty
    <2>1. PICK k \in todo : held' = [held EXCEPT ![k] = IF @ \in Nat THEN Freed ELSE @]
      BY <1>6 DEF SetProperty, set_property
    <2>2. UNCHANGED <<log, snapshot, cursor, lost, mergedAt, op, step, got, began>>
      BY <1>6 DEF SetProperty, iconfig
    <2> SUFFICES ASSUME ~lost, began.settled, NEW l \in Keys, ~Overtaken(l)'
                 PROVE  /\ \/ held'[l] = NotHeld
                           \/ Recent(log, l, began.cursor, cursor, held'[l])
                           \/ held'[l] = Freed /\ TouchedIn(log, l, began.cursor, cursor)
                        /\ WasRead(l)' =>
                             \/ Recent(log, l, began.cursor, cursor, got[l])
                             \/ got[l] = Garbage /\ TouchedIn(log, l, began.cursor, cursor)
      BY <2>2 DEF ReadInv
    <2>3. ~Overtaken(l) /\ (WasRead(l)' <=> WasRead(l))
      BY <2>2 DEF Overtaken, Touched, WasRead
    <2>4. TouchedIn(log, k, began.cursor, cursor)
      <3>1. k \in log[cursor] /\ began.cursor < cursor
        BY <2>1 DEF BeganInv, CInv, StageInv
      <3> QED
        BY <3>1, SettledPositions DEF TouchedIn
    <2>5. held'[l] = held[l] \/ (l = k /\ held'[l] = Freed)
      BY <2>1 DEF CInv, TypeInv, TypeOK
    <2> QED
      BY <2>3, <2>4, <2>5 DEF ReadInv
  <1>7. CASE Begin
    <2>1. /\ held' = NothingHeld /\ got' = NothingRead
      BY <1>7 DEF Begin, IdleInv
    <2> QED
      BY <2>1 DEF ReadInv, NothingHeld, NothingRead, WasRead
  <1>8. CASE get_property
    <2>1. PICK k \in Keys : /\ Goes("lookup", k, step + 1)
                            /\ held' = [held EXCEPT ![k] = cache[k]] /\ got' = got
      BY <1>8 DEF get_property
    <2>2. UNCHANGED <<log, snapshot, cursor, lost, mergedAt, op, began>>
      BY <2>1 DEF Goes, iconfig, daemon
    <2>3. \A l \in Keys : held'[l] = IF l = k THEN cache[k] ELSE held[l]
      BY <2>1 DEF CInv, TypeInv, TypeOK
    <2>4. \A l \in Keys : Overtaken(l)' <=> Overtaken(l)
      BY <2>2 DEF Overtaken, Touched
    <2>5. \A l \in Keys : WasRead(l)' <=> WasRead(l)
      BY <2>1, <2>2 DEF WasRead
    <2> QED
      BY <2>1, <2>2, <2>3, <2>4, <2>5, CacheIsRecent DEF ReadInv
  <1>9. CASE UseProperty
    <2>1. PICK k \in Keys :
            /\ Goes("use", k, step + 1)
            /\ got' = [got EXCEPT ![k] = UsedAs(k)]
            /\ held' = [held EXCEPT ![k] = NotHeld]
      BY <1>9 DEF UseProperty
    <2>2. UNCHANGED <<log, snapshot, cursor, lost, mergedAt, op, began>>
      BY <2>1 DEF Goes, iconfig, daemon
    <2>3. held[k] # NotHeld
      <3>1. /\ step \in 1..Len(Program(op))
            /\ Program(op)[step] = [do |-> "use", key |-> k]
        BY <2>1, ProgramLength DEF Goes, CInv, TypeInv, TypeOK
      <3> QED
        BY <3>1, ProgramSteps DEF CInv, TypeInv, TypeOK, HeldForUse
    <2> SUFFICES ASSUME ~lost, began.settled, NEW l \in Keys, ~Overtaken(l)'
                 PROVE  /\ \/ held'[l] = NotHeld
                           \/ Recent(log, l, began.cursor, cursor, held'[l])
                           \/ held'[l] = Freed /\ TouchedIn(log, l, began.cursor, cursor)
                        /\ WasRead(l)' =>
                             \/ Recent(log, l, began.cursor, cursor, got'[l])
                             \/ got'[l] = Garbage /\ TouchedIn(log, l, began.cursor, cursor)
      BY <2>2 DEF ReadInv
    <2>4. ~Overtaken(l)
      BY <2>2 DEF Overtaken, Touched
    <2>5. CASE l # k
      <3>1. held'[l] = held[l] /\ got'[l] = got[l]
        BY <2>1, <2>5 DEF CInv, TypeInv, TypeOK
      <3>2. WasRead(l)' <=> WasRead(l)
        BY <2>2, <3>1 DEF WasRead
      <3> QED
        BY <2>4, <3>1, <3>2 DEF ReadInv
    <2>6. CASE l = k /\ TakenForNumber(op, k)
      <3>1. held'[l] = NotHeld
        BY <2>1, <2>6 DEF CInv, TypeInv, TypeOK
      <3>2. ~WasRead(l)'
        BY <2>2, <2>6 DEF WasRead, TakenForNumber
      <3> QED
        BY <3>1, <3>2
    <2>7. CASE l = k /\ ~TakenForNumber(op, k)
      <3>1. held'[l] = NotHeld /\ got'[l] = IF held[l] = Freed THEN Garbage ELSE held[l]
        BY <2>1, <2>7 DEF CInv, TypeInv, TypeOK, UsedAs
      <3>2. \/ Recent(log, l, began.cursor, cursor, held[l])
            \/ held[l] = Freed /\ TouchedIn(log, l, began.cursor, cursor)
        BY <2>3, <2>4, <2>7 DEF ReadInv
      <3>3. ~Recent(log, l, began.cursor, cursor, Freed)
        <4>1. \A r \in began.cursor..cursor : r \in 0..Len(log)
          BY SettledPositions
        <4>2. \A r \in 0..Len(log) : ValueIn(log, l, r) \in 0..r
          BY ValueInIsPosition DEF CInv, TypeInv
        <4> QED
          BY <4>1, <4>2, NothingAssumption DEF Recent
      <3> QED
        BY <3>1, <3>2, <3>3
    <2> QED
      BY <2>5, <2>6, <2>7
  <1>10. CASE Answered \/ Unanswered
    <2>1. PICK n : Goes("call", "ipaddr", n)
      BY <1>10 DEF Answered, Unanswered
    <2>2. held' = held /\ \A l \in Keys : l # "ipaddr" => got'[l] = got[l]
      BY <1>10 DEF Answered, Unanswered, CInv, TypeInv, TypeOK
    <2>3. UNCHANGED <<log, snapshot, cursor, lost, mergedAt, op, began>>
      BY <2>1 DEF Goes, iconfig, daemon
    <2>4. op = "GetStreamUri"
      <3>1. /\ step \in 1..Len(Program(op))
            /\ Program(op)[step] = [do |-> "call", key |-> "ipaddr"]
        BY <2>1, ProgramLength DEF Goes, CInv, TypeInv, TypeOK
      <3> QED
        BY <3>1, ProgramSteps DEF CInv, TypeInv, TypeOK
    <2>5. \A l \in Keys : Overtaken(l)' <=> Overtaken(l)
      BY <2>3 DEF Overtaken, Touched
    <2>6. \A l \in Keys : WasRead(l)' => WasRead(l) /\ got'[l] = got[l]
      BY <2>2, <2>3, <2>4 DEF WasRead, TakenForNumber
    <2> QED
      BY <2>2, <2>3, <2>5, <2>6 DEF ReadInv
  <1>11. CASE Respond
    BY <1>11 DEF Respond, NotBegun, ReadInv
  <1>12. CASE Commits
    <2>1. PICK keys \in SUBSET Keys : Commit(keys)
      BY <1>12 DEF Commits
    <2>2. UNCHANGED <<cursor, lost, snapshot, mergedAt, op, held, got, began>>
      BY <2>1, CommitExtends DEF CInv, TypeInv
    <2> SUFFICES ASSUME ~lost, began.settled, NEW k \in Keys, ~Overtaken(k)'
                 PROVE  /\ \/ held[k] = NotHeld
                           \/ Recent(log', k, began.cursor, cursor, held[k])
                           \/ held[k] = Freed /\ TouchedIn(log', k, began.cursor, cursor)
                        /\ WasRead(k)' =>
                             \/ Recent(log', k, began.cursor, cursor, got[k])
                             \/ got[k] = Garbage /\ TouchedIn(log', k, began.cursor, cursor)
      BY <2>2 DEF ReadInv
    <2>3. /\ Len(log) \in Nat /\ cursor \in 0..Len(log)
          /\ began.cursor \in 0..cursor
          /\ snapshot \in 0..began.cursor /\ mergedAt \in 0..began.cursor
      BY SettledPositions
    <2>4. \A r \in 0..Len(log) : ValueIn(log', k, r) = ValueIn(log, k, r)
      BY <2>1, CommitKeeps DEF CInv, TypeInv
    <2>5. \A i \in Nat, j \in 0..Len(log) :
            TouchedIn(log', k, i, j) <=> TouchedIn(log, k, i, j)
      BY <2>1, CommitKeeps DEF CInv, TypeInv
    <2>6. /\ Overtaken(k) <=> /\ TouchedIn(log, k, snapshot, mergedAt)
                              /\ ~TouchedIn(log, k, mergedAt, began.cursor)
          /\ Overtaken(k)' <=> /\ TouchedIn(log', k, snapshot, mergedAt)
                               /\ ~TouchedIn(log', k, mergedAt, began.cursor)
      BY <2>2 DEF Overtaken, Touched, TouchedIn
    <2>7. ~Overtaken(k)
      BY <2>3, <2>5, <2>6
    <2>8. WasRead(k)' <=> WasRead(k)
      BY <2>2 DEF WasRead
    <2>9. /\ \A v : Recent(log', k, began.cursor, cursor, v) <=>
                     Recent(log, k, began.cursor, cursor, v)
          /\ TouchedIn(log', k, began.cursor, cursor) <=>
                TouchedIn(log, k, began.cursor, cursor)
      BY <2>3, <2>4, <2>5 DEF Recent
    <2> QED
      BY <2>7, <2>8, <2>9 DEF ReadInv
  <1>13. CASE AnswerGetNetwork
    BY <1>1, <1>13 DEF AnswerGetNetwork, soap
  <1>14. CASE LoseNotice
    BY <1>14 DEF LoseNotice, ReadInv
  <1>15. CASE UNCHANGED vars
    BY <1>2, <1>15 DEF vars, CInv, TypeInv, TypeOK
  <1> QED
    BY <1>3, <1>4, <1>5, <1>6, <1>7, <1>8, <1>9, <1>10, <1>11, <1>12, <1>13, <1>14,
       <1>15, NextCommits DEF Next

THEOREM ReadInductive == Spec => []RInv
  <1>1. Init => RInv
    BY TypeInit, StageInit, ReadInit DEF CInv, RInv
  <1>2. RInv /\ [Next]_vars => RInv'
    BY TypeStep, HasValueStep, StageStep, CacheStep, BeganStep, ReadStep
    DEF RInv, CInv, TypeInv
  <1> QED
    BY <1>1, <1>2, PTL DEF Spec

LEMMA ReadsRecent == RInv => ReadsAreRecent
  BY DEF RInv, ReadInv, ReadsAreRecent, Recent, Touched, TouchedIn, ValueAt, ValueIn

\* An operation begun when the cache was settled reports nothing older than what
\* the daemon knew then, and reads freed memory only if the key was set meanwhile.
THEOREM ReadsAreFresh == Spec => []ReadsAreRecent
  BY ReadsRecent, ReadInductive, PTL

\* Two settings reported together were iconfig's together at one time, unless
\* notices handled meanwhile changed both.
THEOREM MixesAreExplained == Spec => []MixedOnlyIfBothChange
  <1>1. RInv => MixedOnlyIfBothChange
    <2> SUFFICES ASSUME RInv, ~lost, began.settled, NEW k \in Keys, NEW l \in Keys,
                        WasRead(k), WasRead(l), ~Overtaken(k), ~Overtaken(l),
                        Garbage \notin {got[k], got[l]},
                        ~TouchedIn(log, k, began.cursor, cursor)
                          \/ ~TouchedIn(log, l, began.cursor, cursor)
                 PROVE  \E r \in began.cursor..cursor :
                          got[k] = ValueIn(log, k, r) /\ got[l] = ValueIn(log, l, r)
      BY DEF MixedOnlyIfBothChange, Touched, TouchedIn, ValueAt, ValueIn
    <2>1. /\ Len(log) \in Nat /\ cursor \in 0..Len(log) /\ began.cursor \in 0..cursor
      BY SettledPositions DEF RInv
    <2>2. PICK r \in began.cursor..cursor : got[k] = ValueIn(log, k, r)
      BY DEF RInv, ReadInv, Recent
    <2>3. PICK q \in began.cursor..cursor : got[l] = ValueIn(log, l, q)
      BY DEF RInv, ReadInv, Recent
    <2>4. ASSUME NEW m \in Keys, ~TouchedIn(log, m, began.cursor, cursor),
                 NEW i \in began.cursor..cursor
          PROVE  ValueIn(log, m, i) = ValueIn(log, m, cursor)
      <3>1. ~TouchedIn(log, m, i, cursor)
        BY <2>1, <2>4 DEF TouchedIn
      <3>2. i \in 0..Len(log) /\ i <= cursor
        BY <2>1
      <3> QED
        BY <2>1, <3>1, <3>2, ValueFrame DEF RInv, CInv, TypeInv
    <2>5. CASE ~TouchedIn(log, k, began.cursor, cursor)
      BY <2>2, <2>3, <2>4, <2>5
    <2>6. CASE ~TouchedIn(log, l, began.cursor, cursor)
      BY <2>2, <2>3, <2>4, <2>6
    <2> QED
      BY <2>5, <2>6
  <1> QED
    BY <1>1, ReadInductive, PTL

-----------------------------------------------------------------------------
(***************************************************************************)
(* The cache agrees in the end.  What the provers cannot see is when a     *)
(* step is ENABLED, so that is the theorem's hypothesis: a message in hand *)
(* has a next key to set, and the loop thread can take the next message.   *)
(***************************************************************************)
Pending == query \in {"sent", "answered"}

CanGoOn ==
  /\ todo # {} => ENABLED <<SetProperty>>_vars
  /\ todo = {} /\ cursor < Len(log) => ENABLED <<HandleNotice>>_vars
  /\ todo = {} /\ Pending => ENABLED <<MergeReply \/ IgnoreReply>>_vars

\* Nothing is in hand, nothing is on its way.
Quiet == todo = {} /\ query \in {"merged", "expired"} /\ cursor = Len(log)

Agrees == \/ \A k \in Keys : cache[k] = ValueAt(k, Len(log))
          \/ lost \/ query = "expired" \/ mergedAt > snapshot

\* With nothing in hand and every notice handled, the cache is the section.
LEMMA QuietAgrees ==
  ASSUME CInv, Quiet PROVE Agrees
  <1> SUFFICES ASSUME ~lost, query = "merged", ~(mergedAt > snapshot), NEW k \in Keys
               PROVE  cache[k] = ValueIn(log, k, Len(log))
    BY DEF Agrees, Quiet, ValueAt, ValueIn
  <1>1. /\ Len(log) \in Nat /\ cursor = Len(log)
        /\ snapshot \in 0..Len(log) /\ mergedAt \in 0..cursor /\ mergedAt <= snapshot
    BY DEF CInv, TypeInv, TypeOK, Quiet
  <1>2. cache[k] = At(log, k, mergedAt, cursor, ValueIn(log, k, snapshot))
    BY DEF CInv, CacheInv, Applied, Quiet
  <1>3. CASE TouchedIn(log, k, mergedAt, cursor)
    BY <1>1, <1>2, <1>3 DEF At
  <1>4. CASE ~TouchedIn(log, k, mergedAt, cursor)
    <2>1. ~TouchedIn(log, k, snapshot, Len(log))
      BY <1>1, <1>4 DEF TouchedIn
    <2>2. ValueIn(log, k, snapshot) = ValueIn(log, k, Len(log))
      BY <1>1, <2>1, ValueFrame DEF CInv, TypeInv
    <2> QED
      BY <1>2, <1>4, <2>2 DEF At
  <1> QED
    BY <1>3, <1>4

\* The first n keys of the order are set, as far as the message has them.
Past(n) == \A j \in 1..n : Order[j] \notin todo

\* A message goes on from its first n keys to its first m, or is finished.
Advances(n, m) ==
  FairSpec /\ []CanGoOn => (todo # {} /\ Past(n) ~> todo = {} \/ Past(m))

LEMMA OrderOfKeys ==
  /\ Len(Order) = 5
  /\ \A k \in Keys : \E i \in 1..5 : Order[i] = k
  /\ \A i, j \in 1..5 : Order[i] = Order[j] => i = j
  <1>1. /\ Len(Order) = 5 /\ Order[1] = "ipaddr" /\ Order[2] = "dns1"
        /\ Order[3] = "dns2" /\ Order[4] = "http" /\ Order[5] = "rtsp"
    BY DEF Order
  <1> QED
    BY <1>1 DEF Keys

\* A new message is taken only when the last one is finished.
LEMMA MessageStays ==
  ASSUME todo # {}, [Next]_vars
  PROVE  todo' \subseteq todo
  BY DEF Next, MergeReply, IgnoreReply, HandleNotice, SetProperty, Begin,
         get_property, UseProperty, Answered, Unanswered, Respond, Goes,
         SetDNS, SetNetworkInterfaces, SetNetworkProtocols, OthersChange, Commit,
         AnswerGetNetwork, LoseNotice, daemon, vars

\* The next key is the first that is left.
LEMMA OneKey ==
  ASSUME NEW n \in 0..4 PROVE Advances(n, n + 1)
  <1>1. todo # {} /\ Past(n) /\ [Next]_vars => (Past(n) /\ todo # {})' \/ (todo = {})'
    BY MessageStays DEF Past
  <1>2. todo # {} /\ Past(n) /\ <<SetProperty>>_vars => Past(n + 1)'
    <2> SUFFICES ASSUME Past(n), SetProperty PROVE Past(n + 1)'
      OBVIOUS
    <2>1. PICK k \in todo : IsNext(k) /\ todo' = todo \ {k}
      BY DEF SetProperty
    <2>2. PICK i \in 1..5 :
            k = Order[i] /\ k \in todo /\ \A j \in 1..(i - 1) : Order[j] \notin todo
      BY <2>1, OrderOfKeys DEF IsNext
    <2>3. i > n
      BY <2>2 DEF Past
    <2>4. ASSUME NEW j \in 1..(n + 1) PROVE Order[j] \notin todo'
      <3>1. j \in 1..(i - 1) \/ j = i
        BY <2>3
      <3> QED
        BY <2>1, <2>2, <3>1
    <2>5. Order' = Order
      BY DEF Order
    <2> QED
      BY <2>4, <2>5 DEF Past
  <1>3. todo = {} \/ todo # {}
    OBVIOUS
  <1> QED
    BY <1>1, <1>2, <1>3, PTL DEF Advances, Spec, FairSpec, Fairness, CanGoOn

\* The message in hand is finished.
LEMMA MessageEnds == FairSpec /\ []CanGoOn => (todo # {} ~> todo = {})
  <1>0. Past(0)
    BY DEF Past
  <1>1. /\ Advances(0, 0 + 1) /\ Advances(1, 1 + 1) /\ Advances(2, 2 + 1)
        /\ Advances(3, 3 + 1) /\ Advances(4, 4 + 1)
    BY OneKey
  <1>2. /\ Advances(0, 1) /\ Advances(1, 2) /\ Advances(2, 3)
        /\ Advances(3, 4) /\ Advances(4, 5)
    BY <1>1
  <1>3. TypeOK /\ Past(5) => todo = {}
    <2>1. TypeOK => todo \in SUBSET Keys
      BY DEF TypeOK
    <2> QED
      BY <2>1, OrderOfKeys DEF Past
  <1>4. todo = {} \/ todo # {}
    OBVIOUS
  <1> QED
    BY <1>0, <1>2, <1>3, <1>4, TypeCorrect, PTL DEF Advances, FairSpec

-----------------------------------------------------------------------------
(***************************************************************************)
(* The messages are counted: the notices taken from the channel, and the   *)
(* startup request's end.                                                  *)
(***************************************************************************)
Taken == cursor + (IF Pending THEN 0 ELSE 1)

\* From n messages the daemon comes to m, or there are no more.
Reach(n, m) == FairSpec /\ []CanGoOn => (Taken >= n ~> Taken >= m \/ []Quiet)
Leap(d) == \A n \in Nat : Reach(n, n + d)

\* No step takes a message back, and none is in hand that was not counted.
LEMMA TakenGrows ==
  ASSUME TypeOK, [Next]_vars
  PROVE  /\ Taken \in Nat /\ Taken' \in Nat /\ Taken' >= Taken
         /\ todo = {} /\ todo' # {} => Taken' >= Taken + 1
         /\ Pending /\ ~Pending' => Taken' >= Taken + 1
         /\ cursor < Len(log) /\ ~(cursor < Len(log))' => Taken' >= Taken + 1
  <1>1. cursor \in Nat /\ Taken \in Nat /\ Len(log) \in Nat
    BY DEF TypeOK, Taken
  <1>2. CASE MergeReply \/ IgnoreReply
    BY <1>1, <1>2 DEF MergeReply, IgnoreReply, Taken, Pending, iconfig
  <1>3. CASE HandleNotice \/ LoseNotice
    BY <1>1, <1>3 DEF HandleNotice, LoseNotice, Taken, Pending, daemon, iconfig
  <1>4. CASE SetProperty
    BY <1>1, <1>4 DEF SetProperty, Taken, Pending, iconfig
  <1>5. CASE AnswerGetNetwork
    BY <1>1, <1>5 DEF AnswerGetNetwork, Taken, Pending
  <1>6. CASE Commits
    BY <1>1, <1>6, CommitExtends DEF Commits, Taken, Pending
  <1>7. CASE UNCHANGED <<log, cursor, query, todo>>
    BY <1>1, <1>7 DEF Taken, Pending
  <1> QED
    BY <1>2, <1>3, <1>4, <1>5, <1>6, <1>7, NextCommits
    DEF Next, Begin, get_property, UseProperty, Answered, Unanswered, Respond, Goes,
        iconfig, daemon, vars

\* One message: the count stays what it is only if nothing comes any more.
LEMMA OneMessage == Leap(1)
  <1> SUFFICES ASSUME NEW n \in Nat PROVE Reach(n, n + 1)
    BY DEF Leap
  <1> DEFINE There == Taken = n
             Waits == cursor < Len(log)
  <1>1. TypeOK /\ [Next]_vars => (Taken >= n => (Taken >= n)')
    BY TakenGrows
  <1>2. TypeOK /\ Taken >= n => There \/ Taken >= n + 1
    BY DEF TypeOK, Taken
  <1>3. TypeOK /\ [Next]_vars /\ There /\ todo = {} => (todo = {})' \/ (Taken >= n + 1)'
    BY TakenGrows
  <1>4. TypeOK /\ There /\ Pending /\ <<MergeReply \/ IgnoreReply>>_vars
          => (Taken >= n + 1)'
    BY DEF TypeOK, MergeReply, IgnoreReply, Taken, Pending
  <1>5. TypeOK /\ There /\ <<HandleNotice>>_vars => (Taken >= n + 1)'
    BY DEF TypeOK, HandleNotice, Taken, Pending
  <1>6. TypeOK /\ There /\ Pending /\ [Next]_vars => Pending' \/ (Taken >= n + 1)'
    BY TakenGrows
  <1>7. ~Pending /\ [Next]_vars => ~Pending'
    BY DEF Next, MergeReply, IgnoreReply, HandleNotice, SetProperty, Begin,
           get_property, UseProperty, Answered, Unanswered, Respond, Goes,
           SetDNS, SetNetworkInterfaces, SetNetworkProtocols, OthersChange, Commit,
           AnswerGetNetwork, LoseNotice, daemon, vars, Pending
  <1>8. CInv /\ todo = {} /\ ~Pending /\ ~Waits => Quiet
    <2>1. CInv => StageInv /\ query \in {"sent", "answered", "merging", "merged", "expired"}
      BY DEF CInv, TypeInv, TypeOK
    <2>2. CInv => cursor \in Nat /\ Len(log) \in Nat /\ cursor <= Len(log)
      BY DEF CInv, TypeInv, TypeOK
    <2> QED
      BY <2>1, <2>2 DEF StageInv, Pending, Quiet
  <1>9. TypeOK /\ There /\ Waits /\ [Next]_vars => Waits' \/ (Taken >= n + 1)'
    BY TakenGrows
  <1>10. CInv => TypeOK
    BY DEF CInv, TypeInv
  <1>11. todo = {} \/ todo # {}
    OBVIOUS
  <1> QED
    BY <1>1, <1>2, <1>3, <1>4, <1>5, <1>6, <1>7, <1>8, <1>9, <1>10, <1>11,
       MessageEnds, CacheInductive,
       PTL DEF Reach, Spec, FairSpec, Fairness, CanGoOn

\* Twice as many.
LEMMA TwiceAsFar ==
  ASSUME NEW d \in Nat, Leap(d) PROVE Leap(2 * d)
  <1> SUFFICES ASSUME NEW n \in Nat PROVE Reach(n, n + 2 * d)
    BY DEF Leap
  <1>1. Reach(n, n + d)
    BY DEF Leap
  <1>2. Reach(n + d, (n + d) + d)
    BY DEF Leap
  <1>3. Reach(n + d, n + 2 * d)
    BY <1>2
  <1> QED
    BY <1>1, <1>3, PTL DEF Reach

LEMMA SixteenTimesAsFar ==
  ASSUME NEW d \in Nat, Leap(d) PROVE Leap(16 * d)
  <1>1. Leap(2 * d)
    BY TwiceAsFar
  <1>2. Leap(2 * (2 * d))
    BY <1>1, TwiceAsFar
  <1>3. Leap(2 * (2 * (2 * d)))
    BY <1>2, TwiceAsFar
  <1>4. Leap(2 * (2 * (2 * (2 * d))))
    BY <1>3, TwiceAsFar
  <1> QED
    BY <1>4

\* However many changes the section sees, up to 2^32, all is handled for good.
LEMMA QuietAtLast ==
  ASSUME MaxRevs < 4294967295
  PROVE  FairSpec /\ []CanGoOn => <>[]Quiet
  <1>1. Leap(16 * 1)
    BY OneMessage, SixteenTimesAsFar
  <1>2. Leap(16 * 16)
    BY <1>1, SixteenTimesAsFar
  <1>3. Leap(16 * 256)
    BY <1>2, SixteenTimesAsFar
  <1>4. Leap(16 * 4096)
    BY <1>3, SixteenTimesAsFar
  <1>5. Leap(16 * 65536)
    BY <1>4, SixteenTimesAsFar
  <1>6. Leap(16 * 1048576)
    BY <1>5, SixteenTimesAsFar
  <1>7. Leap(16 * 16777216)
    BY <1>6, SixteenTimesAsFar
  <1>8. Leap(16 * 268435456)
    BY <1>7, SixteenTimesAsFar
  <1>9. Reach(0, 0 + 16 * 268435456)
    BY <1>8 DEF Leap
  <1>10. Reach(0, 4294967296)
    BY <1>9
  <1>11. TypeOK => Taken >= 0 /\ ~(Taken >= 4294967296)
    BY MaxRevsAssumption DEF TypeOK, Taken
  <1> QED
    BY <1>10, <1>11, TypeCorrect, PTL DEF Reach, FairSpec

\* Messages are handled one after the other, each key by key, the startup reply
\* among them wherever it falls: what is left in the end is the section.
THEOREM CacheSettles ==
  ASSUME MaxRevs < 4294967295
  PROVE  FairSpec /\ []CanGoOn => EventuallyAgrees
  <1>1. CInv /\ Quiet => Agrees
    BY QuietAgrees
  <1> QED
    BY <1>1, QuietAtLast, CacheInductive, PTL
    DEF FairSpec, EventuallyAgrees, Agrees
=============================================================================
