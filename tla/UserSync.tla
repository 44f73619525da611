------------------------------ MODULE UserSync ------------------------------
(***************************************************************************)
(* How the ionvif daemon keeps its copy of the account table, the hash     *)
(* priv->cached_users_hash that onvif_access_control reads, in step with   *)
(* the table of the iconfig service.                                       *)
(*                                                                         *)
(* The copy has two feeds, on separate connections:                        *)
(*   - one get_users request sent when the service starts, answered with a *)
(*     snapshot of the whole table or given up after 60 seconds;           *)
(*   - the add_users, set_users and del_users notices iconfig publishes,   *)
(*     in order, after every change; a notice may be lost.                 *)
(* Nothing orders the snapshot's arrival against the notices'.             *)
(*                                                                         *)
(* iconfig is outside the repository.  It is the variable log: the         *)
(* revisions of its table since this daemon registered its notice          *)
(* handlers, each with the change that made it.                            *)
(***************************************************************************)
EXTENDS Integers, Sequences

CONSTANTS Users,      \* account names
          Passwords,  \* the passwords an account can have
          Absent,     \* "no such entry" in a table
          MaxRevs     \* bound: the revisions iconfig makes of its table

ASSUME AbsentAssumption == Absent \notin Passwords
ASSUME MaxRevsAssumption == MaxRevs \in Nat

VARIABLES
  cache,     \* cached_users_hash: the password of each account, or Absent
  log,       \* iconfig: the revisions of its table, the first one at startup
  cursor,    \* the revision whose notice left the notice channel last
  lost,      \* history: some notice was lost
  query,     \* the startup get_users request
  snapshot,  \* the revision the reply carries, 0 before there is a reply
  mergedAt   \* history: the cursor when the reply was merged, 0 before

vars == <<cache, log, cursor, lost, query, snapshot, mergedAt>>

-----------------------------------------------------------------------------
(***************************************************************************)
(* Tables, and the changes iconfig makes and announces.  An item without a *)
(* password (Absent) is an account the notice does not name, or names      *)
(* without a "password" member, as a change of role does.                  *)
(***************************************************************************)
Table   == [Users -> Passwords \cup {Absent}]
Updates == [event : {"add_users", "set_users"}, items : Table]
Removes == [event : {"del_users"}, names : SUBSET Users]
Change  == Updates \cup Removes
NoUsers == [u \in Users |-> Absent]
Revision == [change : Change, table : Table]

Named(c) == IF c.event = "del_users" THEN c.names
            ELSE {u \in Users : c.items[u] # Absent}

\* What iconfig does to its own table: add_users creates accounts that do not
\* exist, set_users alters accounts that do, del_users removes accounts.
Legal(t, c) ==
  \/ c.event = "add_users" /\ \A u \in Named(c) : t[u] = Absent
  \/ c.event \in {"set_users", "del_users"} /\ \A u \in Named(c) : t[u] # Absent

Changed(t, c) ==
  [u \in Users |-> IF u \notin Named(c) THEN t[u]
                   ELSE IF c.event = "del_users" THEN Absent ELSE c.items[u]]

-----------------------------------------------------------------------------
(***************************************************************************)
(* The daemon.  Each operation holds priv->mutex over its whole array, so  *)
(* it is one step; all of them run in the base service's loop thread.      *)
(***************************************************************************)

\* Mutant: the array replaces the table.
update_users_replacing(hash, items) == items

\* Mutant: entries that are there are kept.
update_users_keeping(hash, items) ==
  [u \in Users |-> IF hash[u] # Absent THEN hash[u] ELSE items[u]]

update_users(hash, items) ==
  [u \in Users |-> IF items[u] # Absent THEN items[u] ELSE hash[u]]

\* Mutant: del_users is not handled.
delete_users_ignored(hash, names) == hash

delete_users(hash, names) ==
  [u \in Users |-> IF u \in names THEN Absent ELSE hash[u]]

\* Mutant: set_users is not handled.
run_notice_without_set(hash, c) ==
  IF c.event = "del_users" THEN delete_users(hash, c.names)
  ELSE IF c.event = "add_users" THEN update_users(hash, c.items)
  ELSE hash

run_notice(hash, c) ==
  IF c.event = "del_users" THEN delete_users(hash, c.names)
  ELSE update_users(hash, c.items)

\* before_start has run up to line 396: the caches are empty, the notice
\* handlers are registered, and nothing has been requested.
Init ==
  /\ cache = NoUsers
  /\ log \in {<<[change |-> c, table |-> t]>> :
                 c \in {[event |-> "del_users", names |-> {}]}, t \in Table}
  /\ cursor = 1
  /\ lost = FALSE
  /\ query = "unsent"
  /\ snapshot = 0
  /\ mergedAt = 0

SendGetUsers ==
  /\ query = "unsent"
  /\ query' = "sent"
  /\ UNCHANGED <<cache, log, cursor, lost, snapshot, mergedAt>>

\* The reply arrives: its users are merged into whatever the notices left.
MergeReply ==
  /\ query = "answered"
  /\ query' = "merged"
  /\ cache' = update_users(cache, log[snapshot].table)
  /\ mergedAt' = cursor
  /\ UNCHANGED <<log, cursor, lost, snapshot>>

\* Mutant: a call with timeout is taken for the reply.
IgnoreReply_as_merged ==
  /\ query \in {"sent", "answered"}
  /\ query' = "merged"
  /\ UNCHANGED <<cache, log, cursor, lost, snapshot, mergedAt>>

\* The handler is called with timeout, or with a reply that has no body.
IgnoreReply ==
  /\ query \in {"sent", "answered"}
  /\ query' = "expired"
  /\ UNCHANGED <<cache, log, cursor, lost, snapshot, mergedAt>>

\* The loop runs once before_start has returned, the request sent.
HandleNotice ==
  /\ query # "unsent"
  /\ cursor < Len(log)
  /\ cursor' = cursor + 1
  /\ cache' = run_notice(cache, log[cursor + 1].change)
  /\ UNCHANGED <<log, lost, query, snapshot, mergedAt>>

-----------------------------------------------------------------------------
(***************************************************************************)
(* iconfig and the channels.                                               *)
(***************************************************************************)
Commit ==
  /\ Len(log) <= MaxRevs
  /\ \E c \in Change :
       /\ Legal(log[Len(log)].table, c)
       /\ log' = Append(log, [change |-> c,
                              table |-> Changed(log[Len(log)].table, c)])
  /\ UNCHANGED <<cache, cursor, lost, query, snapshot, mergedAt>>

AnswerGetUsers ==
  /\ query = "sent"
  /\ query' = "answered"
  /\ snapshot' = Len(log)
  /\ UNCHANGED <<cache, log, cursor, lost, mergedAt>>

LoseNotice ==
  /\ cursor < Len(log)
  /\ cursor' = cursor + 1
  /\ lost' = TRUE
  /\ UNCHANGED <<cache, log, query, snapshot, mergedAt>>

Next ==
  \/ SendGetUsers \/ MergeReply \/ IgnoreReply \/ HandleNotice
  \/ Commit \/ AnswerGetUsers \/ LoseNotice

Spec == Init /\ [][Next]_vars

\* The loop thread keeps running: before_start ends, it takes whatever notice
\* or reply is there, and the 60 second timer fires if no reply comes.  Nothing
\* is assumed of iconfig: it may change its table, and answer, or not.
Fairness ==
  /\ WF_vars(SendGetUsers)
  /\ WF_vars(MergeReply \/ IgnoreReply)
  /\ WF_vars(HandleNotice)

FairSpec == Spec /\ Fairness

-----------------------------------------------------------------------------
Current == log[Len(log)].table

\* One of the changes after revision i, up to revision j, names account u.
Touched(u, i, j) == \E n \in (i + 1)..j : u \in Named(log[n].change)

\* Every variable has its type, and the positions are positions of the log.
TypeOK ==
  /\ cache \in Table
  /\ log \in Seq(Revision)
  /\ cursor \in 1..Len(log)
  /\ lost \in BOOLEAN
  /\ query \in {"unsent", "sent", "answered", "merged", "expired"}
  /\ snapshot \in 0..Len(log)
  /\ mergedAt \in 0..Len(log)
  /\ query \in {"answered", "merged"} => snapshot >= 1
  /\ query = "merged" => mergedAt >= 1

\* While only notices have fed it, the copy may lack accounts but has no wrong
\* one: each entry is what iconfig had after the last notice handled, even
\* though no notice carries the whole table (update_users, delete_users).
PartialButRight ==
  ~lost /\ query # "merged" =>
    \A u \in Users : cache[u] \in {Absent, log[cursor].table[u]}

\* Once the snapshot is merged and the notices up to it are handled, an entry
\* is wrong only if the snapshot was overtaken for that account: a change made
\* after the snapshot was taken had its notice handled before the snapshot was
\* merged, and the account was not changed again since.  In particular the
\* redelivery of older notices over a newer snapshot heals itself.
WrongOnlyIfOvertaken ==
  ~lost /\ query = "merged" /\ cursor >= snapshot =>
    \A u \in Users :
      cache[u] # log[cursor].table[u] =>
        Touched(u, snapshot, mergedAt) /\ ~Touched(u, mergedAt, cursor)

\* A wrong entry is not an invention: it is what the overtaken snapshot said of
\* that account (a password since changed, or an account since deleted).
WrongMeansSnapshot ==
  ~lost /\ query = "merged" /\ cursor >= snapshot =>
    \A u \in Users :
      cache[u] # log[cursor].table[u] =>
        cache[u] = log[snapshot].table[u]

\* No step but a del_users notice takes an account out of the copy: neither the
\* snapshot, which leaves out accounts deleted before it was taken, nor an
\* update of other accounts.
OnlyDeletesForget ==
  [][\A u \in Users :
       cache[u] # Absent /\ cache'[u] = Absent =>
         /\ cursor' = cursor + 1
         /\ u \in Named(log[cursor'].change)
         /\ log[cursor'].table[u] = Absent]_vars

\* The copy ends equal to iconfig's table for good, unless a notice was lost,
\* the startup request expired, or the snapshot was overtaken.
EventuallyAgrees ==
  <>[](\/ cache = Current
       \/ lost \/ query = "expired" \/ mergedAt > snapshot)

\* What the account operations are documented to do: they change the accounts
\* "on a device for authentication purposes".  With every notice handled and
\* the startup reply merged, the table authentication reads is iconfig's.
ChangesReachAuthentication ==
  ~lost /\ query = "merged" /\ cursor = Len(log) => cache = Current
=============================================================================
