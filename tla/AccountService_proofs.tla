------------------------ MODULE AccountService_proofs ------------------------
(***************************************************************************)
(* Invariance proofs for UserSync and AccountService, and that the latter  *)
(* implements the former, for any accounts, passwords, operations and      *)
(* numbers of changes.  At the end, that the copy settles and logins with  *)
(* it.                                                                     *)
(***************************************************************************)
EXTENDS AccountService, TLAPS


-----------------------------------------------------------------------------
(***************************************************************************)
(* The copy (UserSync): the inductive invariant.                           *)
(***************************************************************************)

\* Two revisions agree on every account no change between them names.
LogFrame ==
  \A i \in 1..Len(log), j \in 1..Len(log) :
    i <= j => \A u \in Users :
                ~Touched(u, i, j) => log[i].table[u] = log[j].table[u]

\* After a change that names an account, the revision says of it what the
\* change's notice says.
LogApplied ==
  \A n \in 2..Len(log) : \A u \in Named(log[n].change) :
    log[n].table[u] = IF log[n].change.event = "del_users" THEN Absent
                      ELSE log[n].change.items[u]

\* What the copy held of account u just after the snapshot was merged: the
\* snapshot's entry, or else what the notices before it had left.
Merged(u) ==
  IF log[snapshot].table[u] # Absent THEN log[snapshot].table[u]
  ELSE IF Touched(u, 1, mergedAt) THEN log[mergedAt].table[u] ELSE Absent

\* The copy, entry by entry: what the last notice that named the account left,
\* or else what the copy started from.
CopyInv ==
  ~lost =>
    \A u \in Users :
      /\ query # "merged" =>
           cache[u] = IF Touched(u, 1, cursor) THEN log[cursor].table[u] ELSE Absent
      /\ query = "merged" =>
           cache[u] = IF Touched(u, mergedAt, cursor) THEN log[cursor].table[u]
                      ELSE Merged(u)

MergedBefore == mergedAt <= cursor

IInv == TypeOK /\ LogFrame /\ LogApplied /\ CopyInv /\ MergedBefore

-----------------------------------------------------------------------------
\* Tables are closed under a change, an update and a removal.
LEMMA TablesClosed ==
  ASSUME NEW t \in Table, NEW c \in Change
  PROVE  Changed(t, c) \in Table /\ run_notice(t, c) \in Table
  BY DEF Table, Change, Updates, Removes, Changed, Named, run_notice,
         update_users, delete_users

\* Handling a notice does to the copy what its change did to iconfig's table:
\* a named account gets the new entry, any other keeps its own.
LEMMA NoticeEntry ==
  ASSUME NEW t \in Table, NEW c \in Change, NEW u \in Users
  PROVE  /\ u \notin Named(c) => run_notice(t, c)[u] = t[u]
         /\ u \in Named(c) => run_notice(t, c)[u] =
              IF c.event = "del_users" THEN Absent ELSE c.items[u]
  BY DEF Table, Change, Updates, Removes, Named, run_notice, update_users,
         delete_users

\* The type invariant holds at the start.
LEMMA TypeInit == Init => TypeOK
  <1> SUFFICES ASSUME Init PROVE TypeOK
    OBVIOUS
  <1> DEFINE boot == [event |-> "del_users", names |-> {}]
  <1>1. boot \in Change
    BY DEF Change, Removes
  <1>2. PICK t \in Table : log = <<[change |-> boot, table |-> t]>>
    BY DEF Init
  <1>3. [change |-> boot, table |-> t] \in Revision
    BY <1>1 DEF Revision
  <1>4. log \in Seq(Revision) /\ Len(log) = 1
    BY <1>2, <1>3
  <1>5. cache \in Table
    BY DEF Init, NoUsers, Table
  <1>6. cursor = 1 /\ lost = FALSE /\ query = "unsent" /\ snapshot = 0 /\ mergedAt = 0
    BY DEF Init
  <1>7. lost \in BOOLEAN
    BY <1>6
  <1>8. cursor \in 1..Len(log) /\ snapshot \in 0..Len(log) /\ mergedAt \in 0..Len(log)
    BY <1>4, <1>6
  <1> QED
    BY <1>4, <1>5, <1>6, <1>7, <1>8 DEF TypeOK

\* The parts of a revision of the log.
LEMMA RevisionParts ==
  ASSUME TypeOK, NEW n \in 1..Len(log)
  PROVE  log[n].change \in Change /\ log[n].table \in Table
  <1>1. log[n] \in Revision
    BY DEF TypeOK
  <1> QED
    BY <1>1 DEF Revision

\* Every step keeps the types.
LEMMA TypeStep == TypeOK /\ [Next]_vars => TypeOK'
  <1> SUFFICES ASSUME TypeOK, [Next]_vars PROVE TypeOK'
    OBVIOUS
  <1> USE DEF TypeOK
  <1>1. CASE SendGetUsers
    BY <1>1 DEF SendGetUsers
  <1>2. CASE MergeReply
    <2>1. log[snapshot].table \in Table
      BY <1>2, RevisionParts DEF MergeReply
    <2>2. cache' \in Table
      BY <1>2, <2>1 DEF MergeReply, update_users, Table
    <2> QED
      BY <1>2, <2>2 DEF MergeReply
  <1>3. CASE IgnoreReply
    BY <1>3 DEF IgnoreReply
  <1>4. CASE HandleNotice
    <2>1. log[cursor + 1].change \in Change
      BY <1>4, RevisionParts DEF HandleNotice
    <2>2. cache' \in Table
      BY <1>4, <2>1, TablesClosed DEF HandleNotice
    <2> QED
      BY <1>4, <2>2 DEF HandleNotice
  <1>5. CASE Commit
    <2>1. PICK c \in Change :
            log' = Append(log, [change |-> c,
                                table |-> Changed(log[Len(log)].table, c)])
      BY <1>5 DEF Commit
    <2>2. log[Len(log)].table \in Table
      BY RevisionParts
    <2>3. [change |-> c, table |-> Changed(log[Len(log)].table, c)] \in Revision
      BY <2>2, TablesClosed DEF Revision
    <2>4. log' \in Seq(Revision) /\ Len(log') = Len(log) + 1
      BY <2>1, <2>3
    <2> QED
      BY <1>5, <2>4 DEF Commit
  <1>6. CASE AnswerGetUsers
    BY <1>6 DEF AnswerGetUsers
  <1>7. CASE LoseNotice
    BY <1>7 DEF LoseNotice
  <1>8. CASE UNCHANGED vars
    BY <1>8 DEF vars
  <1> QED
    BY <1>1, <1>2, <1>3, <1>4, <1>5, <1>6, <1>7, <1>8 DEF Next

\* Type correctness of the account copy, the log and the positions in it.
THEOREM TypeCorrect == Spec => []TypeOK
  BY TypeInit, TypeStep, PTL DEF Spec

-----------------------------------------------------------------------------
(***************************************************************************)
(* The log: it only grows, and a revision keeps what its change leaves.    *)
(***************************************************************************)

\* A commit appends one revision, made from the last one by a change.
LEMMA CommitExtends ==
  ASSUME TypeOK, Commit
  PROVE  \E c \in Change :
           LET len == Len(log) IN
           /\ Len(log') = len + 1
           /\ \A n \in 1..len : log'[n] = log[n]
           /\ log'[len + 1].change = c
           /\ log'[len + 1].table = Changed(log[len].table, c)
  <1>1. PICK c \in Change :
          log' = Append(log, [change |-> c,
                              table |-> Changed(log[Len(log)].table, c)])
    BY DEF Commit
  <1>2. log \in Seq(Revision)
    BY DEF TypeOK
  <1> QED
    BY <1>1, <1>2

\* What a commit does not reach: the changes between two revisions of the log.
LEMMA TouchedKept ==
  ASSUME TypeOK, Commit, NEW u \in Users, NEW i \in Nat, NEW j \in 0..Len(log)
  PROVE  Touched(u, i, j)' <=> Touched(u, i, j)
  <1>1. \A n \in 1..Len(log) : log'[n] = log[n]
    BY CommitExtends
  <1>2. \A n \in (i + 1)..j : log'[n] = log[n]
    BY <1>1 DEF TypeOK
  <1> QED
    BY <1>2 DEF Touched

\* The log's two invariants hold at the start and are kept.
LEMMA LogInit == Init => LogFrame /\ LogApplied
  <1> SUFFICES ASSUME Init PROVE LogFrame /\ LogApplied
    OBVIOUS
  <1>1. Len(log) = 1
    BY DEF Init
  <1> QED
    BY <1>1 DEF LogFrame, LogApplied

LEMMA LogStep == IInv /\ [Next]_vars => LogFrame' /\ LogApplied'
  <1> SUFFICES ASSUME IInv, [Next]_vars PROVE LogFrame' /\ LogApplied'
    OBVIOUS
  <1>1. CASE Commit
    <2> DEFINE len == Len(log)
    <2>1. PICK c \in Change :
            /\ Len(log') = len + 1
            /\ \A n \in 1..len : log'[n] = log[n]
            /\ log'[len + 1].change = c
            /\ log'[len + 1].table = Changed(log[len].table, c)
      BY <1>1, CommitExtends DEF IInv
    <2>2. len \in Nat /\ len >= 1 /\ log[len].table \in Table
      BY RevisionParts DEF IInv, TypeOK
    <2> HIDE DEF len
    <2>3. \A u \in Users : log'[len + 1].table[u] =
            IF u \notin Named(c) THEN log[len].table[u]
            ELSE IF c.event = "del_users" THEN Absent ELSE c.items[u]
      BY <2>1 DEF Changed
    <2>4. LogFrame'
      <3> SUFFICES ASSUME NEW i \in 1..(len + 1), NEW j \in 1..(len + 1), i <= j,
                          NEW u \in Users, ~Touched(u, i, j)'
                   PROVE  log'[i].table[u] = log'[j].table[u]
        BY <2>1 DEF LogFrame
      <3>1. CASE j <= len
        <4>1. ~Touched(u, i, j)
          BY <1>1, <2>2, <3>1, TouchedKept DEF IInv, len
        <4>2. log[i].table[u] = log[j].table[u]
          BY <2>2, <3>1, <4>1 DEF IInv, LogFrame, len
        <4> QED
          BY <2>1, <2>2, <3>1, <4>2
      <3>2. CASE i = len + 1
        BY <2>2, <3>2
      <3>3. CASE i <= len /\ j = len + 1
        <4>1. len + 1 \in (i + 1)..j
          BY <2>2, <3>3
        <4>2. u \notin Named(c)
          BY <2>1, <4>1 DEF Touched
        <4>3. \A n \in (i + 1)..len : u \notin Named(log'[n].change)
          BY <2>2, <3>3 DEF Touched
        <4>4. ~Touched(u, i, len)
          BY <2>1, <2>2, <4>3 DEF Touched
        <4>5. log[i].table[u] = log[len].table[u]
          BY <2>2, <3>3, <4>4 DEF IInv, LogFrame, len
        <4> QED
          BY <2>1, <2>2, <2>3, <3>3, <4>2, <4>5
      <3> QED
        BY <2>2, <3>1, <3>2, <3>3
    <2>5. LogApplied'
      <3> SUFFICES ASSUME NEW n \in 2..(len + 1), NEW u \in Named(log'[n].change)
                   PROVE  log'[n].table[u] =
                            IF log'[n].change.event = "del_users" THEN Absent
                            ELSE log'[n].change.items[u]
        BY <2>1 DEF LogApplied, Named
      <3>1. CASE n <= len
        BY <2>1, <2>2, <3>1 DEF IInv, LogApplied, len
      <3>2. CASE n = len + 1
        <4>1. u \in Users
          BY <2>1, <3>2 DEF Named, Change, Removes, Updates
        <4> QED
          BY <2>1, <2>3, <3>2, <4>1
      <3> QED
        BY <2>2, <3>1, <3>2
    <2> QED
      BY <2>4, <2>5
  <1>2. CASE log' = log
    BY <1>2 DEF IInv, LogFrame, LogApplied, Touched
  <1> QED
    BY <1>1, <1>2 DEF Next, SendGetUsers, MergeReply, IgnoreReply, HandleNotice,
                      AnswerGetUsers, LoseNotice, vars

-----------------------------------------------------------------------------
(***************************************************************************)
(* The copy, entry by entry.                                               *)
(***************************************************************************)

\* One more change: an account is touched up to j + 1 if it was up to j, or if
\* the change j + 1 names it.
LEMMA TouchedNext ==
  ASSUME NEW u \in Users, NEW i \in Nat, NEW j \in Nat, i <= j
  PROVE  Touched(u, i, j + 1) <=> Touched(u, i, j) \/ u \in Named(log[j + 1].change)
  BY DEF Touched

\* Handling the next notice: a named account gets the next revision's entry,
\* any other account's entry is the same in both revisions and keeps its place.
LEMMA HandledEntry ==
  ASSUME IInv, HandleNotice, NEW u \in Users
  PROVE  /\ u \in Named(log[cursor + 1].change) =>
              cache'[u] = log[cursor + 1].table[u]
         /\ u \notin Named(log[cursor + 1].change) =>
              /\ cache'[u] = cache[u]
              /\ log[cursor + 1].table[u] = log[cursor].table[u]
  <1> USE DEF IInv
  <1>1. cursor \in 1..Len(log) /\ cursor + 1 \in 2..Len(log)
    BY DEF HandleNotice, TypeOK
  <1>2. log[cursor + 1].change \in Change /\ cache \in Table
    BY <1>1, RevisionParts DEF TypeOK
  <1>3. cache' = run_notice(cache, log[cursor + 1].change)
    BY DEF HandleNotice
  <1>4. CASE u \in Named(log[cursor + 1].change)
    BY <1>1, <1>2, <1>3, <1>4, NoticeEntry DEF LogApplied
  <1>5. CASE u \notin Named(log[cursor + 1].change)
    <2>1. ~Touched(u, cursor, cursor + 1)
      BY <1>1, <1>5 DEF Touched
    <2>2. log[cursor].table[u] = log[cursor + 1].table[u]
      BY <1>1, <2>1 DEF LogFrame
    <2> QED
      BY <1>2, <1>3, <1>5, <2>2, NoticeEntry
  <1> QED
    BY <1>4, <1>5

LEMMA CopyInit == Init => CopyInv /\ MergedBefore
  <1> SUFFICES ASSUME Init PROVE CopyInv /\ MergedBefore
    OBVIOUS
  <1>1. cursor = 1 /\ mergedAt = 0 /\ query = "unsent" /\ cache = NoUsers
    BY DEF Init
  <1>2. \A u \in Users : ~Touched(u, 1, cursor)
    BY <1>1 DEF Touched
  <1> QED
    BY <1>1, <1>2 DEF CopyInv, MergedBefore, NoUsers

LEMMA CopyStep == IInv /\ [Next]_vars => CopyInv' /\ MergedBefore'
  <1> SUFFICES ASSUME IInv, [Next]_vars PROVE CopyInv' /\ MergedBefore'
    OBVIOUS
  <1> USE DEF IInv
  <1>0. /\ cursor \in Nat /\ cursor >= 1 /\ cursor <= Len(log)
        /\ mergedAt \in Nat /\ mergedAt <= cursor
        /\ Len(log) \in Nat
    BY DEF TypeOK, MergedBefore
  \* Steps that leave the copy, the log and the positions alone.
  <1>1. ASSUME UNCHANGED <<cache, log, cursor, lost, mergedAt>>,
               query' = "merged" <=> query = "merged",
               query = "merged" => snapshot' = snapshot
        PROVE  CopyInv' /\ MergedBefore'
    BY <1>1 DEF CopyInv, MergedBefore, Merged, Touched
  <1>2. CASE SendGetUsers
    BY <1>1, <1>2 DEF SendGetUsers
  <1>3. CASE IgnoreReply
    BY <1>1, <1>3 DEF IgnoreReply
  <1>4. CASE AnswerGetUsers
    BY <1>1, <1>4 DEF AnswerGetUsers
  <1>5. CASE UNCHANGED vars
    BY <1>1, <1>5 DEF vars
  <1>6. CASE LoseNotice
    BY <1>0, <1>6 DEF LoseNotice, CopyInv, MergedBefore
  <1>7. CASE MergeReply
    <2>1. /\ query = "answered" /\ query' = "merged" /\ mergedAt' = cursor
          /\ cache' = update_users(cache, log[snapshot].table)
          /\ UNCHANGED <<log, cursor, lost, snapshot>>
      BY <1>7 DEF MergeReply
    <2>2. SUFFICES ASSUME ~lost, NEW u \in Users
                   PROVE  cache'[u] =
                            IF Touched(u, cursor, cursor) THEN log[cursor].table[u]
                            ELSE IF log[snapshot].table[u] # Absent
                                 THEN log[snapshot].table[u]
                            ELSE IF Touched(u, 1, cursor)
                                 THEN log[cursor].table[u] ELSE Absent
      BY <1>0, <2>1 DEF CopyInv, MergedBefore, Merged, Touched
    <2>3. ~Touched(u, cursor, cursor)
      BY <1>0 DEF Touched
    <2>4. cache[u] = IF Touched(u, 1, cursor) THEN log[cursor].table[u] ELSE Absent
      BY <2>1, <2>2 DEF CopyInv
    <2>5. cache'[u] = IF log[snapshot].table[u] # Absent
                      THEN log[snapshot].table[u] ELSE cache[u]
      BY <2>1 DEF update_users
    <2> QED
      BY <2>3, <2>4, <2>5
  <1>8. CASE HandleNotice
    <2>1. cursor' = cursor + 1 /\ UNCHANGED <<log, lost, query, snapshot, mergedAt>>
      BY <1>8 DEF HandleNotice
    <2>2. MergedBefore'
      BY <1>0, <2>1 DEF MergedBefore
    <2>3. ASSUME ~lost, NEW u \in Users, NEW i \in Nat, i <= cursor, NEW old,
                 cache[u] = IF Touched(u, i, cursor) THEN log[cursor].table[u] ELSE old
          PROVE  cache'[u] = IF Touched(u, i, cursor + 1)
                             THEN log[cursor + 1].table[u] ELSE old
      BY <1>0, <1>8, <2>3, TouchedNext, HandledEntry
    <2>4. ASSUME ~lost, NEW u \in Users, query # "merged"
          PROVE  cache'[u] = IF Touched(u, 1, cursor + 1)
                             THEN log[cursor + 1].table[u] ELSE Absent
      BY <1>0, <2>3, <2>4 DEF CopyInv
    <2>5. ASSUME ~lost, NEW u \in Users, query = "merged"
          PROVE  cache'[u] = IF Touched(u, mergedAt, cursor + 1)
                             THEN log[cursor + 1].table[u] ELSE Merged(u)
      BY <1>0, <2>3, <2>5 DEF CopyInv
    <2>6. CopyInv'
      BY <2>1, <2>4, <2>5 DEF CopyInv, Merged, Touched
    <2> QED
      BY <2>2, <2>6
  <1>9. CASE Commit
    <2>1. UNCHANGED <<cache, cursor, lost, query, snapshot, mergedAt>>
      BY <1>9 DEF Commit
    <2>2. \A n \in 1..Len(log) : log'[n] = log[n]
      BY <1>9, CommitExtends
    <2>3. \A u \in Users, i \in Nat, j \in 0..Len(log) :
            Touched(u, i, j)' <=> Touched(u, i, j)
      BY <1>9, TouchedKept
    <2>4. log'[cursor] = log[cursor]
      BY <1>0, <2>2
    <2>5. ASSUME query = "merged", NEW u \in Users
          PROVE  Merged(u)' = Merged(u)
      <3>1. snapshot \in 1..Len(log) /\ mergedAt \in 1..Len(log)
        BY <2>5 DEF TypeOK
      <3>2. log'[snapshot] = log[snapshot] /\ log'[mergedAt] = log[mergedAt]
        BY <2>2, <3>1
      <3>3. \A n \in 2..mergedAt : log'[n] = log[n]
        BY <2>2, <3>1
      <3> QED
        BY <2>1, <3>1, <3>2, <3>3 DEF Merged, Touched
    <2>6. \A u \in Users :
            /\ Touched(u, 1, cursor)' <=> Touched(u, 1, cursor)
            /\ Touched(u, mergedAt, cursor)' <=> Touched(u, mergedAt, cursor)
      <3>1. /\ \A n \in 2..cursor : log'[n] = log[n]
            /\ \A n \in (mergedAt + 1)..cursor : log'[n] = log[n]
        BY <1>0, <2>2
      <3> QED
        BY <2>1, <3>1 DEF Touched
    <2> QED
      BY <1>0, <2>1, <2>4, <2>5, <2>6 DEF CopyInv, MergedBefore
  <1> QED
    BY <1>2, <1>3, <1>4, <1>5, <1>6, <1>7, <1>8, <1>9 DEF Next

\* The inductive invariant holds of every run.
THEOREM Inductive == Spec => []IInv
  <1>1. Init => IInv
    BY TypeInit, LogInit, CopyInit DEF IInv
  <1>2. IInv /\ [Next]_vars => IInv'
    BY TypeStep, LogStep, CopyStep DEF IInv
  <1> QED
    BY <1>1, <1>2, PTL DEF Spec

-----------------------------------------------------------------------------
(***************************************************************************)
(* The safety properties of UserSync.                                      *)
(***************************************************************************)

\* Fed by notices alone, the copy may lack accounts but has no wrong one.
THEOREM NoticesAreRight == Spec => []PartialButRight
  <1>1. IInv => PartialButRight
    BY DEF IInv, CopyInv, PartialButRight
  <1> QED
    BY <1>1, Inductive, PTL

\* Where the copy is wrong after the merge, the account's snapshot was
\* overtaken, and what the copy holds is the snapshot's entry.
LEMMA WrongEntry ==
  ASSUME IInv, ~lost, query = "merged", cursor >= snapshot, NEW u \in Users,
         cache[u] # log[cursor].table[u]
  PROVE  /\ Touched(u, snapshot, mergedAt)
         /\ ~Touched(u, mergedAt, cursor)
         /\ cache[u] = log[snapshot].table[u]
  <1> USE DEF IInv
  <1>1. /\ snapshot \in 1..Len(log) /\ mergedAt \in 1..Len(log)
        /\ cursor \in 1..Len(log) /\ mergedAt <= cursor
    BY DEF TypeOK, MergedBefore
  <1>2. cache[u] = IF Touched(u, mergedAt, cursor) THEN log[cursor].table[u]
                   ELSE Merged(u)
    BY DEF CopyInv
  <1>3. ~Touched(u, mergedAt, cursor) /\ cache[u] = Merged(u)
    BY <1>2
  <1>4. log[mergedAt].table[u] = log[cursor].table[u]
    BY <1>1, <1>3 DEF LogFrame
  <1>5. ASSUME log[snapshot].table[u] = log[cursor].table[u] PROVE FALSE
    BY <1>3, <1>4, <1>5 DEF Merged
  <1>6. Touched(u, snapshot, mergedAt)
    <2>1. CASE snapshot <= mergedAt
      BY <1>1, <1>4, <1>5, <2>1 DEF LogFrame
    <2>2. CASE mergedAt < snapshot
      <3>1. ~Touched(u, snapshot, cursor)
        BY <1>1, <1>3, <2>2 DEF Touched
      <3> QED
        BY <1>1, <1>5, <3>1 DEF LogFrame
    <2> QED
      BY <1>1, <2>1, <2>2
  <1>7. cache[u] = log[snapshot].table[u]
    <2>1. CASE log[snapshot].table[u] # Absent
      BY <1>3, <2>1 DEF Merged
    <2>2. CASE log[snapshot].table[u] = Absent
      <3>1. Touched(u, 1, mergedAt)
        BY <1>1, <1>6 DEF Touched
      <3> QED
        BY <1>3, <1>4, <2>2, <3>1 DEF Merged
    <2> QED
      BY <2>1, <2>2
  <1> QED
    BY <1>3, <1>6, <1>7

\* A merged copy is wrong only about accounts whose snapshot was overtaken.
THEOREM MergedIsRight == Spec => []WrongOnlyIfOvertaken
  <1>1. IInv => WrongOnlyIfOvertaken
    BY WrongEntry DEF WrongOnlyIfOvertaken
  <1> QED
    BY <1>1, Inductive, PTL

\* And there it holds what the snapshot said.
THEOREM WrongIsOld == Spec => []WrongMeansSnapshot
  <1>1. IInv => WrongMeansSnapshot
    BY WrongEntry DEF WrongMeansSnapshot
  <1> QED
    BY <1>1, Inductive, PTL

\* Only the notice of a deletion takes an account out of the copy.
THEOREM Forgetting == Spec => OnlyDeletesForget
  <1> DEFINE Forgets(u) == cache[u] # Absent /\ cache'[u] = Absent
  <1>1. ASSUME IInv, [Next]_vars, NEW u \in Users, Forgets(u)
        PROVE  /\ cursor' = cursor + 1
               /\ u \in Named(log[cursor'].change)
               /\ log[cursor'].table[u] = Absent
    <2>1. CASE MergeReply
      BY <1>1, <2>1 DEF MergeReply, update_users
    <2>2. CASE HandleNotice
      <3>1. cursor' = cursor + 1
        BY <2>2 DEF HandleNotice
      <3> QED
        BY <1>1, <2>2, <3>1, HandledEntry
    <2>3. CASE cache' = cache
      BY <1>1, <2>3
    <2> QED
      BY <1>1, <2>1, <2>2, <2>3 DEF Next, SendGetUsers, IgnoreReply, Commit,
                                    AnswerGetUsers, LoseNotice, vars
  <1>2. IInv /\ [Next]_vars =>
          [\A u \in Users : Forgets(u) =>
             /\ cursor' = cursor + 1
             /\ u \in Named(log[cursor'].change)
             /\ log[cursor'].table[u] = Absent]_vars
    BY <1>1
  <1> QED
    BY <1>2, Inductive, PTL DEF Spec, OnlyDeletesForget

-----------------------------------------------------------------------------
(***************************************************************************)
(* Logins (AccountService): what is looked up in that copy, what it is     *)
(* worth when it is compared, and that the SOAP thread leaves the copy to  *)
(* UserSync.                                                               *)
(***************************************************************************)


\* The account's snapshot was overtaken, and no notice has healed it by the
\* time the account was looked up.
Overtaken ==
  /\ Touched(login.user, snapshot, mergedAt)
  /\ ~Touched(login.user, mergedAt, login.seen)

\* What the looked-up entry is worth, by UserSync's two properties.
Entry ==
  /\ query # "merged" => login.held \in {Absent, log[login.seen].table[login.user]}
  /\ login.merged /\ login.seen >= snapshot =>
       login.held = log[login.seen].table[login.user] \/ Overtaken

\* The password in hand: it is freed only by a notice of this account or by
\* the merge, it is worth what it was worth when looked up, and the decision
\* was made on it.
HeldInv ==
  soap # "idle" =>
    /\ login.merged => query = "merged"
    /\ login.held = Freed =>
         \/ Touched(login.user, login.seen, cursor)
         \/ ~login.merged /\ query = "merged"
    /\ ~lost /\ login.held # Freed => Entry
    /\ soap = "comparing" => login.held # Absent
    /\ Decided /\ login.held # Freed =>
         (soap # "refused" <=> login.claim # Absent /\ login.claim = login.held)

\* The types of what is not UserSync's.
SoapTypeOK ==
  /\ soap \in {"idle", "comparing", "let_in", "refused", "calling"}
  /\ login \in Logins \cup {NoLogin}
  /\ queue \in Seq(Change)
  /\ soap = "idle" <=> login = NoLogin
  /\ soap # "idle" => login.seen \in 1..cursor

SInv == IInv /\ SoapTypeOK /\ HeldInv

-----------------------------------------------------------------------------
\* The request a step serves is a change.
LEMMA ServeCommits ==
  ASSUME queue \in Seq(Change), Serve
  PROVE  Commit \/ UNCHANGED vars
  <1>1. Head(queue) \in Change
    BY DEF Serve
  <1>2. CASE UNCHANGED log
    BY <1>2 DEF Serve, vars
  <1>3. CASE /\ Len(log) <= MaxRevs
             /\ Legal(Current, Head(queue))
             /\ log' = Append(log, [change |-> Head(queue),
                                    table |-> Changed(Current, Head(queue))])
    <2>1. UNCHANGED <<cache, cursor, lost, query, snapshot, mergedAt>>
      BY DEF Serve
    <2> QED
      BY <1>1, <1>3, <2>1 DEF Commit, Current
  <1> QED
    BY <1>2, <1>3 DEF Serve

\* What a step is to UserSync.
LEMMA StepOfUserSync ==
  ASSUME queue \in Seq(Change), [ServiceNext]_allvars
  PROVE  [Next]_vars
  <1>1. CASE LookUp \/ soap_verify_password \/ CreateUsers \/ SetUser \/ DeleteUsers \/ Respond
    BY <1>1 DEF LookUp, soap_verify_password, CreateUsers, SetUser, DeleteUsers,
                Respond, onvif_invocate_action
  <1>2. CASE SoapSendGetUsers \/ SoapMergeReply \/ SoapIgnoreReply \/ SoapHandleNotice
    BY <1>2 DEF SoapSendGetUsers, SoapMergeReply, SoapIgnoreReply, SoapHandleNotice, Next
  <1>3. CASE Serve
    BY <1>3, ServeCommits DEF Next
  <1>4. CASE OthersCommit \/ SoapAnswerGetUsers \/ SoapLoseNotice
    BY <1>4 DEF OthersCommit, SoapAnswerGetUsers, SoapLoseNotice, Next
  <1>5. CASE UNCHANGED allvars
    BY <1>5 DEF allvars
  <1> QED
    BY <1>1, <1>2, <1>3, <1>4, <1>5 DEF ServiceNext

\* UserSync's invariant is kept by its steps.
LEMMA IInvStep == IInv /\ [Next]_vars => IInv'
  BY TypeStep, LogStep, CopyStep DEF IInv

\* The cursor does not go back, and no revision of the log is rewritten.
LEMMA Onward ==
  ASSUME TypeOK, [Next]_vars
  PROVE  /\ cursor' >= cursor
         /\ Len(log') >= Len(log)
         /\ \A n \in 1..Len(log) : log'[n] = log[n]
  <1>1. CASE Commit
    <2>1. /\ Len(log') = Len(log) + 1
          /\ \A n \in 1..Len(log) : log'[n] = log[n]
      BY <1>1, CommitExtends
    <2>2. cursor' = cursor
      BY <1>1 DEF Commit
    <2> QED
      BY <2>1, <2>2 DEF TypeOK
  <1>2. CASE UNCHANGED log /\ cursor' \in {cursor, cursor + 1}
    BY <1>2 DEF TypeOK
  <1> QED
    BY <1>1, <1>2 DEF Next, SendGetUsers, MergeReply, IgnoreReply, HandleNotice,
                      AnswerGetUsers, LoseNotice, vars

-----------------------------------------------------------------------------
(***************************************************************************)
(* Types.                                                                  *)
(***************************************************************************)

\* Freeing a held password keeps the token's type and when it was looked up.
LEMMA FreeToken ==
  ASSUME NEW users, Free(users), login \in Logins \cup {NoLogin},
         soap = "idle" <=> login = NoLogin
  PROVE  /\ login' \in Logins \cup {NoLogin}
         /\ soap # "idle" => login' \in Logins
         /\ soap = "idle" => login' = NoLogin
         /\ soap # "idle" =>
              /\ login'.user = login.user /\ login'.claim = login.claim
              /\ login'.seen = login.seen /\ login'.merged = login.merged
              /\ login'.held = IF soap = "comparing" /\ login.user \in users
                                 THEN Freed ELSE login.held
  BY NoLoginAssumption DEF Free, Logins

\* A token that has just been looked up.
LEMMA LookUpToken ==
  ASSUME TypeOK, LookUp
  PROVE  /\ login' \in Logins
         /\ login'.held = cache[login'.user] /\ login'.user \in Users
         /\ login'.seen = cursor
         /\ login'.merged = (query = "merged")
         /\ soap' = IF login'.held = Absent THEN "refused" ELSE "comparing"
  <1>1. PICK u \in Users, p \in Passwords \cup {Absent} :
          /\ login' = [user |-> u, claim |-> p, held |-> cache[u],
                       seen |-> cursor, merged |-> query = "merged"]
          /\ soap' = IF cache[u] = Absent THEN "refused" ELSE "comparing"
    BY DEF LookUp
  <1>2. cache[u] \in Passwords \cup {Absent} /\ cursor \in Nat
    BY DEF TypeOK, Table
  <1> QED
    BY <1>1, <1>2 DEF Logins

\* The SOAP thread's part keeps its types.
LEMMA SoapTypeStep ==
  ASSUME TypeOK, TypeOK', SoapTypeOK, [ServiceNext]_allvars
  PROVE  SoapTypeOK'
  <1> USE DEF SoapTypeOK
  <1>0. [Next]_vars
    BY StepOfUserSync
  <1>1. cursor' >= cursor /\ cursor \in Nat /\ cursor' \in Nat
    <2>1. cursor' >= cursor
      BY <1>0, Onward
    <2> QED
      BY <2>1 DEF TypeOK
  <1>2. CASE LookUp
    <2>1. /\ login' \in Logins /\ login'.seen = cursor
          /\ soap' \in {"refused", "comparing"}
      BY <1>2, LookUpToken
    <2>2. UNCHANGED <<queue, cursor>>
      BY <1>2 DEF LookUp, vars
    <2>3. cursor \in 1..cursor
      BY DEF TypeOK
    <2> QED
      BY <2>1, <2>2, <2>3, NoLoginAssumption
  <1>3. CASE soap_verify_password
    BY <1>3 DEF soap_verify_password, vars
  <1>4. CASE CreateUsers \/ SetUser \/ DeleteUsers
    <2>1. PICK c \in Change : onvif_invocate_action(c)
      <3>1. CASE CreateUsers
        BY <3>1, AskedAssumption DEF CreateUsers, Change, Updates
      <3>2. CASE SetUser
        BY <3>2, AskedAssumption DEF SetUser, Change, Updates
      <3>3. CASE DeleteUsers
        BY <3>3, AskedAssumption DEF DeleteUsers, Change, Removes
      <3> QED
        BY <1>4, <3>1, <3>2, <3>3
    <2>2. queue' \in Seq(Change)
      BY <2>1 DEF onvif_invocate_action
    <2> QED
      BY <2>1, <2>2 DEF onvif_invocate_action, vars
  <1>5. CASE Respond
    BY <1>5 DEF Respond, vars, Decided
  <1>6. CASE SoapSendGetUsers \/ SoapIgnoreReply
    BY <1>6 DEF SoapSendGetUsers, SoapIgnoreReply, service, SendGetUsers, IgnoreReply
  <1>7. ASSUME NEW users, Free(users), UNCHANGED <<soap, queue>>
        PROVE  SoapTypeOK'
    <2>1. /\ login' \in Logins \cup {NoLogin}
          /\ soap # "idle" => login' \in Logins
          /\ soap = "idle" => login' = NoLogin
          /\ soap # "idle" => login'.seen = login.seen
      BY <1>7, FreeToken
    <2> QED
      BY <1>1, <1>7, <2>1, NoLoginAssumption
  <1>8. CASE SoapMergeReply \/ SoapHandleNotice
    BY <1>7, <1>8 DEF SoapMergeReply, SoapHandleNotice
  <1>9. CASE Serve
    <2>1. queue' \in Seq(Change)
      BY <1>9 DEF Serve
    <2> QED
      BY <1>9, <2>1 DEF Serve
  <1>10. CASE OthersCommit \/ SoapAnswerGetUsers \/ SoapLoseNotice
    BY <1>1, <1>10 DEF OthersCommit, SoapAnswerGetUsers, SoapLoseNotice, service
  <1>11. CASE UNCHANGED allvars
    BY <1>11 DEF allvars, service, vars
  <1> QED
    BY <1>2, <1>3, <1>4, <1>5, <1>6, <1>8, <1>9, <1>10, <1>11 DEF ServiceNext

-----------------------------------------------------------------------------
(***************************************************************************)
(* The password in hand.                                                   *)
(***************************************************************************)

\* A merge is for good, and so is a loss.
LEMMA ForGood ==
  ASSUME [Next]_vars
  PROVE  /\ lost => lost'
         /\ query = "merged" =>
              query' = "merged" /\ snapshot' = snapshot /\ mergedAt' = mergedAt
  BY DEF Next, SendGetUsers, MergeReply, IgnoreReply, HandleNotice, Commit,
         AnswerGetUsers, LoseNotice, vars

\* While a request is served, a step keeps what is known of its password,
\* provided that it is freed only by a notice of its account or by the merge.
LEMMA HeldKept ==
  ASSUME TypeOK, TypeOK', SoapTypeOK, HeldInv, [Next]_vars,
         soap # "idle", soap' = soap,
         login'.user = login.user, login'.claim = login.claim,
         login'.seen = login.seen, login'.merged = login.merged,
         login'.held # login.held =>
           /\ login'.held = Freed
           /\ soap = "comparing"
           /\ \/ /\ cursor < Len(log) /\ cursor' = cursor + 1
                 /\ login.user \in Named(log[cursor + 1].change)
              \/ query # "merged" /\ query' = "merged"
  PROVE  HeldInv'
  <1>1. /\ login \in Logins /\ login.user \in Users
        /\ login.seen \in 1..cursor /\ cursor \in 1..Len(log)
        /\ cursor' \in 1..Len(log') /\ cursor' >= cursor
        /\ Len(log) \in Nat /\ Len(log') \in Nat
    <2>1. login \in Logins /\ login.user \in Users /\ login.seen \in 1..cursor
      BY DEF SoapTypeOK, Logins
    <2>2. cursor \in 1..Len(log) /\ cursor' \in 1..Len(log')
          /\ Len(log) \in Nat /\ Len(log') \in Nat
      BY DEF TypeOK
    <2>3. cursor' >= cursor
      BY Onward
    <2> QED
      BY <2>1, <2>2, <2>3
  <1>2. login'.merged => query' = "merged"
    BY ForGood DEF HeldInv
  <1>3. \A n \in 1..Len(log) : log'[n] = log[n]
    BY Onward
  <1>4. ASSUME login'.held = Freed
        PROVE  \/ Touched(login.user, login.seen, cursor)'
               \/ ~login'.merged /\ query' = "merged"
    <2>1. CASE login.held = Freed
      <3>1. CASE Touched(login.user, login.seen, cursor)
        <4>1. PICK n \in (login.seen + 1)..cursor : login.user \in Named(log[n].change)
          BY <3>1 DEF Touched
        <4>2. log'[n] = log[n] /\ n \in (login.seen + 1)..cursor'
          BY <1>1, <1>3, <4>1
        <4> QED
          BY <4>1, <4>2 DEF Touched, Named
      <3>2. CASE ~login.merged /\ query = "merged"
        BY <3>2, ForGood
      <3> QED
        BY <2>1, <3>1, <3>2 DEF HeldInv
    <2>2. CASE /\ cursor < Len(log) /\ cursor' = cursor + 1
               /\ login.user \in Named(log[cursor + 1].change)
      <3>1. log'[cursor'] = log[cursor + 1]
        BY <1>1, <1>3, <2>2
      <3>2. cursor' \in (login'.seen + 1)..cursor'
        BY <1>1, <2>2
      <3> QED
        BY <2>2, <3>1, <3>2 DEF Touched, Named
    <2>3. CASE query # "merged" /\ query' = "merged"
      BY <2>3 DEF HeldInv
    <2> QED
      BY <1>4, <2>1, <2>2, <2>3
  <1>5. ASSUME ~lost', login'.held # Freed PROVE Entry'
    <2>1. Entry /\ login'.held = login.held
      BY <1>5, ForGood DEF HeldInv
    <2>2. log'[login.seen] = log[login.seen]
      BY <1>1, <1>3
    <2>3. query' # "merged" => query # "merged"
      BY ForGood
    <2>4. ASSUME login'.merged, login'.seen >= snapshot'
          PROVE  login'.held = log'[login'.seen].table[login'.user] \/ Overtaken'
      <3>1. query = "merged" /\ snapshot' = snapshot /\ mergedAt' = mergedAt
        BY <2>4, ForGood DEF HeldInv
      <3>2. snapshot \in Nat /\ mergedAt \in 0..Len(log) /\ mergedAt \in Nat
            /\ login.seen \in 0..Len(log)
        BY <1>1 DEF TypeOK
      <3>3. /\ Touched(login.user, snapshot, mergedAt)' <=> Touched(login.user, snapshot, mergedAt)
            /\ Touched(login.user, mergedAt, login.seen)' <=> Touched(login.user, mergedAt, login.seen)
        <4>1. \A n \in (snapshot + 1)..mergedAt : log'[n] = log[n]
          BY <1>1, <1>3, <3>2
        <4>2. \A n \in (mergedAt + 1)..login.seen : log'[n] = log[n]
          BY <1>1, <1>3, <3>2
        <4> QED
          BY <3>1, <4>1, <4>2 DEF Touched, Named
      <3>4. Overtaken => Overtaken'
        BY <3>3 DEF Overtaken
      <3> QED
        BY <2>1, <2>2, <2>4, <3>1, <3>4 DEF Entry
    <2> QED
      BY <2>1, <2>2, <2>3, <2>4 DEF Entry
  <1>6. soap' = "comparing" => login'.held # Absent
    BY FreedAssumption DEF HeldInv
  <1>7. ASSUME Decided', login'.held # Freed
        PROVE  soap' # "refused" <=> login'.claim # Absent /\ login'.claim = login'.held
    BY <1>7 DEF Decided, HeldInv
  <1> QED
    BY <1>2, <1>4, <1>5, <1>6, <1>7 DEF HeldInv

\* What has just been looked up is as good as UserSync's properties say.
LEMMA HeldLookUp ==
  ASSUME IInv, SoapTypeOK, LookUp
  PROVE  HeldInv'
  <1>1. /\ login' \in Logins
        /\ login'.held = cache[login'.user] /\ login'.user \in Users
        /\ login'.seen = cursor
        /\ login'.merged = (query = "merged")
        /\ soap' = IF login'.held = Absent THEN "refused" ELSE "comparing"
    BY LookUpToken DEF IInv
  <1>2. UNCHANGED <<cache, log, cursor, lost, query, snapshot, mergedAt>>
    BY DEF LookUp, vars
  <1>3. login'.held # Freed
    BY <1>1, FreedAssumption DEF IInv, TypeOK, Table
  <1>4. ASSUME ~lost, query # "merged"
        PROVE  login'.held \in {Absent, log[cursor].table[login'.user]}
    BY <1>1, <1>4 DEF IInv, CopyInv
  <1>5. ASSUME ~lost, query = "merged", cursor >= snapshot,
               login'.held # log[cursor].table[login'.user]
        PROVE  /\ Touched(login'.user, snapshot, mergedAt)
               /\ ~Touched(login'.user, mergedAt, cursor)
    BY <1>1, <1>5, WrongEntry
  <1>6. ~lost => Entry'
    BY <1>1, <1>2, <1>4, <1>5 DEF Entry, Overtaken, Touched, Named
  <1>7. Decided' => login'.held = Absent /\ soap' = "refused"
    BY <1>1 DEF Decided
  <1> QED
    BY <1>1, <1>2, <1>3, <1>6, <1>7 DEF HeldInv

\* A step of the SOAP thread that keeps the token keeps what is known of it, if
\* the decision is made on the password held.
LEMMA HeldDecided ==
  ASSUME SoapTypeOK, HeldInv, soap # "idle", UNCHANGED <<vars, login>>,
         soap' # "comparing",
         soap = "comparing" /\ login.held # Freed =>
           (soap' # "refused" <=> login.claim = login.held),
         soap # "comparing" => (soap' # "refused" <=> soap # "refused")
  PROVE  HeldInv'
  <1>1. Entry => Entry'
    BY DEF Entry, Overtaken, Touched, Named, vars
  <1>2. soap = "comparing" => login.held # Absent
    BY DEF HeldInv
  <1>3. soap # "comparing" => Decided
    BY DEF SoapTypeOK, Decided
  <1>4. ASSUME login.held # Freed
        PROVE  soap' # "refused" <=> login.claim # Absent /\ login.claim = login.held
    BY <1>2, <1>3, <1>4 DEF HeldInv
  <1>5. UNCHANGED <<lost, query>>
    BY DEF vars
  <1>6. login.held = Freed => \/ Touched(login.user, login.seen, cursor)'
                              \/ ~login'.merged /\ query' = "merged"
    BY <1>5 DEF HeldInv, Touched, Named, vars
  <1> QED
    BY <1>1, <1>4, <1>5, <1>6 DEF HeldInv

\* Every step keeps what is known of the password in hand.
LEMMA HeldStep ==
  ASSUME IInv, IInv', SoapTypeOK, HeldInv, [ServiceNext]_allvars
  PROVE  HeldInv'
  <1>0. [Next]_vars /\ TypeOK /\ TypeOK'
    BY StepOfUserSync DEF SoapTypeOK, IInv
  <1>1. CASE LookUp
    BY <1>1, HeldLookUp
  <1>2. CASE soap_verify_password
    <2>1. /\ soap = "comparing" /\ UNCHANGED <<vars, login>>
          /\ soap' \in {"let_in", "refused"}
      BY <1>2 DEF soap_verify_password
    <2>2. login.held # Freed => (soap' # "refused" <=> login.claim = login.held)
      BY <1>2 DEF soap_verify_password
    <2> QED
      BY <2>1, <2>2, HeldDecided
  <1>3. CASE CreateUsers \/ SetUser \/ DeleteUsers
    <2>1. soap = "let_in" /\ soap' = "calling" /\ UNCHANGED <<vars, login>>
      BY <1>3 DEF CreateUsers, SetUser, DeleteUsers, onvif_invocate_action
    <2> QED
      BY <2>1, HeldDecided
  <1>4. CASE Respond
    BY <1>4 DEF Respond, HeldInv
  <1>5. ASSUME soap' = soap, login' = login
        PROVE  HeldInv'
    <2>1. CASE soap = "idle"
      BY <1>5, <2>1 DEF HeldInv
    <2>2. CASE soap # "idle"
      BY <1>0, <1>5, <2>2, HeldKept
    <2> QED
      BY <2>1, <2>2
  <1>6. ASSUME NEW users, Free(users), soap' = soap,
               login.user \in users =>
                 \/ /\ cursor < Len(log) /\ cursor' = cursor + 1
                    /\ login.user \in Named(log[cursor + 1].change)
                 \/ query # "merged" /\ query' = "merged"
        PROVE  HeldInv'
    <2>1. CASE soap = "idle"
      BY <1>6, <2>1 DEF HeldInv
    <2>2. CASE soap # "idle"
      <3>1. /\ login'.user = login.user /\ login'.claim = login.claim
            /\ login'.seen = login.seen /\ login'.merged = login.merged
            /\ login'.held = IF soap = "comparing" /\ login.user \in users
                               THEN Freed ELSE login.held
        BY <1>6, <2>2, FreeToken DEF SoapTypeOK
      <3>2. login'.held # login.held =>
              login'.held = Freed /\ soap = "comparing" /\ login.user \in users
        BY <3>1
      <3> QED
        BY <1>0, <1>6, <2>2, <3>1, <3>2, HeldKept
    <2> QED
      BY <2>1, <2>2
  <1>7. CASE SoapMergeReply
    <2>1. query # "merged" /\ query' = "merged"
      BY <1>7 DEF SoapMergeReply, MergeReply
    <2>2. /\ Free({u \in Users : log[snapshot].table[u] # Absent})
          /\ soap' = soap
      BY <1>7 DEF SoapMergeReply
    <2> QED
      BY <1>6, <2>1, <2>2
  <1>8. CASE SoapHandleNotice
    <2>1. cursor < Len(log) /\ cursor' = cursor + 1
      BY <1>8 DEF SoapHandleNotice, HandleNotice
    <2>2. Free(Named(log[cursor + 1].change)) /\ soap' = soap
      BY <1>8 DEF SoapHandleNotice
    <2> QED
      BY <1>6, <2>1, <2>2
  <1>9. CASE \/ SoapSendGetUsers \/ SoapIgnoreReply \/ Serve \/ OthersCommit
             \/ SoapAnswerGetUsers \/ SoapLoseNotice \/ UNCHANGED allvars
    BY <1>5, <1>9 DEF SoapSendGetUsers, SoapIgnoreReply, Serve, OthersCommit,
                      SoapAnswerGetUsers, SoapLoseNotice, service, allvars
  <1> QED
    BY <1>1, <1>2, <1>3, <1>4, <1>7, <1>8, <1>9 DEF ServiceNext

-----------------------------------------------------------------------------
(***************************************************************************)
(* The theorems.                                                           *)
(***************************************************************************)

\* The invariant of the service holds of every run.
THEOREM ServiceInductive == ServiceSpec => []SInv
  <1>1. ServiceInit => SInv
    <2> SUFFICES ASSUME ServiceInit PROVE SInv
      OBVIOUS
    <2>1. Init /\ soap = "idle" /\ login = NoLogin /\ queue = <<>>
      BY DEF ServiceInit
    <2>2. IInv
      BY <2>1, TypeInit, LogInit, CopyInit DEF IInv
    <2>3. SoapTypeOK
      BY <2>1 DEF SoapTypeOK
    <2> QED
      BY <2>1, <2>2, <2>3 DEF SInv, HeldInv
  <1>2. SInv /\ [ServiceNext]_allvars => SInv'
    <2> SUFFICES ASSUME SInv, [ServiceNext]_allvars PROVE SInv'
      OBVIOUS
    <2>1. IInv /\ SoapTypeOK /\ HeldInv
      BY DEF SInv
    <2>2. IInv'
      BY <2>1, StepOfUserSync, IInvStep DEF SoapTypeOK
    <2>3. SoapTypeOK'
      BY <2>1, <2>2, SoapTypeStep DEF IInv
    <2>4. HeldInv'
      BY <2>1, <2>2, HeldStep
    <2> QED
      BY <2>2, <2>3, <2>4 DEF SInv
  <1> QED
    BY <1>1, <1>2, PTL DEF ServiceSpec

\* The service's steps are those of the account copy: what is
\* shown of the copy alone holds with operations and logins going on.
THEOREM ImplementsUserSync == ServiceSpec => Spec
  <1>1. ServiceInit => Init
    BY DEF ServiceInit
  <1>2. SInv /\ [ServiceNext]_allvars => [Next]_vars
    BY StepOfUserSync DEF SInv, SoapTypeOK
  <1> QED
    BY <1>1, <1>2, ServiceInductive, PTL DEF ServiceSpec, Spec

\* Type correctness, and a token is there exactly while a request is served.
THEOREM ServiceTypeCorrect == ServiceSpec => []ServiceTypeOK
  <1>1. SInv => ServiceTypeOK
    BY DEF SInv, IInv, SoapTypeOK, ServiceTypeOK
  <1> QED
    BY <1>1, ServiceInductive, PTL

\* Access control decides as iconfig's table of one moment says, unless the
\* account is changed under it, whatever is asked of iconfig meanwhile.
THEOREM LoginsDecided == ServiceSpec => []LoginsAreExact
  <1>1. ASSUME SInv, ~lost, Decided, ~Touched(login.user, login.seen, cursor)
        PROVE  /\ query # "merged" => (soap # "refused" => Proves(login.seen))
               /\ login.merged /\ login.seen >= snapshot =>
                    (soap # "refused" <=> Proves(login.seen)) \/ Overtaken
    <2>1. HeldInv /\ soap # "idle"
      BY <1>1 DEF SInv, Decided
    <2>2. CASE login.held = Freed
      BY <1>1, <2>1, <2>2 DEF HeldInv
    <2>3. CASE login.held # Freed
      <3>1. Entry
        BY <1>1, <2>1, <2>3 DEF HeldInv
      <3>2. soap # "refused" <=> login.claim # Absent /\ login.claim = login.held
        BY <1>1, <2>1, <2>3 DEF HeldInv
      <3> QED
        BY <3>1, <3>2 DEF Entry, Proves
    <2> QED
      BY <2>2, <2>3
  <1>2. SInv => LoginsAreExact
    BY <1>1 DEF LoginsAreExact, Overtaken
  <1> QED
    BY <1>2, ServiceInductive, PTL

-----------------------------------------------------------------------------
(***************************************************************************)
(* The copy catches up.  Whatever is assumed of fairness, it is used as    *)
(* Handling: a notice that waits is taken from the channel.  From there on *)
(* the argument counts notices.                                            *)
(***************************************************************************)
CaughtUp == cursor = Len(log)

\* The notice that follows revision n is taken.
Handled(n) == (cursor = n /\ cursor < Len(log)) ~> cursor >= n + 1
Handling == \A n \in Nat : Handled(n)

\* From revision n the cursor comes to revision m, or there are no more notices.
Reach(n, m) ==
  Spec /\ Handling => (cursor >= n ~> (cursor >= m \/ []CaughtUp))
Leap(d) == \A n \in Nat : Reach(n, n + d)

\* The cursor does not go back.
LEMMA CursorGrows ==
  ASSUME NEW n \in Nat
  PROVE  TypeOK /\ cursor >= n /\ [Next]_vars => (cursor >= n)'
  <1> SUFFICES ASSUME TypeOK, cursor >= n, [Next]_vars PROVE cursor' >= n
    OBVIOUS
  <1>1. cursor' >= cursor /\ TypeOK'
    BY Onward, TypeStep
  <1> QED
    BY <1>1 DEF TypeOK

\* The log has no more revisions than the bound allows.
LEMMA LogBounded == Spec => [](Len(log) <= MaxRevs + 1)
  <1>1. Init => Len(log) <= MaxRevs + 1
    <2>1. Init => Len(log) = 1
      BY DEF Init
    <2> QED
      BY <2>1, MaxRevsAssumption
  <1>2. TypeOK /\ Len(log) <= MaxRevs + 1 /\ [Next]_vars
          => (Len(log) <= MaxRevs + 1)'
    <2> SUFFICES ASSUME TypeOK, Len(log) <= MaxRevs + 1, [Next]_vars
                 PROVE  Len(log') <= MaxRevs + 1
      OBVIOUS
    <2>1. CASE Commit
      BY <2>1, CommitExtends, MaxRevsAssumption DEF Commit, TypeOK
    <2>2. CASE UNCHANGED log
      BY <2>2
    <2> QED
      BY <2>1, <2>2 DEF Next, SendGetUsers, MergeReply, IgnoreReply, HandleNotice,
                        AnswerGetUsers, LoseNotice, vars
  <1> QED
    BY <1>1, <1>2, TypeCorrect, PTL DEF Spec

\* One notice: the cursor stays where it is only if none waits there any more.
LEMMA OneNotice == Leap(1)
  <1> SUFFICES ASSUME NEW n \in Nat PROVE Reach(n, n + 1)
    BY DEF Leap
  <1>1. Handling => Handled(n)
    BY DEF Handling
  <1>2. TypeOK /\ cursor >= n /\ ~(cursor >= n + 1) => cursor = n
    BY DEF TypeOK
  <1>3. TypeOK /\ ~(cursor < Len(log)) => CaughtUp
    BY DEF TypeOK, CaughtUp
  <1>4. TypeOK /\ cursor >= n /\ [Next]_vars => (cursor >= n)'
    BY CursorGrows
  <1> QED
    BY <1>1, <1>2, <1>3, <1>4, TypeCorrect, PTL DEF Reach, Handled, Spec

\* Twice as many.
LEMMA TwiceAsFar ==
  ASSUME NEW d \in Nat, Leap(d) PROVE Leap(2 * d)
  <1> SUFFICES ASSUME NEW n \in Nat PROVE Reach(n, n + 2 * d)
    BY DEF Leap
  <1>1. Reach(n, n + d)
    BY DEF Leap
  <1>2. Reach(n + d, (n + d) + d)
    BY DEF Leap
  <1>3. Reach(n + d, n + 2 * d)
    BY <1>2
  <1> QED
    BY <1>1, <1>3, PTL DEF Reach

LEMMA SixteenTimesAsFar ==
  ASSUME NEW d \in Nat, Leap(d) PROVE Leap(16 * d)
  <1>1. Leap(2 * d)
    BY TwiceAsFar
  <1>2. Leap(2 * (2 * d))
    BY <1>1, TwiceAsFar
  <1>3. Leap(2 * (2 * (2 * d)))
    BY <1>2, TwiceAsFar
  <1>4. Leap(2 * (2 * (2 * (2 * d))))
    BY <1>3, TwiceAsFar
  <1> QED
    BY <1>4

\* However many changes a table sees, up to 2^32, the copy catches up for good.
LEMMA CatchesUp ==
  ASSUME MaxRevs < 4294967296
  PROVE  Spec /\ Handling => <>[]CaughtUp
  <1>1. Leap(16 * 1)
    BY OneNotice, SixteenTimesAsFar
  <1>2. Leap(16 * 16)
    BY <1>1, SixteenTimesAsFar
  <1>3. Leap(16 * 256)
    BY <1>2, SixteenTimesAsFar
  <1>4. Leap(16 * 4096)
    BY <1>3, SixteenTimesAsFar
  <1>5. Leap(16 * 65536)
    BY <1>4, SixteenTimesAsFar
  <1>6. Leap(16 * 1048576)
    BY <1>5, SixteenTimesAsFar
  <1>7. Leap(16 * 16777216)
    BY <1>6, SixteenTimesAsFar
  <1>8. Leap(16 * 268435456)
    BY <1>7, SixteenTimesAsFar
  <1>9. Reach(1, 1 + 16 * 268435456)
    BY <1>8 DEF Leap
  <1>10. Reach(1, 4294967297)
    BY <1>9
  <1>11. TypeOK => cursor >= 1
    BY DEF TypeOK
  <1>12. TypeOK /\ Len(log) <= MaxRevs + 1 => ~(cursor >= 4294967297)
    BY MaxRevsAssumption DEF TypeOK
  <1> QED
    BY <1>10, <1>11, <1>12, TypeCorrect, LogBounded, PTL DEF Reach

-----------------------------------------------------------------------------
(***************************************************************************)
(* The copy agrees in the end.  What the provers cannot see is when a step *)
(* is ENABLED, so that is the theorem's hypothesis: before_start can end,  *)
(* the reply's handler can be called, and a waiting notice handled.        *)
(***************************************************************************)
CanGoOn ==
  /\ query = "unsent" => ENABLED <<SendGetUsers>>_vars
  /\ query \in {"sent", "answered"} => ENABLED <<MergeReply \/ IgnoreReply>>_vars
  /\ query # "unsent" /\ cursor < Len(log) => ENABLED <<HandleNotice>>_vars

\* The startup request is over.
Over == query \in {"merged", "expired"}

Agrees == cache = Current \/ lost \/ query = "expired" \/ mergedAt > snapshot

\* With the request over and every notice handled, the copy is the table.
LEMMA QuietAgrees ==
  ASSUME TypeOK, WrongOnlyIfOvertaken, CaughtUp, Over PROVE Agrees
  <1> SUFFICES ASSUME ~lost, query = "merged", ~(mergedAt > snapshot)
               PROVE  cache = Current
    BY DEF Agrees, Over
  <1>1. /\ cache \in Table /\ snapshot \in 0..Len(log) /\ mergedAt \in 0..Len(log)
        /\ cursor = Len(log) /\ cursor \in 1..Len(log)
    BY DEF TypeOK, CaughtUp
  <1>2. ASSUME NEW u \in Users PROVE cache[u] = log[cursor].table[u]
    <2>1. ~Touched(u, snapshot, mergedAt)
      BY <1>1 DEF Touched
    <2> QED
      BY <1>1, <2>1 DEF WrongOnlyIfOvertaken
  <1>3. log[cursor].table \in Table
    BY <1>1, RevisionParts
  <1> QED
    BY <1>1, <1>2, <1>3 DEF Current, Table

\* A request that is over stays so, and so does one that was sent.
LEMMA RequestGoesOn ==
  /\ query # "unsent" /\ [Next]_vars => (query # "unsent")'
  /\ Over /\ [Next]_vars => Over'
  BY DEF Next, SendGetUsers, MergeReply, IgnoreReply, HandleNotice, Commit,
         AnswerGetUsers, LoseNotice, vars, Over

\* The request is over at last, answered or not.
LEMMA RequestEnds == FairSpec /\ []CanGoOn => <>[]Over
  <1>1. FairSpec /\ []CanGoOn => <>(query # "unsent")
    <2>1. <<SendGetUsers>>_vars => (query # "unsent")'
      BY DEF SendGetUsers
    <2>2. query = "unsent" \/ query # "unsent"
      OBVIOUS
    <2> QED
      BY <2>1, <2>2, PTL DEF FairSpec, Fairness, CanGoOn
  <1>2. FairSpec /\ []CanGoOn => (query # "unsent" ~> Over)
    <2>1. TypeOK /\ query # "unsent" /\ ~Over => query \in {"sent", "answered"}
      BY DEF TypeOK, Over
    <2>2. <<MergeReply \/ IgnoreReply>>_vars => Over'
      BY DEF MergeReply, IgnoreReply, Over
    <2> QED
      BY <2>1, <2>2, RequestGoesOn, TypeCorrect, PTL
      DEF Spec, FairSpec, Fairness, CanGoOn
  <1> QED
    BY <1>1, <1>2, RequestGoesOn, PTL DEF Spec, FairSpec

\* A notice that waits stays next until it is taken.
LEMMA NoticeWaits ==
  ASSUME NEW n \in Nat, TypeOK, cursor = n, cursor < Len(log), [Next]_vars
  PROVE  (cursor = n /\ cursor < Len(log))' \/ (cursor >= n + 1)'
  <1>1. cursor' >= cursor /\ Len(log') >= Len(log) /\ TypeOK'
    BY Onward, TypeStep
  <1> QED
    BY <1>1 DEF TypeOK

\* Fairness takes every notice from the channel, if it is not lost before.
LEMMA NoticesAreHandled == FairSpec /\ []CanGoOn => Handling
  <1> SUFFICES ASSUME NEW n \in Nat PROVE FairSpec /\ []CanGoOn => Handled(n)
    BY DEF Handling
  <1> DEFINE Waits == cursor = n /\ cursor < Len(log)
  <1>1. TypeOK /\ Waits /\ [Next]_vars => Waits' \/ (cursor >= n + 1)'
    BY NoticeWaits
  <1>2. Waits /\ <<HandleNotice>>_vars => (cursor >= n + 1)'
    BY DEF HandleNotice
  <1>3. Waits => cursor < Len(log)
    OBVIOUS
  <1>4. Over => query # "unsent"
    BY DEF Over
  <1> QED
    BY <1>1, <1>2, <1>3, <1>4, RequestEnds, TypeCorrect,
       PTL DEF Spec, FairSpec, Fairness, CanGoOn, Handled

\* Notices are handled one after the other and the startup reply is merged among
\* them, wherever it falls: then nothing is left that is not in the copy.
THEOREM CopySettles ==
  ASSUME MaxRevs < 4294967296
  PROVE  FairSpec /\ []CanGoOn => EventuallyAgrees
  <1>1. FairSpec /\ []CanGoOn => <>[]CaughtUp
    BY NoticesAreHandled, CatchesUp, PTL DEF FairSpec
  <1>2. TypeOK /\ WrongOnlyIfOvertaken /\ CaughtUp /\ Over => Agrees
    BY QuietAgrees
  <1>3. FairSpec /\ []CanGoOn => <>[]Agrees
    BY <1>1, <1>2, RequestEnds, TypeCorrect, MergedIsRight, PTL DEF FairSpec
  <1> QED
    BY <1>3, PTL DEF EventuallyAgrees, Agrees

-----------------------------------------------------------------------------
(***************************************************************************)
(* Logins settle.  The same for the composition, where the loop thread's   *)
(* steps are those the SOAP thread can see, and a request that is being    *)
(* served can go on as well.                                               *)
(***************************************************************************)
ServiceCanGoOn ==
  /\ query = "unsent" => ENABLED <<SoapSendGetUsers>>_allvars
  /\ query \in {"sent", "answered"} =>
       ENABLED <<SoapMergeReply \/ SoapIgnoreReply>>_allvars
  /\ query # "unsent" /\ cursor < Len(log) => ENABLED <<SoapHandleNotice>>_allvars
  /\ soap = "comparing" => ENABLED <<soap_verify_password>>_allvars
  /\ Decided => ENABLED <<Respond>>_allvars

\* The startup request is over at last.
LEMMA ServiceRequestEnds == FairServiceSpec /\ []ServiceCanGoOn => <>[]Over
  <1>1. FairServiceSpec /\ []ServiceCanGoOn => <>(query # "unsent")
    <2>1. <<SoapSendGetUsers>>_allvars => (query # "unsent")'
      BY DEF SoapSendGetUsers, SendGetUsers
    <2>2. query = "unsent" \/ query # "unsent"
      OBVIOUS
    <2> QED
      BY <2>1, <2>2, PTL DEF FairServiceSpec, ServiceFairness, ServiceCanGoOn
  <1>2. FairServiceSpec /\ []ServiceCanGoOn => (query # "unsent" ~> Over)
    <2>1. TypeOK /\ query # "unsent" /\ ~Over => query \in {"sent", "answered"}
      BY DEF TypeOK, Over
    <2>2. <<SoapMergeReply \/ SoapIgnoreReply>>_allvars => Over'
      BY DEF SoapMergeReply, SoapIgnoreReply, MergeReply, IgnoreReply, Over
    <2> QED
      BY <2>1, <2>2, RequestGoesOn, TypeCorrect, ImplementsUserSync, PTL
      DEF Spec, FairServiceSpec, ServiceFairness, ServiceCanGoOn
  <1> QED
    BY <1>1, <1>2, RequestGoesOn, ImplementsUserSync, PTL DEF Spec, FairServiceSpec

LEMMA ServiceHandles == FairServiceSpec /\ []ServiceCanGoOn => Handling
  <1> SUFFICES ASSUME NEW n \in Nat
               PROVE  FairServiceSpec /\ []ServiceCanGoOn => Handled(n)
    BY DEF Handling
  <1> DEFINE Waits == cursor = n /\ cursor < Len(log)
  <1>1. TypeOK /\ Waits /\ [Next]_vars => Waits' \/ (cursor >= n + 1)'
    BY NoticeWaits
  <1>2. Waits /\ <<SoapHandleNotice>>_allvars => (cursor >= n + 1)'
    BY DEF SoapHandleNotice, HandleNotice
  <1>3. Waits => cursor < Len(log)
    OBVIOUS
  <1>4. Over => query # "unsent"
    BY DEF Over
  <1> QED
    BY <1>1, <1>2, <1>3, <1>4, ServiceRequestEnds, TypeCorrect, ImplementsUserSync,
       PTL DEF Spec, FairServiceSpec, ServiceFairness, ServiceCanGoOn, Handled

-----------------------------------------------------------------------------
\* A request is served to its end: compared, decided, answered.
THEOREM RequestsEnd ==
  FairServiceSpec /\ []ServiceCanGoOn => []<>(soap = "idle")
  <1>1. SoapTypeOK => soap = "idle" \/ soap = "comparing" \/ Decided
    BY DEF SoapTypeOK, Decided
  <1>2. FairServiceSpec /\ []ServiceCanGoOn => (soap = "comparing" ~> Decided)
    <2>1. soap = "comparing" /\ [ServiceNext]_allvars => (soap = "comparing")' \/ Decided'
      BY DEF ServiceNext, LookUp, soap_verify_password, CreateUsers, SetUser,
             DeleteUsers, onvif_invocate_action, Respond, SoapSendGetUsers,
             SoapMergeReply, SoapIgnoreReply, SoapHandleNotice, Serve, OthersCommit,
             SoapAnswerGetUsers, SoapLoseNotice, allvars, service, Decided
    <2>2. <<soap_verify_password>>_allvars => Decided'
      BY DEF soap_verify_password, Decided
    <2> QED
      BY <2>1, <2>2, PTL DEF FairServiceSpec, ServiceSpec, ServiceFairness, ServiceCanGoOn
  <1>3. FairServiceSpec /\ []ServiceCanGoOn => (Decided ~> soap = "idle")
    <2>1. Decided /\ [ServiceNext]_allvars => Decided' \/ (soap = "idle")'
      BY DEF ServiceNext, LookUp, soap_verify_password, CreateUsers, SetUser,
             DeleteUsers, onvif_invocate_action, Respond, SoapSendGetUsers,
             SoapMergeReply, SoapIgnoreReply, SoapHandleNotice, Serve, OthersCommit,
             SoapAnswerGetUsers, SoapLoseNotice, allvars, service, Decided
    <2>2. <<Respond>>_allvars => (soap = "idle")'
      BY DEF Respond
    <2> QED
      BY <2>1, <2>2, PTL DEF FairServiceSpec, ServiceSpec, ServiceFairness, ServiceCanGoOn
  <1>4. SInv => SoapTypeOK
    BY DEF SInv
  <1> QED
    BY <1>1, <1>2, <1>3, <1>4, ServiceInductive, PTL DEF FairServiceSpec

\* Nothing is on its way to the copy any more, and the account of the request
\* under way was looked up since.
Quiet == CaughtUp /\ Over
Fresh == soap # "idle" => login.seen = cursor /\ login.merged = (query = "merged")

Settled == \/ Decided => (soap # "refused" <=> Proves(Len(log)))
           \/ lost \/ query = "expired" \/ mergedAt > snapshot

\* While the copy is quiet, no step but a new look-up matters to that.
LEMMA QuietKeepsFresh ==
  ASSUME Quiet, Quiet', Fresh, [ServiceNext]_allvars PROVE Fresh'
  <1>1. /\ query # "unsent" /\ query # "sent" /\ query # "answered"
        /\ ~(cursor < Len(log))
    BY DEF Quiet, Over, CaughtUp
  <1>2. ~(SoapSendGetUsers \/ SoapMergeReply \/ SoapIgnoreReply \/ SoapHandleNotice
          \/ SoapAnswerGetUsers \/ SoapLoseNotice)
    BY <1>1 DEF SoapSendGetUsers, SoapMergeReply, SoapIgnoreReply, SoapHandleNotice,
                SoapAnswerGetUsers, SoapLoseNotice, SendGetUsers, MergeReply, IgnoreReply,
                HandleNotice, AnswerGetUsers, LoseNotice
  <1>3. CASE LookUp
    <2>1. PICK u \in Users, p \in Passwords \cup {Absent} :
            login' = [user |-> u, claim |-> p, held |-> cache[u],
                      seen |-> cursor, merged |-> query = "merged"]
      BY <1>3 DEF LookUp
    <2>2. UNCHANGED <<cursor, query>>
      BY <1>3 DEF LookUp, vars
    <2>3. login'.seen = cursor /\ login'.merged = (query = "merged")
      BY <2>1
    <2> QED
      BY <2>2, <2>3 DEF Fresh
  <1>4. CASE Respond
    BY <1>4 DEF Respond, Fresh
  <1>5. CASE soap_verify_password \/ CreateUsers \/ SetUser \/ DeleteUsers
    <2>1. soap # "idle" /\ UNCHANGED <<login, cursor, query>>
      BY <1>5 DEF soap_verify_password, CreateUsers, SetUser, DeleteUsers,
                  onvif_invocate_action, vars
    <2> QED
      BY <2>1 DEF Fresh
  <1>6. CASE Serve \/ OthersCommit \/ UNCHANGED allvars
    <2>1. UNCHANGED <<soap, login, cursor, query>>
      BY <1>6 DEF Serve, OthersCommit, Commit, allvars, vars, service
    <2> QED
      BY <2>1 DEF Fresh
  <1> QED
    BY <1>2, <1>3, <1>4, <1>5, <1>6 DEF ServiceNext

\* Such a login is decided as the table says.
LEMMA FreshIsSettled ==
  ASSUME ServiceTypeOK, LoginsAreExact, Quiet, Fresh PROVE Settled
  <1> SUFFICES ASSUME Decided, ~lost, query = "merged", ~(mergedAt > snapshot)
               PROVE  soap # "refused" <=> Proves(Len(log))
    BY DEF Settled, Quiet, Over
  <1>1. soap # "idle"
    BY DEF Decided
  <1>2. login.seen = cursor /\ login.merged = TRUE /\ cursor = Len(log)
    BY <1>1 DEF Fresh, Quiet, CaughtUp
  <1>3. /\ cursor \in 1..Len(log) /\ snapshot \in 0..Len(log) /\ mergedAt \in 0..Len(log)
        /\ Len(log) \in Nat
    BY DEF ServiceTypeOK, TypeOK
  <1>4. ~Touched(login.user, login.seen, cursor)
    BY <1>2, <1>3 DEF Touched
  <1>5. ~Touched(login.user, snapshot, mergedAt)
    BY <1>3 DEF Touched
  <1>6. login.merged /\ login.seen >= snapshot
    BY <1>2, <1>3
  <1>7. soap # "refused" <=> Proves(login.seen)
    BY <1>4, <1>5, <1>6 DEF LoginsAreExact
  <1> QED
    BY <1>2, <1>7

\* Once the copy is quiet for good, the request under way is the last one whose
\* look-up was too early.
THEOREM LoginsFollow ==
  ASSUME MaxRevs < 4294967296
  PROVE  FairServiceSpec /\ []ServiceCanGoOn => LoginsSettle
  <1>1. FairServiceSpec /\ []ServiceCanGoOn => <>[]Quiet
    <2>1. CaughtUp /\ Over => Quiet
      BY DEF Quiet
    <2> QED
      BY <2>1, ServiceHandles, ServiceRequestEnds, CatchesUp, ImplementsUserSync, PTL
      DEF FairServiceSpec
  <1>2. soap = "idle" => Fresh
    BY DEF Fresh
  <1>3. Quiet /\ Quiet' /\ Fresh /\ [ServiceNext]_allvars => Fresh'
    BY QuietKeepsFresh
  <1>4. FairServiceSpec /\ []ServiceCanGoOn => <>[](Quiet /\ Fresh)
    BY <1>1, <1>2, <1>3, RequestsEnd, PTL DEF FairServiceSpec, ServiceSpec
  <1>5. ServiceTypeOK /\ LoginsAreExact /\ Quiet /\ Fresh => Settled
    BY FreshIsSettled
  <1>6. FairServiceSpec /\ []ServiceCanGoOn => <>[]Settled
    BY <1>4, <1>5, ServiceTypeCorrect, LoginsDecided, PTL DEF FairServiceSpec
  <1> QED
    BY <1>6, PTL DEF LoginsSettle, Settled
=============================================================================
