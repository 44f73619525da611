--------------------------- MODULE AccountService ---------------------------
(***************************************************************************)
(* The way round of a change of accounts: the SOAP thread asks for the     *)
(* user name token of a request and checks it (onvif_access_control), an   *)
(* operation it lets in asks iconfig for a change (CreateUsers, SetUser,   *)
(* DeleteUsers), and what becomes of the change comes back to the loop     *)
(* thread as a notice, which updates the copy the next check reads.        *)
(*                                                                         *)
(* UserSync is the copy; every step here is a step of UserSync or leaves   *)
(* its variables alone.  The two threads meet in access control: the       *)
(* password is looked up under priv->mutex, but what is handed out is a    *)
(* pointer into the table, compared after the unlock.                      *)
(*                                                                         *)
(* A call to iconfig is what Rpc promises: the request takes effect while  *)
(* the handler waits, or, if it gave up, later or never; requests keep     *)
(* their order.  The handlers answer SOAP_OK whatever became of it.        *)
(***************************************************************************)
EXTENDS UserSync

CONSTANTS AskedItems,  \* the accounts CreateUsers and SetUser are asked for
          AskedNames,  \* the accounts DeleteUsers is asked for
          MaxQueue,    \* bound: the requests under way to iconfig
          Freed,       \* what a pointer into the table leads to once freed
          NoLogin      \* no request is being served

ASSUME AskedAssumption ==
  AskedItems \subseteq Table /\ AskedNames \subseteq SUBSET Users
ASSUME FreedAssumption == Freed \notin Passwords \cup {Absent}

\* A request's token, and what access control found: a claim is the password
\* the token proves, in the clear or by its digest, or Absent if it proves none
\* (no Password, Nonce or Created, or a digest of the wrong length).
Logins == [user : Users, claim : Passwords \cup {Absent},
           held : Passwords \cup {Absent, Freed},
           seen : Nat, merged : BOOLEAN]
ASSUME NoLoginAssumption == NoLogin \notin Logins

VARIABLES
  soap,   \* what the SOAP thread does
  login,  \* the token, the password held, and (history) when it was looked up:
          \* after the notice of revision seen, and after the merge or before
  queue   \* the changes asked of iconfig, in order, that it has not seen yet

service == <<soap, login, queue>>
allvars == <<vars, service>>

Decided == soap \in {"let_in", "refused", "calling"}

ServiceInit ==
  /\ Init
  /\ soap = "idle"
  /\ login = NoLogin
  /\ queue = <<>>

-----------------------------------------------------------------------------
(***************************************************************************)
(* The SOAP thread.                                                        *)
(***************************************************************************)

\* Mutant: an account that is not there is let in.
LookUp_missing_let_in ==
  /\ soap = "idle"
  /\ \E u \in Users, p \in Passwords \cup {Absent} :
       /\ login' = [user |-> u, claim |-> p, held |-> cache[u],
                    seen |-> cursor, merged |-> query = "merged"]
       /\ soap' = IF cache[u] = Absent THEN "let_in" ELSE "comparing"
  /\ UNCHANGED <<vars, queue>>

\* A request with a token comes, and the account is looked up under the mutex.
\* (Without a token it is refused, and nothing changes.)
LookUp ==
  /\ soap = "idle"
  /\ \E u \in Users, p \in Passwords \cup {Absent} :
       /\ login' = [user |-> u, claim |-> p, held |-> cache[u],
                    seen |-> cursor, merged |-> query = "merged"]
       /\ soap' = IF cache[u] = Absent THEN "refused" ELSE "comparing"
  /\ UNCHANGED <<vars, queue>>

\* The comparison, in the clear or of digests, outside the mutex: freed memory
\* may hold the password, another one, or anything.
soap_verify_password ==
  /\ soap = "comparing"
  /\ \/ login.held \in {login.claim, Freed} /\ soap' = "let_in"
     \/ login.held # login.claim /\ soap' = "refused"
  /\ UNCHANGED <<vars, login, queue>>

onvif_invocate_action(change) ==
  /\ soap = "let_in"
  /\ Len(queue) < MaxQueue
  /\ queue' = Append(queue, change)
  /\ soap' = "calling"
  /\ UNCHANGED <<vars, login>>

CreateUsers == \E items \in AskedItems :
  onvif_invocate_action([event |-> "add_users", items |-> items])

SetUser == \E items \in AskedItems :
  onvif_invocate_action([event |-> "set_users", items |-> items])

DeleteUsers == \E names \in AskedNames :
  onvif_invocate_action([event |-> "del_users", names |-> names])

\* Mutant: the token of the last request is left behind.
Respond_keeping_token ==
  /\ Decided
  /\ soap' = "idle"
  /\ UNCHANGED <<vars, login, queue>>

\* The fault, the response of another operation, or SOAP_OK after a call,
\* whether it was answered or given up.
Respond ==
  /\ Decided
  /\ soap' = "idle"
  /\ login' = NoLogin
  /\ UNCHANGED <<vars, queue>>

-----------------------------------------------------------------------------
(***************************************************************************)
(* The loop thread: UserSync's steps, and what the SOAP thread sees of     *)
(* them.  Replacing or removing an entry frees its password, even if the   *)
(* new one is the same.                                                    *)
(***************************************************************************)
Free(users) ==
  login' = IF soap = "comparing" /\ login.user \in users
             THEN [login EXCEPT !.held = Freed] ELSE login

SoapSendGetUsers == SendGetUsers /\ UNCHANGED service

SoapMergeReply ==
  /\ MergeReply
  /\ Free({u \in Users : log[snapshot].table[u] # Absent})
  /\ UNCHANGED <<soap, queue>>

SoapIgnoreReply == IgnoreReply /\ UNCHANGED service

SoapHandleNotice ==
  /\ HandleNotice
  /\ Free(Named(log[cursor + 1].change))
  /\ UNCHANGED <<soap, queue>>

-----------------------------------------------------------------------------
(***************************************************************************)
(* iconfig and the channels.                                               *)
(***************************************************************************)

\* The oldest request takes effect and is announced, or is refused, or lost.
Serve ==
  /\ queue # <<>>
  /\ queue' = Tail(queue)
  /\ \/ /\ Len(log) <= MaxRevs
        /\ Legal(Current, Head(queue))
        /\ log' = Append(log, [change |-> Head(queue),
                               table |-> Changed(Current, Head(queue))])
     \/ UNCHANGED log
  /\ UNCHANGED <<cache, cursor, lost, query, snapshot, mergedAt, soap, login>>

OthersCommit == Commit /\ UNCHANGED service
SoapAnswerGetUsers == AnswerGetUsers /\ UNCHANGED service
SoapLoseNotice == LoseNotice /\ UNCHANGED service

ServiceNext ==
  \/ LookUp \/ soap_verify_password \/ CreateUsers \/ SetUser \/ DeleteUsers \/ Respond
  \/ SoapSendGetUsers \/ SoapMergeReply \/ SoapIgnoreReply \/ SoapHandleNotice
  \/ Serve \/ OthersCommit \/ SoapAnswerGetUsers \/ SoapLoseNotice

ServiceSpec == ServiceInit /\ [][ServiceNext]_allvars

\* The loop thread runs as in UserSync, and the SOAP thread finishes a request
\* it has begun, since its waits are bounded.
ServiceFairness ==
  /\ WF_allvars(SoapSendGetUsers)
  /\ WF_allvars(SoapMergeReply \/ SoapIgnoreReply)
  /\ WF_allvars(SoapHandleNotice)
  /\ WF_allvars(soap_verify_password)
  /\ WF_allvars(Respond)

FairServiceSpec == ServiceSpec /\ ServiceFairness

-----------------------------------------------------------------------------
\* Every variable has its type, and the token is there while it is served.
ServiceTypeOK ==
  /\ TypeOK
  /\ soap \in {"idle", "comparing", "let_in", "refused", "calling"}
  /\ login \in Logins \cup {NoLogin}
  /\ queue \in Seq(Change)
  /\ soap = "idle" <=> login = NoLogin
  /\ soap # "idle" => login.seen \in 1..cursor

\* The token proves the password the account had at revision n.
Proves(n) ==
  login.claim # Absent /\ login.claim = log[n].table[login.user]

\* Access control decides as iconfig's table of one moment says, the one the
\* daemon had been told of when it looked the account up: before the startup
\* snapshot it lets in nobody else, after it lets in and refuses exactly so,
\* with the exception of an overtaken snapshot (UserSync).  It is only off if,
\* while the check ran, a notice naming this account was handled, or the
\* snapshot merged: the pointer onvif_access_control compares may be dangling.
LoginsAreExact ==
  ~lost /\ Decided /\ ~Touched(login.user, login.seen, cursor) =>
    /\ query # "merged" => (soap # "refused" => Proves(login.seen))
    /\ login.merged /\ login.seen >= snapshot =>
         \/ soap # "refused" <=> Proves(login.seen)
         \/ /\ Touched(login.user, snapshot, mergedAt)
            /\ ~Touched(login.user, mergedAt, login.seen)

\* In the end every login is decided as iconfig's table says, whatever changes
\* operations asked for and gave up on; unless a notice was lost, the startup
\* request expired, or the snapshot was overtaken.
LoginsSettle ==
  <>[](\/ Decided => (soap # "refused" <=> Proves(Len(log)))
       \/ lost \/ query = "expired" \/ mergedAt > snapshot)
=============================================================================
