----------------------------- MODULE ServerLoop -----------------------------
(***************************************************************************)
(* The life of the ionvif daemon: the thread before_start creates to serve *)
(* SOAP (onvif_server_thread_func), and the base service's own thread,     *)
(* which dispatches iconfig's replies in its loop and at the end finalizes *)
(* the object: it asks the SOAP thread to stop, joins it and destroys the  *)
(* tables that thread reads.                                               *)
(*                                                                         *)
(* Outside the repository: the base service, whose loop no longer runs     *)
(* when the object is finalized, so that no reply is handed on then; and   *)
(* the clients, who connect and send, or do not.  An operation that is     *)
(* served reads the tables (access control) and may call iconfig, which    *)
(* waits for the reply at most 10 seconds.                                 *)
(***************************************************************************)
EXTENDS Naturals

CONSTANTS MaxClients,  \* bound: the connections clients make
          MaxCalls     \* the most calls to iconfig an operation makes

ASSUME MaxClientsAssumption == MaxClients \in Nat
ASSUME MaxCallsAssumption == MaxCalls \in Nat

VARIABLES
  loop,         \* the base service's thread
  soap,         \* the SOAP thread
  terminating,  \* priv->terminating
  clients,      \* connections made so far
  backlog,      \* connections waiting in the listening socket
  calls,        \* the calls the operation has made
  reply,        \* iconfig's reply to the call the SOAP thread waits in
  servedSince   \* history: connections accepted since terminating was set

vars == <<loop, soap, terminating, clients, backlog, calls, reply, servedSince>>

LoopStates == {"before", "running", "finalizing", "joining", "gone"}
SoapStates == {"none", "binding", "testing", "accepting", "receiving",
               "serving", "calling", "sending", "ended"}

Init ==
  /\ loop = "before"
  /\ soap = "none"
  /\ terminating = FALSE
  /\ clients = 0
  /\ backlog = 0
  /\ calls = 0
  /\ reply = "none"
  /\ servedSince = 0

-----------------------------------------------------------------------------
(***************************************************************************)
(* The base service's thread.                                              *)
(***************************************************************************)
BeforeStart ==
  /\ loop = "before"
  /\ loop' = "running"
  /\ soap' = "binding"
  /\ UNCHANGED <<terminating, clients, backlog, calls, reply, servedSince>>

\* The loop hands a reply to the thread that waits for it.
Dispatch ==
  /\ loop = "running"
  /\ reply = "sent"
  /\ reply' = "here"
  /\ UNCHANGED <<loop, soap, terminating, clients, backlog, calls, servedSince>>

\* The service stops, and ipcam_ionvif_finalize begins.
Stop ==
  /\ loop = "running"
  /\ loop' = "finalizing"
  /\ UNCHANGED <<soap, terminating, clients, backlog, calls, reply, servedSince>>

SetTerminating ==
  /\ loop = "finalizing"
  /\ terminating' = TRUE
  /\ loop' = "joining"
  /\ UNCHANGED <<soap, clients, backlog, calls, reply, servedSince>>

\* g_thread_join returns; only then does finalize destroy the tables and the
\* mutex, on its way to its end.
JoinAndDestroy ==
  /\ loop = "joining"
  /\ soap = "ended"
  /\ loop' = "gone"
  /\ UNCHANGED <<soap, terminating, clients, backlog, calls, reply, servedSince>>

-----------------------------------------------------------------------------
(***************************************************************************)
(* The SOAP thread.                                                        *)
(***************************************************************************)
Bind ==
  /\ soap = "binding"
  /\ soap' \in {"testing", "ended"}
  /\ UNCHANGED <<loop, terminating, clients, backlog, calls, reply, servedSince>>

\* Mutant: the loop has no condition.
Test_not_made ==
  /\ soap = "testing"
  /\ soap' = "accepting"
  /\ UNCHANGED <<loop, terminating, clients, backlog, calls, reply, servedSince>>

\* The condition of the loop.
Test ==
  /\ soap = "testing"
  /\ soap' = IF terminating THEN "ended" ELSE "accepting"
  /\ UNCHANGED <<loop, terminating, clients, backlog, calls, reply, servedSince>>

Accept ==
  /\ soap = "accepting"
  /\ backlog > 0
  /\ backlog' = backlog - 1
  /\ soap' = "receiving"
  /\ servedSince' = IF terminating THEN servedSince + 1 ELSE servedSince
  /\ UNCHANGED <<loop, terminating, clients, calls, reply>>

AcceptFails ==
  /\ soap = "accepting"
  /\ soap' = "ended"
  /\ UNCHANGED <<loop, terminating, clients, backlog, calls, reply, servedSince>>

\* soap_serve has read a request; or an error, which it answers with a fault; or
\* the end of the connection.
Receive ==
  /\ soap = "receiving"
  /\ soap' \in {"serving", "sending", "testing"}
  /\ calls' = 0
  /\ UNCHANGED <<loop, terminating, clients, backlog, reply, servedSince>>

\* Mutant: a call that was not answered is made again, and again.
Call_again ==
  /\ soap = "serving"
  /\ calls < MaxCalls \/ reply # "here"
  /\ calls' = calls + 1
  /\ soap' = "calling"
  /\ reply' = "none"
  /\ UNCHANGED <<loop, terminating, clients, backlog, servedSince>>

\* The operation reads the tables, and calls iconfig or comes to its end.
Call ==
  /\ soap = "serving"
  /\ calls < MaxCalls
  /\ calls' = calls + 1
  /\ soap' = "calling"
  /\ reply' = "none"
  /\ UNCHANGED <<loop, terminating, clients, backlog, servedSince>>

\* Mutant: an operation that could not ask iconfig does not give up.
Respond_only_if_answered ==
  /\ soap = "serving"
  /\ calls > 0 => reply = "here"
  /\ soap' = "sending"
  /\ UNCHANGED <<loop, terminating, clients, backlog, calls, reply, servedSince>>

\* The operation returns, and soap_serve begins to send its response.
Respond ==
  /\ soap = "serving"
  /\ soap' = "sending"
  /\ UNCHANGED <<loop, terminating, clients, backlog, calls, reply, servedSince>>

\* The response, or the fault, has been sent as far as it could be.  Without a
\* send_timeout that may take for ever, if the client does not read.
Sent ==
  /\ soap = "sending"
  /\ soap' = "testing"
  /\ UNCHANGED <<loop, terminating, clients, backlog, calls, reply, servedSince>>

\* The wait ends with the reply or without it; the operation may call again.
WaitResponse ==
  /\ soap = "calling"
  /\ reply = "here"
  /\ soap' = "serving"
  /\ UNCHANGED <<loop, terminating, clients, backlog, calls, reply, servedSince>>

\* Mutant: the wait has no limit.
TimeOut_never == FALSE /\ UNCHANGED vars

TimeOut ==
  /\ soap = "calling"
  /\ soap' = "serving"
  /\ UNCHANGED <<loop, terminating, clients, backlog, calls, reply, servedSince>>

-----------------------------------------------------------------------------
(***************************************************************************)
(* The clients and iconfig.                                                *)
(***************************************************************************)
Connect ==
  /\ soap \notin {"none", "binding", "ended"}
  /\ clients < MaxClients
  /\ clients' = clients + 1
  /\ backlog' = backlog + 1
  /\ UNCHANGED <<loop, soap, terminating, calls, reply, servedSince>>

Answer ==
  /\ soap = "calling"
  /\ reply = "none"
  /\ reply' = "sent"
  /\ UNCHANGED <<loop, soap, terminating, clients, backlog, calls, servedSince>>

Next ==
  \/ BeforeStart \/ Dispatch \/ Stop \/ SetTerminating \/ JoinAndDestroy
  \/ Bind \/ Test \/ Accept \/ AcceptFails \/ Receive \/ Call \/ Respond
  \/ Sent \/ WaitResponse \/ TimeOut \/ Connect \/ Answer

Spec == Init /\ [][Next]_vars

\* Both threads run on while they can.  Nothing is assumed of a client that is
\* connected, not that it sends nor that it reads (Receive and Sent may never
\* come), nor that there will be another one; accept and bind may fail but need
\* not, and iconfig may not answer.
Fairness ==
  /\ WF_vars(SetTerminating) /\ WF_vars(JoinAndDestroy)
  /\ WF_vars(Bind) /\ WF_vars(Test) /\ WF_vars(Accept)
  /\ WF_vars(Call \/ Respond) /\ WF_vars(WaitResponse \/ TimeOut)

FairSpec == Spec /\ Fairness

-----------------------------------------------------------------------------
\* Every variable has its type.
TypeOK ==
  /\ loop \in LoopStates
  /\ soap \in SoapStates
  /\ terminating \in BOOLEAN
  /\ clients \in 0..MaxClients
  /\ backlog \in 0..clients
  /\ calls \in 0..MaxCalls
  /\ reply \in {"none", "sent", "here"}
  /\ servedSince \in Nat

\* Once the service is asked to stop, at most one more client is served: the
\* flag is read between clients, and a thread blocked in accept has read it.
AtMostOneMore == servedSince <= 1

\* The service ends once it is asked to, even if the operation under way waits
\* for replies that nobody dispatches any more; unless the SOAP thread waits for
\* ever for a client to connect, or for the connected one to send or to read.
FinalizeEnds ==
  loop = "joining" ~>
    (loop = "gone" \/ [](soap \in {"accepting", "receiving", "sending"}))

\* Clients that connect are accepted, even if iconfig never answers; unless the
\* thread has ended or is asked to, or waits for ever for a connected client to
\* send or to read.
ClientsAreAccepted ==
  backlog > 0 ~>
    \/ backlog = 0 \/ terminating \/ soap = "ended"
    \/ [](soap \in {"receiving", "sending"})
=============================================================================
