----------------------------- MODULE Invocation -----------------------------
(***************************************************************************)
(* onvif_invocate_action: how a SOAP handler calls iconfig.  The SOAP      *)
(* thread sends a request with a fresh id and waits at most 10 seconds for *)
(* the reply with that id (5 seconds in the discovery daemon), then goes   *)
(* on.  It makes one call at a time, but the request and the reply of a    *)
(* call it gave up on are still on their way and meet the next calls.      *)
(*                                                                         *)
(* One setting stands for what the handlers read and write: an account, a  *)
(* network or video parameter.  A call is a value to set, or Get.          *)
(*                                                                         *)
(* Outside the repository: iconfig, which serves requests in order and may *)
(* refuse a set; the connections, which keep order and may lose; and the   *)
(* base service, which hands a reply to whoever waits for its id.          *)
(***************************************************************************)
EXTENDS Naturals, Sequences, Functions

CONSTANTS Values, Get, Done, Refused, NoAnswer, NoCall, NoReturn,
          MaxCalls  \* bound: the calls the SOAP thread makes

ASSUME MaxCallsAssumption == MaxCalls \in Nat

VARIABLES
  call,      \* the call the SOAP thread waits in, or NoCall
  nextId,    \* the id of the next request message
  returned,  \* the last call that returned, its answer and the SOAP status
  requests,  \* to iconfig
  replies,   \* from iconfig
  setting,   \* iconfig: the setting
  given      \* history: the answer iconfig gave to each request

vars == <<call, nextId, returned, requests, replies, setting, given>>

Calls   == Values \cup {Get}
Answers == Values \cup {Done, Refused}
Ids     == 1..MaxCalls
Request == [id : Ids, op : Calls]
Reply   == [id : Ids, answer : Answers]

\* The constants without a meaning of their own differ from what has one.
ASSUME AnswersAssumption == NoAnswer \notin Answers
ASSUME NothingAssumption ==
  /\ NoCall \notin Request
  /\ NoCall \notin [id : Ids, op : Calls, answer : Answers \cup {NoAnswer}]
  /\ NoReturn \notin [id : Ids, op : Calls, answer : Answers \cup {NoAnswer},
                      status : {"SOAP_OK", "SOAP_FAULT"}]

-----------------------------------------------------------------------------
(***************************************************************************)
(* The SOAP thread.                                                        *)
(***************************************************************************)

\* What the SOAP handlers return.  Whether a Get was answered only decides if
\* the response has content; a Set does not look at all.
soap_status(op, answer) == "SOAP_OK"

Init ==
  /\ call = NoCall
  /\ nextId = 1
  /\ returned = NoReturn
  /\ requests = <<>>
  /\ replies = <<>>
  /\ setting \in Values
  /\ given = [i \in Ids |-> NoAnswer]

\* Mutant: the request is put before those still on their way.
SendMessage_in_front ==
  /\ call = NoCall
  /\ nextId <= MaxCalls
  /\ \E op \in Calls :
       /\ call' = [id |-> nextId, op |-> op]
       /\ requests' = <<[id |-> nextId, op |-> op]>> \o requests
  /\ nextId' = nextId + 1
  /\ UNCHANGED <<returned, replies, setting, given>>

SendMessage ==
  /\ call = NoCall
  /\ nextId <= MaxCalls
  /\ \E op \in Calls :
       /\ call' = [id |-> nextId, op |-> op]
       /\ requests' = Append(requests, [id |-> nextId, op |-> op])
  /\ nextId' = nextId + 1
  /\ UNCHANGED <<returned, replies, setting, given>>

\* The reply being waited for is the one to the request with this id.
WaitsFor(id) == call # NoCall /\ call.id = id

Return(answer) ==
  /\ returned' = [id |-> call.id, op |-> call.op, answer |-> answer,
                  status |-> soap_status(call.op, answer)]
  /\ call' = NoCall

\* Mutant: whatever reply comes first is taken for the answer.
WaitResponse_any ==
  /\ call # NoCall
  /\ replies # <<>>
  /\ Return(Head(replies).answer)
  /\ replies' = Tail(replies)
  /\ UNCHANGED <<nextId, requests, setting, given>>

\* wait_response returns TRUE: the reply has the id that was asked for.
WaitResponse ==
  /\ replies # <<>>
  /\ WaitsFor(Head(replies).id)
  /\ Return(Head(replies).answer)
  /\ replies' = Tail(replies)
  /\ UNCHANGED <<nextId, requests, setting, given>>

\* Mutant: the wait has no limit.
TimeOut_never == FALSE /\ UNCHANGED vars

\* Mutant: the id of a call given up on is used again.
TimeOut_gives_id_back ==
  /\ call # NoCall
  /\ Return(NoAnswer)
  /\ nextId' = call.id
  /\ UNCHANGED <<requests, replies, setting, given>>

\* wait_response returns FALSE.
TimeOut ==
  /\ call # NoCall
  /\ Return(NoAnswer)
  /\ UNCHANGED <<nextId, requests, replies, setting, given>>

-----------------------------------------------------------------------------
(***************************************************************************)
(* The base service, iconfig and the connections.                          *)
(***************************************************************************)

\* A reply nobody waits for any more is dropped.
DropReply ==
  /\ replies # <<>>
  /\ ~WaitsFor(Head(replies).id)
  /\ replies' = Tail(replies)
  /\ UNCHANGED <<call, nextId, returned, requests, setting, given>>

Serve ==
  /\ requests # <<>>
  /\ LET r == Head(requests) IN
     \E e \in IF r.op = Get THEN {<<setting, setting>>}
              ELSE {<<r.op, Done>>, <<setting, Refused>>} :
       /\ setting' = e[1]
       /\ given' = [given EXCEPT ![r.id] = e[2]]
       /\ replies' = Append(replies, [id |-> r.id, answer |-> e[2]])
  /\ requests' = Tail(requests)
  /\ UNCHANGED <<call, nextId, returned>>

LoseRequest ==
  /\ requests # <<>>
  /\ requests' = Tail(requests)
  /\ UNCHANGED <<call, nextId, returned, replies, setting, given>>

LoseReply ==
  /\ replies # <<>>
  /\ replies' = Tail(replies)
  /\ UNCHANGED <<call, nextId, returned, requests, setting, given>>

OthersChange ==
  /\ setting' \in Values
  /\ UNCHANGED <<call, nextId, returned, requests, replies, given>>

Next ==
  \/ SendMessage \/ WaitResponse \/ TimeOut \/ DropReply
  \/ Serve \/ LoseRequest \/ LoseReply \/ OthersChange

Spec == Init /\ [][Next]_vars

\* The wait is bounded: it ends with the reply or at its 10 seconds.
FairSpec == Spec /\ WF_vars(WaitResponse \/ TimeOut)

-----------------------------------------------------------------------------
\* Every variable has its type.
Types ==
  /\ call \in {NoCall} \cup Request
  /\ nextId \in 1..(MaxCalls + 1)
  /\ returned \in {NoReturn} \cup
       [id : Ids, op : Calls, answer : Answers \cup {NoAnswer},
        status : {"SOAP_OK", "SOAP_FAULT"}]
  /\ requests \in Seq(Request)
  /\ replies \in Seq(Reply)
  /\ setting \in Values
  /\ given \in [Ids -> Answers \cup {NoAnswer}]

\* An id is used once, and ids are used in order: no two requests on their way
\* have the same, nor two replies, nor a reply and a request that is still to be
\* served; and the id that is waited for is the last one that was given out.
IdsUsedOnce ==
  /\ \A m, n \in 1..Len(requests) : m < n => requests[m].id < requests[n].id
  /\ \A m, n \in 1..Len(replies) : m < n => replies[m].id < replies[n].id
  /\ \A a \in Range(replies), r \in Range(requests) : a.id < r.id
  /\ \A x \in Range(replies) \cup Range(requests) : x.id < nextId
  /\ call # NoCall => nextId = call.id + 1

\* Every variable has its type; ids are used once, in order.
TypeOK == Types /\ IdsUsedOnce

(***************************************************************************)
(* The calls implement Rpc: the call under way has its answer once iconfig *)
(* has served it, and the calls given up on that may still take effect are *)
(* the other requests on their way.                                        *)
(***************************************************************************)
CallOf == IF call = NoCall THEN NoCall
          ELSE [id |-> call.id, op |-> call.op, answer |-> given[call.id]]

LateOf == {r \in Range(requests) : ~WaitsFor(r.id)}

ReturnedOf == IF returned = NoReturn THEN NoReturn
              ELSE [id |-> returned.id, op |-> returned.op,
                    answer |-> returned.answer]

Abstract == INSTANCE Rpc WITH call <- CallOf, late <- LateOf,
                              returned <- ReturnedOf

\* An answer was computed for this call and while it was being made, however
\* many earlier calls timed out with their requests and replies still on the
\* way; and only a call that was given up on can take effect after it returned.
ImplementsRpc == Abstract!Spec

\* Sets take effect in the order the SOAP thread made them, those it gave up
\* on included: a late set never overwrites a newer one.
SetsKeepOrder ==
  [][\A i, j \in Ids :
       given[i] = NoAnswer /\ given'[i] = Done /\ given[j] = Done => j < i]_vars

\* No call holds the SOAP thread for ever, whatever is lost: the thread has
\* other clients to serve.
EveryCallReturns ==
  \A i \in Ids :
    WaitsFor(i) ~> (returned # NoReturn /\ returned.id >= i)

\* What the account operations are documented to do: "Either all users are
\* created successfully or a fault message shall be returned without creating
\* any user."  A set that returns SOAP_OK was done.
OkMeansDone ==
  returned # NoReturn /\ returned.op # Get /\ returned.status = "SOAP_OK" =>
    given[returned.id] = Done
=============================================================================
