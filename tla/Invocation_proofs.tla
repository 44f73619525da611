-------------------------- MODULE Invocation_proofs --------------------------
(***************************************************************************)
(* Calls with time-outs implement Rpc, for any number of calls and any     *)
(* values.                                                                 *)
(***************************************************************************)
EXTENDS Invocation, TLAPS

-----------------------------------------------------------------------------
(***************************************************************************)
(* The inductive invariant.                                                *)
(***************************************************************************)

\* Requests are on their way in the order of their ids, none of them younger
\* than the last call.
Ordered ==
  /\ \A m, n \in 1..Len(requests) : m < n => requests[m].id < requests[n].id
  /\ \A r \in Range(requests) : r.id < nextId

\* A request still on its way is younger than every one iconfig has served.
Unserved ==
  /\ \A r \in Range(requests), j \in Ids : given[j] # NoAnswer => j < r.id
  /\ \A j \in Ids : given[j] # NoAnswer => j < nextId

\* A reply says what iconfig gave.
Genuine == \A m \in Range(replies) : given[m.id] = m.answer

\* The call under way is the last one made, and its request says so.
Current ==
  call # NoCall =>
    /\ call.id < nextId
    /\ \A r \in Range(requests) : r.id = call.id => r = call

IInv == Types /\ Ordered /\ Unserved /\ Genuine /\ Current

-----------------------------------------------------------------------------
(***************************************************************************)
(* Queues.                                                                 *)
(***************************************************************************)
LEMMA RequestParts ==
  \A r \in Request : r.id \in Ids /\ r.op \in Calls
BY DEF Request

LEMMA ReplyParts ==
  \A m \in Reply : m.id \in Ids /\ m.answer \in Answers
BY DEF Reply

\* What is taken from a queue was its first element, what is left was behind it.
LEMMA RangeOfTail ==
  ASSUME NEW S, NEW q \in Seq(S), q # <<>>
  PROVE  /\ Range(q) = {Head(q)} \cup Range(Tail(q))
         /\ Head(q) \in S /\ Head(q) = q[1] /\ Len(q) >= 1
         /\ Tail(q) \in Seq(S) /\ Len(Tail(q)) = Len(q) - 1
         /\ \A n \in 1..Len(Tail(q)) : Tail(q)[n] = q[n + 1]
<1>1. /\ Head(q) \in S /\ Head(q) = q[1] /\ Len(q) >= 1
      /\ Tail(q) \in Seq(S) /\ Len(Tail(q)) = Len(q) - 1
      /\ \A n \in 1..Len(Tail(q)) : Tail(q)[n] = q[n + 1]
  OBVIOUS
<1>2. DOMAIN q = 1..Len(q) /\ DOMAIN Tail(q) = 1..Len(Tail(q))
  BY <1>1
<1>3. ASSUME NEW n \in DOMAIN q
      PROVE  q[n] \in {Head(q)} \cup Range(Tail(q))
  <2>1. CASE n = 1
    BY <1>1, <2>1
  <2>2. CASE n # 1
    <3>1. n - 1 \in DOMAIN Tail(q) /\ Tail(q)[n - 1] = q[n]
      BY <1>1, <1>2, <2>2
    <3> QED BY <3>1 DEF Range
  <2> QED BY <2>1, <2>2
<1>4. ASSUME NEW n \in DOMAIN Tail(q)
      PROVE  Tail(q)[n] \in Range(q)
  <2>1. n + 1 \in DOMAIN q /\ Tail(q)[n] = q[n + 1]
    BY <1>1, <1>2
  <2> QED BY <2>1 DEF Range
<1>5. Head(q) \in Range(q)
  BY <1>1, <1>2 DEF Range
<1>6. Range(q) \subseteq {Head(q)} \cup Range(Tail(q))
  BY <1>3 DEF Range
<1>7. Range(Tail(q)) \subseteq Range(q)
  BY <1>4 DEF Range
<1> QED BY <1>1, <1>5, <1>6, <1>7

LEMMA RangeOfAppend ==
  ASSUME NEW S, NEW q \in Seq(S), NEW e \in S
  PROVE  /\ Range(Append(q, e)) = Range(q) \cup {e}
         /\ Append(q, e) \in Seq(S) /\ Len(Append(q, e)) = Len(q) + 1
         /\ \A n \in 1..Len(q) : Append(q, e)[n] = q[n]
         /\ Append(q, e)[Len(q) + 1] = e
<1>1. /\ Append(q, e) \in Seq(S) /\ Len(Append(q, e)) = Len(q) + 1
      /\ \A n \in 1..Len(q) : Append(q, e)[n] = q[n]
      /\ Append(q, e)[Len(q) + 1] = e
  OBVIOUS
<1> DEFINE a == Append(q, e)
<1> HIDE DEF a
<1>2. a \in Seq(S) /\ Len(a) = Len(q) + 1 /\ a[Len(q) + 1] = e
  BY <1>1 DEF a
<1>3. \A n \in 1..Len(q) : a[n] = q[n]
  BY <1>1 DEF a
<1>4. Len(q) \in Nat /\ DOMAIN q = 1..Len(q)
  OBVIOUS
<1>5. DOMAIN a = 1..Len(a)
  BY <1>2
<1>6. DOMAIN a = DOMAIN q \cup {Len(q) + 1}
  BY <1>2, <1>4, <1>5
<1>7. Range(a) = Range(q) \cup {e}
  BY <1>2, <1>3, <1>4, <1>6 DEF Range
<1> QED BY <1>1, <1>7 DEF a

LEMMA RangeOfQueue == \A S : \A q \in Seq(S) : Range(q) \subseteq S
<1> TAKE S
<1> TAKE q \in Seq(S)
<1>1. DOMAIN q = 1..Len(q) /\ \A n \in 1..Len(q) : q[n] \in S
  OBVIOUS
<1> QED BY <1>1 DEF Range

-----------------------------------------------------------------------------
(***************************************************************************)
(* The invariant, action by action.                                        *)
(***************************************************************************)

\* What remains when the first request is taken from the queue.
LEMMA TakeRequest ==
  ASSUME IInv, requests # <<>>, requests' = Tail(requests), UNCHANGED nextId
  PROVE  /\ Head(requests) \in Request
         /\ Head(requests) \in Range(requests)
         /\ requests' \in Seq(Request)
         /\ Range(requests) = {Head(requests)} \cup Range(requests')
         /\ \A r \in Range(requests') : r.id > Head(requests).id
         /\ Ordered'
<1>1. requests \in Seq(Request) /\ nextId \in Nat
  BY MaxCallsAssumption DEF IInv, Types
<1>2. /\ Range(requests) = {Head(requests)} \cup Range(requests')
      /\ Head(requests) \in Request /\ Head(requests) = requests[1]
      /\ Len(requests) >= 1
      /\ requests' \in Seq(Request) /\ Len(requests') = Len(requests) - 1
      /\ \A n \in 1..Len(requests') : requests'[n] = requests[n + 1]
  BY <1>1, RangeOfTail
<1>3. Len(requests) \in Nat /\ Len(requests') \in Nat
  BY <1>1, <1>2
<1>4. \A m, n \in 1..Len(requests) : m < n => requests[m].id < requests[n].id
  BY DEF IInv, Ordered
<1>5. \A n \in 1..Len(requests') : requests'[n].id > requests[1].id
  <2> TAKE n \in 1..Len(requests')
  <2>1. 1 \in 1..Len(requests) /\ n + 1 \in 1..Len(requests) /\ 1 < n + 1
    BY <1>2, <1>3
  <2>2. requests[1].id < requests[n + 1].id
    BY <1>4, <2>1
  <2>3. requests[1] \in Request /\ requests[n + 1] \in Request
    BY <1>1, <2>1
  <2> QED BY <1>2, <2>2, <2>3, RequestParts DEF Ids
<1>6. DOMAIN requests' = 1..Len(requests')
  BY <1>2
<1>7. \A r \in Range(requests') : r.id > Head(requests).id
  BY <1>2, <1>5, <1>6 DEF Range
<1>8. \A m, n \in 1..Len(requests') : m < n => requests'[m].id < requests'[n].id
  <2> TAKE m, n \in 1..Len(requests')
  <2>1. m + 1 \in 1..Len(requests) /\ n + 1 \in 1..Len(requests)
    BY <1>2, <1>3
  <2>2. m < n => m + 1 < n + 1
    BY <1>3
  <2> QED BY <1>2, <1>4, <2>1, <2>2
<1>9. \A r \in Range(requests') : r.id < nextId'
  BY <1>2 DEF IInv, Ordered
<1> QED BY <1>2, <1>7, <1>8, <1>9 DEF Ordered

LEMMA TakeReply ==
  ASSUME IInv, replies # <<>>, replies' = Tail(replies)
  PROVE  /\ Head(replies) \in Reply
         /\ Head(replies) \in Range(replies)
         /\ replies' \in Seq(Reply)
         /\ Range(replies') \subseteq Range(replies)
<1>1. replies \in Seq(Reply)
  BY DEF IInv, Types
<1> QED BY <1>1, RangeOfTail

LEMMA InvInit == Init => IInv
<1> SUFFICES ASSUME Init PROVE IInv
  OBVIOUS
<1>1. requests \in Seq(Request) /\ replies \in Seq(Reply)
  BY DEF Init
<1>2. nextId \in 1..(MaxCalls + 1)
  BY MaxCallsAssumption DEF Init
<1>3. Types
  BY <1>1, <1>2 DEF Init, Types
<1>4. Len(requests) = 0 /\ Range(requests) = {} /\ Range(replies) = {}
  BY DEF Init, Range
<1> QED
  BY <1>3, <1>4 DEF Init, IInv, Ordered, Unserved, Genuine, Current

LEMMA InvSend == IInv /\ SendMessage => IInv'
<1> SUFFICES ASSUME IInv, SendMessage PROVE IInv'
  OBVIOUS
<1> USE MaxCallsAssumption
<1>1. PICK op \in Calls :
        /\ call' = [id |-> nextId, op |-> op]
        /\ requests' = Append(requests, [id |-> nextId, op |-> op])
  BY DEF SendMessage
<1>2. /\ nextId \in Nat /\ nextId <= MaxCalls /\ nextId' = nextId + 1
      /\ nextId \in Ids
      /\ UNCHANGED <<returned, replies, setting, given>>
  BY DEF SendMessage, IInv, Types, Ids
<1>3. call' \in Request /\ call'.id = nextId
  BY <1>1, <1>2 DEF Request
<1>4. requests \in Seq(Request)
  BY DEF IInv, Types
<1>5. requests' = Append(requests, call')
  BY <1>1
<1>6. /\ Range(requests') = Range(requests) \cup {call'}
      /\ requests' \in Seq(Request) /\ Len(requests') = Len(requests) + 1
      /\ \A n \in 1..Len(requests) : requests'[n] = requests[n]
      /\ requests'[Len(requests) + 1] = call'
  BY <1>3, <1>4, <1>5, RangeOfAppend
<1>7. Types'
  BY <1>2, <1>3, <1>6 DEF IInv, Types
<1>8. \A r \in Range(requests) : r.id \in Nat /\ r.id < nextId
  BY <1>4, RangeOfQueue, RequestParts DEF IInv, Ordered, Ids
<1>9. Ordered'
  <2>1. \A r \in Range(requests') : r.id < nextId'
    BY <1>2, <1>3, <1>6, <1>8
  <2>2. ASSUME NEW m \in 1..Len(requests'), NEW n \in 1..Len(requests'), m < n
        PROVE  requests'[m].id < requests'[n].id
    <3>1. m \in 1..Len(requests) /\ requests'[m] = requests[m]
      BY <1>4, <1>6, <2>2
    <3>2. CASE n = Len(requests) + 1
      <4>1. requests[m] \in Range(requests)
        BY <1>4, <3>1 DEF Range
      <4> QED BY <1>3, <1>6, <1>8, <3>1, <3>2, <4>1
    <3>3. CASE n # Len(requests) + 1
      <4>1. n \in 1..Len(requests) /\ requests'[n] = requests[n]
        BY <1>4, <1>6, <3>3
      <4> QED BY <2>2, <3>1, <4>1 DEF IInv, Ordered
    <3> QED BY <3>2, <3>3
  <2> QED BY <2>1, <2>2 DEF Ordered
<1>10. Unserved'
  BY <1>2, <1>3, <1>6 DEF IInv, Unserved, Ids
<1>11. Genuine'
  BY <1>2 DEF IInv, Genuine
<1>12. Current'
  BY <1>2, <1>3, <1>6, <1>8 DEF Current
<1> QED BY <1>7, <1>9, <1>10, <1>11, <1>12 DEF IInv

\* The reply that is waited for answers the call that waits.
LEMMA AnswerIsGiven ==
  ASSUME IInv, WaitResponse
  PROVE  /\ call \in Request /\ Head(replies) \in Reply
         /\ given[call.id] = Head(replies).answer
         /\ Head(replies).answer \in Answers
         /\ replies' \in Seq(Reply) /\ Range(replies') \subseteq Range(replies)
<1>1. replies # <<>> /\ replies' = Tail(replies) /\ WaitsFor(Head(replies).id)
  BY DEF WaitResponse
<1>2. call \in Request
  BY <1>1 DEF WaitsFor, IInv, Types
<1> QED BY <1>1, <1>2, TakeReply, ReplyParts DEF WaitsFor, IInv, Genuine

\* A call that returns, whatever its answer.
LEMMA InvReturn ==
  ASSUME IInv, call \in Request, NEW a \in Answers \cup {NoAnswer}, Return(a),
         UNCHANGED <<nextId, requests, setting, given>>,
         replies' \in Seq(Reply), Range(replies') \subseteq Range(replies)
  PROVE  IInv'
<1>1. returned' = [id |-> call.id, op |-> call.op, answer |-> a,
                   status |-> "SOAP_OK"] /\ call' = NoCall
  BY DEF Return, soap_status
<1>2. Types'
  BY <1>1, RequestParts DEF IInv, Types
<1> QED
  BY <1>1, <1>2 DEF IInv, Ordered, Unserved, Genuine, Current

LEMMA InvWaitResponse == IInv /\ WaitResponse => IInv'
BY AnswerIsGiven, InvReturn DEF WaitResponse

LEMMA InvTimeOut == IInv /\ TimeOut => IInv'
<1> SUFFICES ASSUME IInv, TimeOut PROVE IInv'
  OBVIOUS
<1>1. call \in Request /\ replies' \in Seq(Reply)
  BY DEF IInv, Types, TimeOut
<1> QED BY <1>1, InvReturn DEF TimeOut

\* A reply is dropped or lost.
LEMMA InvForgetReply ==
  ASSUME IInv, replies # <<>>, replies' = Tail(replies),
         UNCHANGED <<call, nextId, returned, requests, setting, given>>
  PROVE  IInv'
<1>1. replies' \in Seq(Reply) /\ Range(replies') \subseteq Range(replies)
  BY TakeReply
<1>2. Types'
  BY <1>1 DEF IInv, Types
<1> QED BY <1>1, <1>2 DEF IInv, Ordered, Unserved, Genuine, Current

LEMMA InvLoseRequest == IInv /\ LoseRequest => IInv'
<1> SUFFICES ASSUME IInv, LoseRequest PROVE IInv'
  OBVIOUS
<1>1. /\ requests # <<>> /\ requests' = Tail(requests)
      /\ UNCHANGED <<call, nextId, returned, replies, setting, given>>
  BY DEF LoseRequest
<1>2. /\ requests' \in Seq(Request) /\ Range(requests') \subseteq Range(requests)
      /\ Ordered'
  BY <1>1, TakeRequest
<1>3. Types'
  BY <1>1, <1>2 DEF IInv, Types
<1> QED BY <1>1, <1>2, <1>3 DEF IInv, Unserved, Genuine, Current

\* What iconfig does to the first request on its way.
LEMMA ServeEffect ==
  ASSUME IInv, Serve
  PROVE  LET r == Head(requests) IN
         /\ r \in Request /\ given[r.id] = NoAnswer
         /\ \E a \in Answers :
              /\ \/ r.op = Get /\ setting' = setting /\ a = setting
                 \/ r.op # Get /\ setting' = r.op /\ a = Done
                 \/ r.op # Get /\ setting' = setting /\ a = Refused
              /\ setting' \in Values
              /\ given' = [given EXCEPT ![r.id] = a]
              /\ replies' = Append(replies, [id |-> r.id, answer |-> a])
<1> DEFINE r == Head(requests)
<1>1. requests # <<>> /\ requests' = Tail(requests) /\ UNCHANGED nextId
  BY DEF Serve
<1>2. r \in Request /\ r \in Range(requests) /\ r.id \in Ids /\ r.op \in Calls
  BY <1>1, TakeRequest, RequestParts
<1> HIDE DEF r
<1>3. given[r.id] = NoAnswer
  <2>1. given[r.id] # NoAnswer => r.id < r.id
    BY <1>2 DEF IInv, Unserved
  <2>2. ~(r.id < r.id)
    BY <1>2 DEF Ids
  <2> QED BY <2>1, <2>2
<1>4. PICK e \in IF r.op = Get THEN {<<setting, setting>>}
                 ELSE {<<r.op, Done>>, <<setting, Refused>>} :
        /\ setting' = e[1]
        /\ given' = [given EXCEPT ![r.id] = e[2]]
        /\ replies' = Append(replies, [id |-> r.id, answer |-> e[2]])
  BY DEF Serve, r
<1>5. setting \in Values /\ (r.op # Get => r.op \in Values)
  BY <1>2 DEF IInv, Types, Calls
<1>6. e[2] \in Answers /\ setting' \in Values
  BY <1>4, <1>5 DEF Answers
<1>7. \/ r.op = Get /\ setting' = setting /\ e[2] = setting
      \/ r.op # Get /\ setting' = r.op /\ e[2] = Done
      \/ r.op # Get /\ setting' = setting /\ e[2] = Refused
  BY <1>4
<1> QED BY <1>2, <1>3, <1>4, <1>6, <1>7 DEF r

LEMMA InvServe == IInv /\ Serve => IInv'
<1> SUFFICES ASSUME IInv, Serve PROVE IInv'
  OBVIOUS
<1> DEFINE r == Head(requests)
<1>1. /\ requests # <<>> /\ requests' = Tail(requests)
      /\ UNCHANGED <<call, nextId, returned>>
  BY DEF Serve
<1>2. /\ r \in Request /\ r \in Range(requests)
      /\ r.id \in Ids /\ r.op \in Calls
      /\ requests' \in Seq(Request)
      /\ Range(requests) = {r} \cup Range(requests')
      /\ \A q \in Range(requests') : q.id > r.id
      /\ Ordered'
  BY <1>1, TakeRequest, RequestParts
<1>3. given[r.id] = NoAnswer
  BY ServeEffect
<1>4. PICK a \in Answers :
        /\ setting' \in Values
        /\ given' = [given EXCEPT ![r.id] = a]
        /\ replies' = Append(replies, [id |-> r.id, answer |-> a])
  BY ServeEffect
<1> HIDE DEF r
<1> DEFINE m == [id |-> r.id, answer |-> a]
<1>5. m \in Reply /\ m.id = r.id /\ m.answer = a
  BY <1>2 DEF Reply
<1> HIDE DEF m
<1>6. replies \in Seq(Reply) /\ given \in [Ids -> Answers \cup {NoAnswer}]
  BY DEF IInv, Types
<1>7. replies' \in Seq(Reply) /\ Range(replies') = Range(replies) \cup {m}
  BY <1>4, <1>5, <1>6, RangeOfAppend DEF m
<1>8. /\ given' \in [Ids -> Answers \cup {NoAnswer}]
      /\ given'[r.id] = a
      /\ \A j \in Ids : j # r.id => given'[j] = given[j]
  BY <1>2, <1>4, <1>6
<1>9. Types'
  BY <1>1, <1>2, <1>4, <1>7, <1>8 DEF IInv, Types
<1>10. Genuine'
  <2>1. \A x \in Range(replies) : x.id \in Ids /\ x.answer \in Answers
    BY <1>6, RangeOfQueue, ReplyParts
  <2>2. \A x \in Range(replies) : given[x.id] = x.answer /\ x.id # r.id
    BY <1>3, <2>1, AnswersAssumption DEF IInv, Genuine
  <2> QED BY <1>5, <1>7, <1>8, <2>1, <2>2 DEF Genuine
<1>11. Unserved'
  <2>1. ASSUME NEW j \in Ids, given'[j] # NoAnswer
        PROVE  j < nextId /\ \A q \in Range(requests') : j < q.id
    <3>1. CASE j = r.id
      BY <1>2, <3>1 DEF IInv, Ordered, Ids
    <3>2. CASE j # r.id
      BY <1>2, <1>8, <2>1, <3>2 DEF IInv, Unserved
    <3> QED BY <3>1, <3>2
  <2> QED BY <1>1, <2>1 DEF Unserved
<1>12. Current'
  BY <1>1, <1>2 DEF IInv, Current
<1> QED BY <1>2, <1>9, <1>10, <1>11, <1>12 DEF IInv

LEMMA InvOthersChange == IInv /\ OthersChange => IInv'
BY DEF OthersChange, IInv, Types, Ordered, Unserved, Genuine, Current

THEOREM Inductive == Spec => []IInv
<1>1. IInv /\ [Next]_vars => IInv'
  <2> SUFFICES ASSUME IInv, [Next]_vars
               PROVE  IInv'
    OBVIOUS
  <2>1. CASE DropReply \/ LoseReply
    BY <2>1, InvForgetReply DEF DropReply, LoseReply
  <2>2. CASE UNCHANGED vars
    BY <2>2 DEF vars, IInv, Types, Ordered, Unserved, Genuine, Current
  <2> QED
    BY <2>1, <2>2, InvSend, InvWaitResponse, InvTimeOut, InvServe,
       InvLoseRequest, InvOthersChange DEF Next
<1> QED BY <1>1, InvInit, PTL DEF Spec

-----------------------------------------------------------------------------
(***************************************************************************)
(* The results.                                                            *)
(***************************************************************************)

\* The types alone.
LEMMA TypesHold == Spec => []Types
<1>1. IInv => Types
  BY DEF IInv
<1> QED BY <1>1, Inductive, PTL

\* Replies are on their way in the order of their ids, and the id waited for is
\* the last one that was given out.
RepliesOrdered ==
  \A m, n \in 1..Len(replies) : m < n => replies[m].id < replies[n].id
LastGiven == call # NoCall => nextId = call.id + 1

\* A reply answers a request that was served, and so one before every request
\* still on its way.
LEMMA RepliesAreOlder ==
  ASSUME IInv, NEW a \in Range(replies)
  PROVE  a.id \in Ids /\ a.id < nextId /\ \A r \in Range(requests) : a.id < r.id
<1>1. replies \in Seq(Reply)
  BY DEF IInv, Types
<1>2. a \in Reply /\ a.id \in Ids /\ a.answer \in Answers
  BY <1>1, RangeOfQueue, ReplyParts
<1>3. given[a.id] # NoAnswer
  BY <1>2, AnswersAssumption DEF IInv, Genuine
<1> QED BY <1>2, <1>3 DEF IInv, Unserved

\* The first reply is taken, whoever takes it.
LEMMA TailOrdered ==
  ASSUME IInv, RepliesOrdered, replies # <<>>, replies' = Tail(replies)
  PROVE  RepliesOrdered'
<1>1. replies \in Seq(Reply)
  BY DEF IInv, Types
<1>2. /\ Len(replies') = Len(replies) - 1 /\ Len(replies) \in Nat
      /\ \A n \in 1..Len(replies') : replies'[n] = replies[n + 1]
  BY <1>1, RangeOfTail
<1> SUFFICES ASSUME NEW m \in 1..Len(replies'), NEW n \in 1..Len(replies'), m < n
             PROVE  replies'[m].id < replies'[n].id
  BY DEF RepliesOrdered
<1>3. m + 1 \in 1..Len(replies) /\ n + 1 \in 1..Len(replies) /\ m + 1 < n + 1
  BY <1>2
<1> QED BY <1>2, <1>3 DEF RepliesOrdered

\* A request is served: its reply is put behind those of older ones.
LEMMA AppendOrdered ==
  ASSUME IInv, RepliesOrdered, Serve
  PROVE  RepliesOrdered'
<1>1. requests # <<>> /\ requests' = Tail(requests) /\ UNCHANGED nextId
  BY DEF Serve
<1> DEFINE r == Head(requests)
<1>2. r \in Request /\ r \in Range(requests) /\ r.id \in Ids
  BY <1>1, TakeRequest, RequestParts
<1>3. PICK a \in Answers : replies' = Append(replies, [id |-> r.id, answer |-> a])
  BY ServeEffect
<1> HIDE DEF r
<1> DEFINE e == [id |-> r.id, answer |-> a]
<1>4. e \in Reply /\ e.id = r.id
  BY <1>2 DEF Reply
<1> HIDE DEF e
<1>5. replies \in Seq(Reply)
  BY DEF IInv, Types
<1>6. /\ Len(replies') = Len(replies) + 1 /\ Len(replies) \in Nat
      /\ \A n \in 1..Len(replies) : replies'[n] = replies[n]
      /\ replies'[Len(replies) + 1] = e
  BY <1>3, <1>4, <1>5, RangeOfAppend DEF e
<1>7. \A n \in 1..Len(replies) : replies[n].id < r.id
  <2> TAKE n \in 1..Len(replies)
  <2>1. replies[n] \in Range(replies)
    BY <1>5 DEF Range
  <2> QED BY <1>2, <2>1, RepliesAreOlder
<1> SUFFICES ASSUME NEW m \in 1..Len(replies'), NEW n \in 1..Len(replies'), m < n
             PROVE  replies'[m].id < replies'[n].id
  BY DEF RepliesOrdered
<1>8. m \in 1..Len(replies) /\ replies'[m] = replies[m]
  BY <1>6
<1>9. CASE n = Len(replies) + 1
  BY <1>4, <1>6, <1>7, <1>8, <1>9
<1>10. CASE n # Len(replies) + 1
  <2>1. n \in 1..Len(replies) /\ replies'[n] = replies[n]
    BY <1>6, <1>10
  <2> QED BY <1>8, <2>1 DEF RepliesOrdered
<1> QED BY <1>9, <1>10

LEMMA RepliesKeepOrder == Spec => []RepliesOrdered
<1>1. Init => RepliesOrdered
  BY DEF Init, RepliesOrdered
<1>2. IInv /\ RepliesOrdered /\ [Next]_vars => RepliesOrdered'
  <2> SUFFICES ASSUME IInv, RepliesOrdered, [Next]_vars PROVE RepliesOrdered'
    OBVIOUS
  <2>1. CASE WaitResponse \/ DropReply \/ LoseReply
    BY <2>1, TailOrdered DEF WaitResponse, DropReply, LoseReply
  <2>2. CASE Serve
    BY <2>2, AppendOrdered
  <2>3. CASE SendMessage \/ TimeOut \/ LoseRequest \/ OthersChange \/ UNCHANGED vars
    <3>1. replies' = replies
      BY <2>3 DEF SendMessage, TimeOut, LoseRequest, OthersChange, vars
    <3> QED BY <3>1 DEF RepliesOrdered
  <2> QED BY <2>1, <2>2, <2>3 DEF Next
<1> QED BY <1>1, <1>2, Inductive, PTL DEF Spec

LEMMA WaitsForLast == Spec => []LastGiven
<1>1. Init => LastGiven
  BY DEF Init, LastGiven
<1>2. LastGiven /\ [Next]_vars => LastGiven'
  <2> SUFFICES ASSUME LastGiven, [Next]_vars PROVE LastGiven'
    OBVIOUS
  <2>1. CASE SendMessage
    BY <2>1 DEF SendMessage, LastGiven
  <2>2. CASE WaitResponse \/ TimeOut
    BY <2>2 DEF WaitResponse, TimeOut, Return, LastGiven
  <2>3. CASE DropReply \/ Serve \/ LoseRequest \/ LoseReply \/ OthersChange
             \/ UNCHANGED vars
    BY <2>3 DEF DropReply, Serve, LoseRequest, LoseReply, OthersChange, vars, LastGiven
  <2> QED BY <2>1, <2>2, <2>3 DEF Next
<1> QED BY <1>1, <1>2, PTL DEF Spec

\* Types and queues are as declared, and every id is used once and in its turn,
\* for any number of calls, however many of them were given up on.
THEOREM TypeCorrect == Spec => []TypeOK
<1>1. IInv /\ RepliesOrdered /\ LastGiven => TypeOK
  <2> SUFFICES ASSUME IInv, RepliesOrdered, LastGiven PROVE TypeOK
    OBVIOUS
  <2>1. \A a \in Range(replies) :
          a.id < nextId /\ \A r \in Range(requests) : a.id < r.id
    BY RepliesAreOlder
  <2>2. /\ \A m, n \in 1..Len(requests) : m < n => requests[m].id < requests[n].id
        /\ \A r \in Range(requests) : r.id < nextId
    BY DEF IInv, Ordered
  <2>3. IdsUsedOnce
    BY <2>1, <2>2 DEF IdsUsedOnce, RepliesOrdered, LastGiven
  <2> QED BY <2>3 DEF IInv, TypeOK
<1> QED BY <1>1, Inductive, RepliesKeepOrder, WaitsForLast, PTL

\* Only serving a request gives an answer.
LEMMA OnlyServeGives == IInv /\ [Next]_vars /\ ~Serve => given' = given
BY DEF Next, vars, SendMessage, WaitResponse, TimeOut, DropReply, LoseRequest,
       LoseReply, OthersChange

\* A set this server gave up on takes effect before every later one of its
\* sets, or never.
THEOREM LateSetsAreOld == Spec => SetsKeepOrder
<1> DEFINE Step == \A i, j \in Ids :
             given[i] = NoAnswer /\ given'[i] = Done /\ given[j] = Done => j < i
<1>1. IInv /\ [Next]_vars => [Step]_vars
  <2> SUFFICES ASSUME IInv, [Next]_vars,
                      NEW i \in Ids, NEW j \in Ids,
                      given[i] = NoAnswer, given'[i] = Done, given[j] = Done
               PROVE  j < i
    OBVIOUS
  <2>1. Done # NoAnswer
    BY AnswersAssumption DEF Answers
  <2>2. Serve
    BY <2>1, OnlyServeGives
  <2>3. requests # <<>> /\ requests' = Tail(requests) /\ UNCHANGED nextId
    BY <2>2 DEF Serve
  <2>4. Head(requests) \in Range(requests)
    BY <2>3, TakeRequest
  <2>5. i = Head(requests).id
    <3>1. PICK a \in Answers : given' = [given EXCEPT ![Head(requests).id] = a]
      BY <2>2, ServeEffect
    <3> QED BY <2>1, <3>1 DEF IInv, Types
  <2> QED BY <2>1, <2>4, <2>5 DEF IInv, Unserved
<1>2. Spec => [][Step]_vars
  BY <1>1, Inductive, PTL DEF Spec
<1> QED BY <1>2 DEF SetsKeepOrder

-----------------------------------------------------------------------------
(***************************************************************************)
(* The refinement.                                                         *)
(***************************************************************************)

\* The request of the call under way is not late, every other one is.
LEMMA LateOfServed ==
  ASSUME IInv, requests # <<>>, requests' = Tail(requests),
         UNCHANGED <<call, nextId>>
  PROVE  /\ WaitsFor(Head(requests).id) => LateOf' = LateOf
         /\ ~WaitsFor(Head(requests).id) =>
              Head(requests) \in LateOf /\ LateOf' = LateOf \ {Head(requests)}
<1>1. /\ Head(requests) \in Request
      /\ Range(requests) = {Head(requests)} \cup Range(requests')
      /\ \A r \in Range(requests') : r.id > Head(requests).id
  BY TakeRequest
<1>2. Head(requests) \notin Range(requests')
  <2>1. ~(Head(requests).id > Head(requests).id)
    BY <1>1, RequestParts DEF Ids
  <2> QED BY <1>1, <2>1
<1>3. LateOf' = {r \in Range(requests') : ~WaitsFor(r.id)}
  BY DEF LateOf, WaitsFor
<1> QED BY <1>1, <1>2, <1>3 DEF LateOf

LEMMA CallOfCall ==
  ASSUME IInv, call # NoCall
  PROVE  /\ call \in Request
         /\ CallOf = [id |-> call.id, op |-> call.op, answer |-> given[call.id]]
         /\ CallOf # NoCall
<1>1. call \in Request
  BY DEF IInv, Types
<1>2. given[call.id] \in Answers \cup {NoAnswer}
  BY <1>1, RequestParts DEF IInv, Types
<1>3. CallOf = [id |-> call.id, op |-> call.op, answer |-> given[call.id]]
  BY DEF CallOf
<1>4. CallOf \in [id : Ids, op : Calls, answer : Answers \cup {NoAnswer}]
  BY <1>1, <1>2, <1>3, RequestParts
<1> QED BY <1>1, <1>3, <1>4, NothingAssumption

LEMMA SendBegins == IInv /\ SendMessage => Abstract!Begin
<1> SUFFICES ASSUME IInv, SendMessage PROVE Abstract!Begin
  OBVIOUS
<1> USE MaxCallsAssumption
<1>1. PICK op \in Calls :
        /\ call' = [id |-> nextId, op |-> op]
        /\ requests' = Append(requests, [id |-> nextId, op |-> op])
  BY DEF SendMessage
<1>2. /\ call = NoCall /\ nextId \in Ids
      /\ UNCHANGED <<returned, setting, given>>
  BY DEF SendMessage, IInv, Types, Ids
<1>3. call' \in Request /\ call'.id = nextId /\ call'.op = op
  BY <1>1, <1>2 DEF Request
<1>4. requests \in Seq(Request) /\ requests' = Append(requests, call')
  BY <1>1 DEF IInv, Types
<1>5. Range(requests') = Range(requests) \cup {call'}
  BY <1>3, <1>4, RangeOfAppend
<1>6. call' # NoCall
  BY <1>3, NothingAssumption
<1>7. given'[nextId] = NoAnswer
  <2>1. ~(nextId < nextId)
    BY <1>2 DEF Ids
  <2> QED BY <1>2, <2>1 DEF IInv, Unserved
<1>8. CallOf = NoCall
  BY <1>2 DEF CallOf
<1>9. CallOf' = [id |-> nextId, op |-> op, answer |-> NoAnswer]
  BY <1>3, <1>6, <1>7 DEF CallOf
<1>10. LateOf' = LateOf
  <2>1. \A r \in Range(requests) : r.id # nextId
    <3>1. \A r \in Range(requests) : r.id \in Nat /\ r.id < nextId
      BY <1>4, RangeOfQueue, RequestParts DEF IInv, Ordered, Ids
    <3> QED BY <1>2, <3>1 DEF Ids
  <2>2. LateOf = Range(requests)
    BY <1>2 DEF LateOf, WaitsFor
  <2>3. LateOf' = {r \in Range(requests') : r.id # nextId}
    BY <1>3, <1>6 DEF LateOf, WaitsFor
  <2> QED BY <1>3, <1>5, <2>1, <2>2, <2>3
<1>11. ReturnedOf' = ReturnedOf
  BY <1>2 DEF ReturnedOf
<1> QED
  BY <1>2, <1>8, <1>9, <1>10, <1>11 DEF Abstract!Begin, Abstract!Calls, Calls

LEMMA ReturnedOfReturn ==
  ASSUME IInv, call # NoCall, NEW a \in Answers \cup {NoAnswer}, Return(a)
  PROVE  /\ ReturnedOf' = [id |-> call.id, op |-> call.op, answer |-> a]
         /\ CallOf' = NoCall
<1>1. /\ returned' = [id |-> call.id, op |-> call.op, answer |-> a,
                     status |-> "SOAP_OK"]
      /\ call' = NoCall
  BY DEF Return, soap_status
<1>2. call.id \in Ids /\ call.op \in Calls
  BY RequestParts DEF IInv, Types
<1>3. returned' \in [id : Ids, op : Calls, answer : Answers \cup {NoAnswer},
                     status : {"SOAP_OK", "SOAP_FAULT"}]
  BY <1>1, <1>2
<1>4. returned' # NoReturn
  BY <1>3, NothingAssumption
<1> QED BY <1>1, <1>4 DEF ReturnedOf, CallOf

\* The reply that was waited for is the abstract call's answer; its request
\* was served, so nothing becomes late.
LEMMA WaitAnswers == IInv /\ WaitResponse => Abstract!Answer
<1> SUFFICES ASSUME IInv, WaitResponse PROVE Abstract!Answer
  OBVIOUS
<1> DEFINE a == Head(replies).answer
<1>1. /\ call # NoCall /\ Return(a)
      /\ UNCHANGED <<nextId, requests, setting, given>>
  BY DEF WaitResponse, WaitsFor
<1>2. call \in Request /\ given[call.id] = a /\ a \in Answers
  BY AnswerIsGiven
<1> HIDE DEF a
<1>3. CallOf = [id |-> call.id, op |-> call.op, answer |-> a] /\ CallOf # NoCall
  BY <1>1, <1>2, CallOfCall
<1>4. a # NoAnswer
  BY <1>2, AnswersAssumption
<1>5. ReturnedOf' = CallOf /\ CallOf' = NoCall
  BY <1>1, <1>2, <1>3, ReturnedOfReturn
<1>6. LateOf' = LateOf
  <2>1. call' = NoCall
    BY <1>1 DEF Return
  <2>2. call.id \in Ids
    BY <1>2, RequestParts
  <2>3. \A r \in Range(requests) : r.id # call.id
    <3>1. \A r \in Range(requests) : call.id < r.id
      BY <1>2, <1>4, <2>2 DEF IInv, Unserved
    <3>2. ~(call.id < call.id)
      BY <2>2 DEF Ids
    <3> QED BY <3>1, <3>2
  <2> QED BY <1>1, <2>1, <2>3 DEF LateOf, WaitsFor
<1> QED BY <1>1, <1>3, <1>4, <1>5, <1>6 DEF Abstract!Answer

\* A call that times out is late if its request has not been served.
LEMMA TimeOutGivesUp == IInv /\ TimeOut => Abstract!GiveUp
<1> SUFFICES ASSUME IInv, TimeOut PROVE Abstract!GiveUp
  OBVIOUS
<1>1. /\ call # NoCall /\ Return(NoAnswer)
      /\ UNCHANGED <<nextId, requests, replies, setting, given>>
  BY DEF TimeOut
<1>2. /\ call \in Request
      /\ CallOf = [id |-> call.id, op |-> call.op, answer |-> given[call.id]]
      /\ CallOf # NoCall
  BY <1>1, CallOfCall
<1>3. ReturnedOf' = [CallOf EXCEPT !.answer = NoAnswer] /\ CallOf' = NoCall
  BY <1>1, <1>2, ReturnedOfReturn
<1>4. LateOf' = Range(requests)
  BY <1>1 DEF LateOf, WaitsFor, Return
<1>5. LateOf = {r \in Range(requests) : r.id # call.id}
  BY <1>1 DEF LateOf, WaitsFor
<1>6. \A r \in Range(requests) : r.id = call.id => r = call
  BY <1>1 DEF IInv, Current
<1>7. call = [id |-> CallOf.id, op |-> CallOf.op]
  BY <1>2 DEF Request
<1>8. CASE call \in Range(requests)
  <2>1. LateOf' = LateOf \cup {call}
    BY <1>4, <1>5, <1>6, <1>8
  <2>2. given[call.id] = NoAnswer
    <3>1. call.id \in Ids
      BY <1>2, RequestParts
    <3>2. ~(call.id < call.id)
      BY <3>1 DEF Ids
    <3> QED BY <1>8, <3>1, <3>2 DEF IInv, Unserved
  <2> QED BY <1>1, <1>2, <1>3, <1>7, <2>1, <2>2 DEF Abstract!GiveUp
<1>9. CASE call \notin Range(requests)
  <2>1. LateOf' = LateOf
    BY <1>4, <1>5, <1>6, <1>9
  <2> QED BY <1>1, <1>2, <1>3, <2>1 DEF Abstract!GiveUp
<1> QED BY <1>8, <1>9

\* iconfig serves the call under way, or one that was given up on.
LEMMA ServeTakesEffect ==
  IInv /\ Serve => Abstract!TakeEffect \/ Abstract!TakeEffectLate
<1> SUFFICES ASSUME IInv, Serve
             PROVE  Abstract!TakeEffect \/ Abstract!TakeEffectLate
  OBVIOUS
<1> DEFINE r == Head(requests)
<1>1. /\ requests # <<>> /\ requests' = Tail(requests)
      /\ UNCHANGED <<call, nextId, returned>>
  BY DEF Serve
<1>2. r \in Request /\ r \in Range(requests) /\ r.id \in Ids
  BY <1>1, TakeRequest, RequestParts
<1>3. given[r.id] = NoAnswer
  BY ServeEffect
<1>4. PICK a \in Answers :
        /\ \/ r.op = Get /\ setting' = setting /\ a = setting
           \/ r.op # Get /\ setting' = r.op /\ a = Done
           \/ r.op # Get /\ setting' = setting /\ a = Refused
        /\ given' = [given EXCEPT ![r.id] = a]
  BY ServeEffect
<1>5. /\ WaitsFor(r.id) => LateOf' = LateOf
      /\ ~WaitsFor(r.id) => r \in LateOf /\ LateOf' = LateOf \ {r}
  BY <1>1, LateOfServed
<1> HIDE DEF r
<1>6. \E e \in Abstract!Effects(r.op) : setting' = e[1] /\ a = e[2]
  BY <1>4 DEF Abstract!Effects
<1>7. ReturnedOf' = ReturnedOf
  BY <1>1 DEF ReturnedOf
<1>8. \A j \in Ids : given'[j] = IF j = r.id THEN a ELSE given[j]
  BY <1>4 DEF IInv, Types
<1>9. CASE WaitsFor(r.id)
  <2>1. call # NoCall /\ call.id = r.id /\ r = call
    BY <1>2, <1>9 DEF WaitsFor, IInv, Current
  <2>2. /\ CallOf = [id |-> r.id, op |-> r.op, answer |-> NoAnswer]
        /\ CallOf # NoCall
    BY <1>3, <2>1, CallOfCall
  <2>3. CallOf' = [id |-> r.id, op |-> r.op, answer |-> a]
    BY <1>1, <1>2, <1>8, <2>1 DEF CallOf
  <2>4. CallOf' = [CallOf EXCEPT !.answer = a] /\ CallOf.op = r.op
    BY <2>2, <2>3
  <2>5. LateOf' = LateOf
    BY <1>5, <1>9
  <2> QED BY <1>6, <1>7, <2>2, <2>4, <2>5 DEF Abstract!TakeEffect
<1>10. CASE ~WaitsFor(r.id)
  <2>1. CallOf' = CallOf
    <3>1. CASE call = NoCall
      BY <1>1, <3>1 DEF CallOf
    <3>2. CASE call # NoCall
      <4>1. call.id # r.id /\ call.id \in Ids
        BY <1>10, <3>2, RequestParts DEF WaitsFor, IInv, Types
      <4>2. given'[call.id] = given[call.id]
        BY <1>8, <4>1
      <4> QED BY <1>1, <3>2, <4>2 DEF CallOf
    <3> QED BY <3>1, <3>2
  <2> QED BY <1>5, <1>6, <1>7, <1>10, <2>1 DEF Abstract!TakeEffectLate
<1> QED BY <1>9, <1>10

LEMMA LoseLoses ==
  IInv /\ LoseRequest => Abstract!LateIsLost \/ UNCHANGED Abstract!vars
<1> SUFFICES ASSUME IInv, LoseRequest
             PROVE  Abstract!LateIsLost \/ UNCHANGED Abstract!vars
  OBVIOUS
<1>1. /\ requests # <<>> /\ requests' = Tail(requests)
      /\ UNCHANGED <<call, nextId, returned, replies, setting, given>>
  BY DEF LoseRequest
<1>2. UNCHANGED <<setting, CallOf, ReturnedOf>>
  BY <1>1 DEF CallOf, ReturnedOf
<1> QED
  BY <1>1, <1>2, LateOfServed DEF Abstract!LateIsLost, Abstract!vars

LEMMA QuietSteps ==
  DropReply \/ LoseReply \/ UNCHANGED vars => UNCHANGED Abstract!vars
BY DEF DropReply, LoseReply, vars, Abstract!vars, CallOf, LateOf, ReturnedOf,
       WaitsFor

LEMMA OthersChangeThere == OthersChange => Abstract!OthersChange
BY DEF OthersChange, Abstract!OthersChange, CallOf, LateOf, ReturnedOf, WaitsFor

LEMMA InitImplements == Init => Abstract!Init
<1> SUFFICES ASSUME Init PROVE Abstract!Init
  OBVIOUS
<1>1. Range(requests) = {}
  BY DEF Init, Range
<1> QED BY <1>1 DEF Init, Abstract!Init, CallOf, LateOf, ReturnedOf

\* However many calls time out, and whatever becomes of their requests and
\* replies, each call is one that takes effect at an instant, or is given up.
THEOREM Implements == Spec => ImplementsRpc
<1>1. IInv /\ [Next]_vars => [Abstract!Next]_(Abstract!vars)
  BY SendBegins, WaitAnswers, TimeOutGivesUp, ServeTakesEffect, LoseLoses,
     QuietSteps, OthersChangeThere DEF Next, Abstract!Next
<1>2. Spec => Abstract!Spec
  BY <1>1, InitImplements, Inductive, PTL DEF Spec, Abstract!Spec
<1> QED BY <1>2 DEF ImplementsRpc

-----------------------------------------------------------------------------
(***************************************************************************)
(* Every call returns.  What the provers cannot see is when a step is      *)
(* ENABLED, so that is the theorem's hypothesis: a wait can always end.    *)
(***************************************************************************)
CanGoOn == call # NoCall => ENABLED <<WaitResponse \/ TimeOut>>_vars

\* Either end of the wait is the return of the call with this id.
LEMMA WaitReturns ==
  ASSUME Types, WaitResponse \/ TimeOut, NEW i \in Ids, WaitsFor(i)
  PROVE  returned' # NoReturn /\ returned'.id = i
<1>1. call \in Request /\ call.id = i
  BY DEF Types, WaitsFor
<1>2. PICK answer \in Answers \cup {NoAnswer} : Return(answer)
  <2>1. CASE WaitResponse
    <3>1. Head(replies) \in Reply
      BY <2>1 DEF Types, WaitResponse
    <3> QED
      BY <2>1, <3>1, ReplyParts DEF WaitResponse
  <2>2. CASE TimeOut
    BY <2>2 DEF TimeOut
  <2> QED
    BY <2>1, <2>2
<1>3. returned' = [id |-> call.id, op |-> call.op, answer |-> answer,
                   status |-> soap_status(call.op, answer)]
  BY <1>2 DEF Return
<1>4. returned' \in [id : Ids, op : Calls, answer : Answers \cup {NoAnswer},
                     status : {"SOAP_OK", "SOAP_FAULT"}]
  BY <1>1, <1>2, <1>3, RequestParts DEF soap_status
<1> QED
  BY <1>1, <1>3, <1>4, NothingAssumption

\* Nothing but the two ends of its wait touches a call under way: requests and
\* replies that others sent, were served or got lost leave it waiting.
THEOREM CallsReturn == FairSpec /\ []CanGoOn => EveryCallReturns
<1> SUFFICES ASSUME NEW i \in Ids
             PROVE  FairSpec /\ []CanGoOn =>
                      (WaitsFor(i) ~> (returned # NoReturn /\ returned.id >= i))
  BY DEF EveryCallReturns
<1> DEFINE Returned == returned # NoReturn /\ returned.id >= i
<1>1. Types /\ WaitsFor(i) /\ (WaitResponse \/ TimeOut) => Returned'
  BY WaitReturns DEF Ids
<1>2. Types /\ WaitsFor(i) /\ [Next]_vars => WaitsFor(i)' \/ Returned'
  <2> SUFFICES ASSUME Types, WaitsFor(i), [Next]_vars
               PROVE  WaitsFor(i)' \/ Returned'
    OBVIOUS
  <2>1. CASE WaitResponse \/ TimeOut
    BY <1>1, <2>1
  <2>2. ~SendMessage
    BY DEF SendMessage, WaitsFor
  <2>3. CASE DropReply \/ Serve \/ LoseRequest \/ LoseReply \/ OthersChange
             \/ UNCHANGED vars
    <3>1. call' = call
      BY <2>3 DEF DropReply, Serve, LoseRequest, LoseReply, OthersChange, vars
    <3> QED
      BY <3>1 DEF WaitsFor
  <2> QED
    BY <2>1, <2>2, <2>3 DEF Next
<1>3. Types /\ WaitsFor(i) /\ <<WaitResponse \/ TimeOut>>_vars => Returned'
  BY <1>1
<1>4. WaitsFor(i) => call # NoCall
  BY DEF WaitsFor
<1> QED
  BY <1>2, <1>3, <1>4, TypesHold, PTL DEF Spec, FairSpec, CanGoOn
=============================================================================
