-------------------------------- MODULE Rpc --------------------------------
(***************************************************************************)
(* What a SOAP handler may rely on when it calls iconfig, stated without   *)
(* messages: a call takes effect at one instant while it is being made and *)
(* an answer is the one computed at that instant; or the caller gives up,  *)
(* and then the call may have taken effect already, may take effect later, *)
(* or never.                                                               *)
(***************************************************************************)
CONSTANTS Ids,       \* the names of calls
          Values,    \* the values of the setting; a call to set v is v itself
          Get,       \* the call that reads the setting
          Done,      \* the answer to a call that set
          Refused,   \* the answer to a call that was refused
          NoAnswer,  \* no answer
          NoCall,    \* no call is being made
          NoReturn   \* no call has returned

VARIABLES setting,  \* the setting
          call,     \* the call being made, with its answer once it took effect
          late,     \* calls given up on that may still take effect
          returned  \* the last call that returned, with its answer

vars == <<setting, call, late, returned>>

Calls == Values \cup {Get}

\* The effects a call can have: the setting after it, and its answer.
Effects(op) ==
  IF op = Get THEN {<<setting, setting>>}
  ELSE {<<op, Done>>, <<setting, Refused>>}

Init ==
  /\ setting \in Values
  /\ call = NoCall
  /\ late = {}
  /\ returned = NoReturn

Begin ==
  /\ call = NoCall
  /\ \E i \in Ids, op \in Calls :
       call' = [id |-> i, op |-> op, answer |-> NoAnswer]
  /\ UNCHANGED <<setting, late, returned>>

TakeEffect ==
  /\ call # NoCall
  /\ call.answer = NoAnswer
  /\ \E e \in Effects(call.op) :
       /\ setting' = e[1]
       /\ call' = [call EXCEPT !.answer = e[2]]
  /\ UNCHANGED <<late, returned>>

Answer ==
  /\ call # NoCall
  /\ call.answer # NoAnswer
  /\ returned' = call
  /\ call' = NoCall
  /\ UNCHANGED <<setting, late>>

GiveUp ==
  /\ call # NoCall
  /\ returned' = [call EXCEPT !.answer = NoAnswer]
  /\ call' = NoCall
  /\ \/ late' = late
     \/ /\ call.answer = NoAnswer
        /\ late' = late \cup {[id |-> call.id, op |-> call.op]}
  /\ UNCHANGED setting

TakeEffectLate ==
  /\ \E r \in late :
       /\ late' = late \ {r}
       /\ \E e \in Effects(r.op) : setting' = e[1]
  /\ UNCHANGED <<call, returned>>

\* Other clients of iconfig change the setting too.
OthersChange ==
  /\ setting' \in Values
  /\ UNCHANGED <<call, late, returned>>

\* A request given up on can also be lost, with no effect.
LateIsLost ==
  /\ \E r \in late : late' = late \ {r}
  /\ UNCHANGED <<setting, call, returned>>

Next ==
  \/ Begin \/ TakeEffect \/ Answer \/ GiveUp
  \/ TakeEffectLate \/ OthersChange \/ LateIsLost

Spec == Init /\ [][Next]_vars
=============================================================================
