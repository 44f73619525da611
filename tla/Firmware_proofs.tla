--------------------------- MODULE Firmware_proofs ---------------------------
(***************************************************************************)
(* Invariance proofs for ServerLoop and Firmware, and that an upload is no *)
(* more to ServerLoop than a request being received: for any number of     *)
(* clients and calls, any images and whatever becomes of the uploads.  At  *)
(* the end, that the service stops and clients are accepted.               *)
(***************************************************************************)
EXTENDS Firmware, SequenceTheorems, TLAPS

-----------------------------------------------------------------------------
(***************************************************************************)
(* Stopping the daemon (ServerLoop).                                       *)
(***************************************************************************)

\* terminating is a matter of how far finalize has come, and a thread that has
\* accepted a client although it should stop cannot come back to accept another.
IInv ==
  /\ TypeOK
  /\ loop = "before" <=> soap = "none"
  /\ terminating = TRUE <=> loop \in {"joining", "gone"}
  /\ loop = "gone" => soap = "ended"
  /\ terminating = FALSE => servedSince = 0
  /\ servedSince <= 1
  /\ servedSince = 1 => soap \notin {"none", "binding", "accepting"}

THEOREM Inductive == Spec => []IInv
<1> USE MaxClientsAssumption, MaxCallsAssumption
<1>1. Init => IInv
  <2> SUFFICES ASSUME Init PROVE IInv
    OBVIOUS
  <2>1. clients \in 0..MaxClients /\ calls \in 0..MaxCalls /\ backlog \in 0..clients
    BY DEF Init
  <2>2. TypeOK
    BY <2>1 DEF Init, TypeOK, LoopStates, SoapStates
  <2> QED BY <2>2 DEF Init, IInv
<1>2. IInv /\ [Next]_vars => IInv'
  <2> SUFFICES ASSUME IInv, [Next]_vars
               PROVE  IInv'
    OBVIOUS
  <2> USE DEF IInv, TypeOK, LoopStates, SoapStates
  <2>1. CASE BeforeStart
    BY <2>1 DEF BeforeStart
  <2>2. CASE Dispatch \/ Stop \/ SetTerminating
    BY <2>2 DEF Dispatch, Stop, SetTerminating
  <2>3. CASE JoinAndDestroy
    BY <2>3 DEF JoinAndDestroy
  <2>4. CASE Bind \/ Test \/ AcceptFails \/ Receive \/ Sent
    BY <2>4 DEF Bind, Test, AcceptFails, Receive, Sent
  <2>5. CASE Accept
    <3>1. servedSince' = IF terminating THEN 1 ELSE 0
      BY <2>5 DEF Accept
    <3>2. backlog' \in 0..clients'
      BY <2>5 DEF Accept
    <3> QED BY <2>5, <3>1, <3>2 DEF Accept
  <2>6. CASE Call \/ Respond \/ WaitResponse \/ TimeOut
    BY <2>6 DEF Call, Respond, WaitResponse, TimeOut
  <2>7. CASE Connect
    <3>1. clients' \in 0..MaxClients /\ backlog' \in 0..clients'
      BY <2>7 DEF Connect
    <3>2. UNCHANGED <<loop, soap, terminating, calls, reply, servedSince>>
      BY <2>7 DEF Connect
    <3> QED BY <3>1, <3>2
  <2>8. CASE Answer
    BY <2>8 DEF Answer
  <2>9. CASE UNCHANGED vars
    BY <2>9 DEF vars
  <2> QED
    BY <2>1, <2>2, <2>3, <2>4, <2>5, <2>6, <2>7, <2>8, <2>9 DEF Next
<1> QED BY <1>1, <1>2, PTL DEF Spec

\* At most one more client is served once the service is asked to stop,
\* however many are waiting.
THEOREM OneMoreAtMost == Spec => []AtMostOneMore
<1>1. IInv => AtMostOneMore
  BY DEF IInv, AtMostOneMore
<1> QED BY <1>1, Inductive, PTL

-----------------------------------------------------------------------------
(***************************************************************************)
(* A step of Firmware is a step of ServerLoop.                             *)
(***************************************************************************)
LEMMA StepOfServerLoop == [FirmwareNext]_allvars => [Next]_vars
<1> SUFFICES ASSUME [FirmwareNext]_allvars PROVE [Next]_vars
  OBVIOUS
<1>1. CASE ReceivePlain \/ AbandonAttachment \/ AbandonMessage \/ EndMessage
  BY <1>1 DEF ReceivePlain, AbandonAttachment, AbandonMessage, EndMessage, Next
<1>2. CASE ReceiveEnvelope \/ mime_server_write_open \/ mime_server_write \/ EndAttachment
  BY <1>2 DEF ReceiveEnvelope, mime_server_write_open, mime_server_write, EndAttachment
<1>3. CASE UpgradeSystemFirmware \/ OtherResponse \/ OtherCall
  BY <1>3 DEF UpgradeSystemFirmware, OtherResponse, OtherCall, Next
<1>4. CASE Elsewhere
  BY <1>4 DEF Elsewhere, Next
<1>5. CASE UNCHANGED allvars
  BY <1>5 DEF allvars
<1> QED
  BY <1>1, <1>2, <1>3, <1>4, <1>5 DEF FirmwareNext

\* The server thread of ServerLoop, with uploads: what is shown of the stop of
\* the service holds in the middle of one.
THEOREM ImplementsServerLoop == FirmwareSpec => Spec
<1>1. FirmwareInit => Init
  BY DEF FirmwareInit
<1> QED
  BY <1>1, StepOfServerLoop, PTL DEF FirmwareSpec, Spec

-----------------------------------------------------------------------------
(***************************************************************************)
(* Files.                                                                  *)
(***************************************************************************)
File == Seq(Images \X Nat)

\* p goes on where d ends, within image i.
GoesOn(d, p, i) ==
  /\ Begins(d, i)
  /\ Len(d) + Len(p) <= Size[i]
  /\ \A n \in 1..Len(p) : p[n] = Chunk(i, Len(d) + n)

\* The prefixes of a sequence are what they should be.
LEMMA PrefixOf ==
  ASSUME NEW S, NEW s \in Seq(S), NEW w \in Prefixes(s)
  PROVE  /\ w \in Seq(S)
         /\ Len(w) <= Len(s)
         /\ \A n \in 1..Len(w) : w[n] = s[n]
<1>1. PICK k \in 0..Len(s) : w = SubSeq(s, 1, k)
  BY DEF Prefixes
<1>2. \A n \in 1..k : s[n] \in S
  BY ElementOfSeq, LenProperties
<1>3. /\ w \in Seq(S)
      /\ Len(w) = IF 1 <= k THEN k - 1 + 1 ELSE 0
      /\ \A n \in 1..(k - 1 + 1) : w[n] = s[1 + n - 1]
  BY <1>1, <1>2, SubSeqProperties
<1>4. Len(s) \in Nat
  BY LenProperties
<1> QED
  BY <1>3, <1>4

\* What goes on with the beginning of an image makes a longer beginning.
LEMMA Continued ==
  ASSUME NEW i \in Images, NEW d \in File, NEW p \in File, GoesOn(d, p, i)
  PROVE  /\ d \o p \in File
         /\ Len(d \o p) = Len(d) + Len(p)
         /\ Begins(d \o p, i)
<1>1. /\ d \o p \in File
      /\ Len(d \o p) = Len(d) + Len(p)
      /\ \A n \in 1..Len(d) + Len(p) :
           (d \o p)[n] = IF n <= Len(d) THEN d[n] ELSE p[n - Len(d)]
  BY ConcatProperties DEF File
<1>2. Len(d) \in Nat /\ Len(p) \in Nat
  BY LenProperties DEF File
<1>3. \A n \in 1..Len(d) : d[n] = Chunk(i, n)
  BY DEF GoesOn, Begins
<1>4. ASSUME NEW n \in 1..Len(d) + Len(p) PROVE (d \o p)[n] = Chunk(i, n)
  <2>1. CASE n <= Len(d)
    BY <1>1, <1>2, <1>3, <2>1
  <2>2. CASE n > Len(d)
    <3>1. n - Len(d) \in 1..Len(p) /\ Len(d) + (n - Len(d)) = n
      BY <1>2, <2>2
    <3>2. p[n - Len(d)] = Chunk(i, Len(d) + (n - Len(d)))
      BY <3>1 DEF GoesOn
    <3> QED
      BY <1>1, <1>2, <2>2, <3>1, <3>2
  <2> QED
    BY <1>2, <2>1, <2>2
<1> QED
  BY <1>1, <1>4 DEF Begins, GoesOn

\* Closing a file leaves the beginning of the image, and all of what was
\* accepted if the flush succeeds.
LEMMA Closed ==
  ASSUME NEW i \in Images, disk \in File, NEW s \in File, GoesOn(disk, s, i),
         mime_server_write_close(s)
  PROVE  /\ disk' \in File
         /\ Begins(disk', i)
         /\ pending' = <<>>
         /\ flushed' \in BOOLEAN
         /\ flushed' => Len(disk') = Len(disk) + Len(s)
<1>1. PICK w \in Prefixes(s) : disk' = disk \o w /\ flushed' = (w = s)
  BY DEF mime_server_write_close
<1>2. /\ w \in File
      /\ Len(w) <= Len(s)
      /\ \A n \in 1..Len(w) : w[n] = s[n]
  BY PrefixOf DEF File
<1>3. Len(w) \in Nat /\ Len(s) \in Nat /\ Len(disk) \in Nat /\ Size[i] \in Nat
  BY <1>2, LenProperties, SizeAssumption DEF File
<1>4. GoesOn(disk, w, i)
  BY <1>2, <1>3 DEF GoesOn
<1>5. disk' \in File /\ Len(disk') = Len(disk) + Len(w) /\ Begins(disk', i)
  BY <1>1, <1>2, <1>4, Continued
<1> QED
  BY <1>1, <1>5 DEF mime_server_write_close

\* A beginning as long as the image is the image.
LEMMA WholeImage ==
  ASSUME NEW i \in Images, NEW d \in File, Begins(d, i), Len(d) = Size[i]
  PROVE  d = Content(i)
<1>1. d \in [1..Len(d) -> Images \X Nat]
  BY LenProperties DEF File
<1> QED
  BY <1>1 DEF Begins, Content

\* A file of the beginning of an image, from the envelope.
LEMMA SavedFile ==
  ASSUME NEW i \in Images, NEW w \in Prefixes(Content(i))
  PROVE  w \in File /\ Begins(w, i)
<1>1. Size[i] \in Nat
  BY SizeAssumption
<1>2. Content(i) \in File /\ Len(Content(i)) = Size[i]
  BY <1>1 DEF Content, Chunk, File
<1>3. /\ w \in File
      /\ Len(w) <= Size[i]
      /\ \A n \in 1..Len(w) : w[n] = Content(i)[n]
  BY <1>2, PrefixOf DEF File
<1>4. Len(w) \in Nat
  BY <1>3, LenProperties DEF File
<1> QED
  BY <1>1, <1>3, <1>4 DEF Begins, Content

-----------------------------------------------------------------------------
(***************************************************************************)
(* The inductive invariant.                                                *)
(***************************************************************************)

\* The types of what is not ServerLoop's.
UploadTypeOK ==
  /\ part \in {"none", "between", "open"}
  /\ image \in Images
  /\ got \in 0..Size[image]
  /\ disk \in File
  /\ pending \in File
  /\ attached \in Images \cup {None}
  /\ flushed \in BOOLEAN
  /\ brought \in BOOLEAN
  /\ inline \in Images \cup {None}
  /\ saved \in File

\* The file holds the beginning of the image that arrived last, and the stream
\* what goes on from there.
FileInv ==
  /\ GoesOn(disk, pending, image)
  /\ part = "open" => Len(disk) + Len(pending) = got /\ got < Size[image]
  /\ part # "open" => pending = <<>>
  /\ \E i \in Images : Begins(saved, i)

\* Where an upload stands against the SOAP thread, and what has arrived.
ArrivedInv ==
  /\ part # "none" => soap = "receiving"
  /\ part = "open" => attached = None /\ brought = TRUE
  /\ part = "between" /\ brought = TRUE => attached # None
  /\ soap \in {"serving", "calling"} /\ brought = TRUE => attached # None
  /\ attached # None =>
       attached = image /\ (flushed = TRUE => Len(disk) = Size[image])

FInv == IInv /\ UploadTypeOK /\ FileInv /\ ArrivedInv

\* A step that leaves the upload alone, but for the state of the SOAP thread.
LEMMA UploadKept ==
  ASSUME UploadTypeOK, FileInv, ArrivedInv, UNCHANGED upload,
         inline' \in Images \cup {None},
         saved' \in File, \E i \in Images : Begins(saved, i)',
         part # "none" => soap' = "receiving",
         soap' \in {"serving", "calling"} => soap \in {"serving", "calling"}
  PROVE  UploadTypeOK' /\ FileInv' /\ ArrivedInv'
<1>1. UNCHANGED <<part, image, got, disk, pending, attached, flushed, brought>>
  BY DEF upload
<1>2. UploadTypeOK'
  BY <1>1 DEF UploadTypeOK
<1>3. FileInv'
  BY <1>1 DEF FileInv, GoesOn, Begins
<1>4. ArrivedInv'
  BY <1>1 DEF ArrivedInv
<1> QED
  BY <1>2, <1>3, <1>4

\* A message begins, or is received whole, without an attachment.
LEMMA ReceivePlainStep ==
  ASSUME UploadTypeOK, FileInv, ArrivedInv, ReceivePlain \/ ReceiveEnvelope
  PROVE  UploadTypeOK' /\ FileInv' /\ ArrivedInv'
<1>1. /\ UNCHANGED <<image, got, disk, pending, attached, flushed, saved>>
      /\ brought' = FALSE /\ inline' \in Images \cup {None}
      /\ part' \in {"none", "between"} /\ part = "none"
      /\ part' = "between" => soap' = "receiving"
  BY DEF ReceivePlain, ReceiveEnvelope, vars
<1>2. UploadTypeOK'
  BY <1>1 DEF UploadTypeOK
<1>3. FileInv'
  BY <1>1 DEF FileInv, GoesOn, Begins
<1>4. ArrivedInv'
  BY <1>1 DEF ArrivedInv
<1> QED
  BY <1>2, <1>3, <1>4

\* A file is opened.
LEMMA OpenStep ==
  ASSUME UploadTypeOK, FileInv, ArrivedInv, mime_server_write_open
  PROVE  UploadTypeOK' /\ FileInv' /\ ArrivedInv'
<1>1. /\ part = "between" /\ part' = "open" /\ image' \in Images /\ got' = 0
      /\ disk' = <<>> /\ attached' = None /\ brought' = TRUE
      /\ UNCHANGED <<soap, pending, flushed, inline, saved>>
  BY DEF mime_server_write_open, vars
<1>2. Size[image'] \in Nat \ {0}
  BY <1>1, SizeAssumption
<1>3. pending = <<>> /\ soap = "receiving"
  BY <1>1 DEF FileInv, ArrivedInv
<1>4. UploadTypeOK'
  BY <1>1, <1>2, EmptySeq DEF UploadTypeOK, File
<1>5. Len(<<>>) = 0
  BY EmptySeq
<1>6. GoesOn(disk, pending, image)'
  BY <1>1, <1>2, <1>3, <1>5 DEF GoesOn, Begins
<1>7. FileInv'
  BY <1>1, <1>2, <1>3, <1>5, <1>6 DEF FileInv, Begins
<1>8. ArrivedInv'
  BY <1>1, <1>3 DEF ArrivedInv
<1> QED
  BY <1>4, <1>7, <1>8

\* What is accepted goes on where the stream stood.
LEMMA Accepted ==
  ASSUME UploadTypeOK, FileInv, part = "open"
  PROVE  LET all == Append(pending, Chunk(image, got + 1)) IN
         /\ all \in File
         /\ Len(all) = Len(pending) + 1
         /\ GoesOn(disk, all, image)
<1> DEFINE all == Append(pending, Chunk(image, got + 1))
<1>1. /\ image \in Images /\ got \in Nat /\ Size[image] \in Nat /\ got < Size[image]
      /\ Len(disk) \in Nat /\ Len(pending) \in Nat
      /\ Len(disk) + Len(pending) = got
  BY SizeAssumption, LenProperties DEF UploadTypeOK, FileInv, File
<1>2. Chunk(image, got + 1) \in Images \X Nat
  BY <1>1 DEF Chunk
<1>3. /\ all \in File /\ Len(all) = Len(pending) + 1
      /\ \A n \in 1..Len(pending) : all[n] = pending[n]
      /\ all[Len(pending) + 1] = Chunk(image, got + 1)
  BY <1>1, <1>2 DEF UploadTypeOK, File
<1>4. ASSUME NEW n \in 1..Len(all) PROVE all[n] = Chunk(image, Len(disk) + n)
  <2>1. CASE n \in 1..Len(pending)
    BY <1>3, <2>1 DEF FileInv, GoesOn
  <2>2. CASE n = Len(pending) + 1
    <3>1. Len(disk) + n = got + 1
      BY <1>1, <2>2
    <3> QED
      BY <1>3, <2>2, <3>1
  <2> QED
    BY <1>1, <1>3, <2>1, <2>2
<1>5. Len(disk) + Len(all) <= Size[image]
  BY <1>1, <1>3
<1> QED
  BY <1>3, <1>4, <1>5 DEF GoesOn, FileInv

\* A chunk is accepted.
LEMMA WriteStep ==
  ASSUME UploadTypeOK, FileInv, ArrivedInv, mime_server_write
  PROVE  UploadTypeOK' /\ FileInv' /\ ArrivedInv'
<1> DEFINE all == Append(pending, Chunk(image, got + 1))
<1>1. /\ part = "open" /\ got + 1 < Size[image] /\ got' = got + 1
      /\ \/ disk' = disk /\ pending' = all
         \/ disk' = disk \o all /\ pending' = <<>>
      /\ UNCHANGED <<soap, part, image, attached, flushed, brought, inline, saved>>
  BY DEF mime_server_write, vars
<1>2. /\ all \in File /\ Len(all) = Len(pending) + 1 /\ GoesOn(disk, all, image)
  BY <1>1, Accepted
<1>3. /\ image \in Images /\ got \in Nat /\ Size[image] \in Nat
      /\ Len(disk) \in Nat /\ Len(pending) \in Nat /\ Len(all) \in Nat
      /\ Len(disk) + Len(pending) = got
  BY <1>1, <1>2, SizeAssumption, LenProperties DEF UploadTypeOK, FileInv, File
<1>4. /\ disk' \in File /\ pending' \in File
      /\ GoesOn(disk', pending', image)
      /\ Len(disk') + Len(pending') = got + 1
  <2>1. CASE disk' = disk /\ pending' = all
    BY <1>2, <1>3, <2>1 DEF UploadTypeOK
  <2>2. CASE disk' = disk \o all /\ pending' = <<>>
    <3>1. /\ disk' \in File /\ Len(disk') = Len(disk) + Len(all)
          /\ Begins(disk', image)
      BY <1>2, <1>3, <2>2, Continued DEF UploadTypeOK
    <3>2. pending' \in File /\ Len(pending') = 0
      BY <2>2, EmptySeq DEF File
    <3>3. Len(disk') + Len(pending') = got + 1 /\ got + 1 <= Size[image]
      BY <1>1, <1>2, <1>3, <3>1, <3>2
    <3>4. GoesOn(disk', pending', image)
      BY <3>1, <3>2, <3>3 DEF GoesOn
    <3> QED
      BY <3>1, <3>2, <3>3, <3>4
  <2> QED
    BY <1>1, <2>1, <2>2
<1>5. UploadTypeOK'
  BY <1>1, <1>3, <1>4 DEF UploadTypeOK
<1>6. FileInv'
  <2>1. GoesOn(disk, pending, image)'
    BY <1>1, <1>4 DEF GoesOn, Begins
  <2>2. \E i \in Images : Begins(saved, i)'
    BY <1>1 DEF FileInv, Begins
  <2> QED
    BY <1>1, <1>4, <2>1, <2>2 DEF FileInv
<1>7. ArrivedInv'
  BY <1>1 DEF ArrivedInv
<1> QED
  BY <1>5, <1>6, <1>7

\* An attachment ends at its boundary.
LEMMA EndStep ==
  ASSUME UploadTypeOK, FileInv, ArrivedInv, EndAttachment
  PROVE  UploadTypeOK' /\ FileInv' /\ ArrivedInv'
<1> DEFINE all == Append(pending, Chunk(image, got + 1))
<1>1. /\ part = "open" /\ got + 1 = Size[image] /\ got' = got + 1
      /\ part' = "between" /\ attached' = image
      /\ mime_server_write_close(all)
      /\ UNCHANGED <<soap, image, brought, inline, saved>>
  BY DEF EndAttachment, vars
<1>2. /\ all \in File /\ Len(all) = Len(pending) + 1 /\ GoesOn(disk, all, image)
  BY <1>1, Accepted
<1>3. /\ image \in Images /\ got \in Nat /\ Size[image] \in Nat
      /\ Len(disk) \in Nat /\ Len(pending) \in Nat
      /\ Len(disk) + Len(pending) = got
      /\ disk \in File
  BY <1>1, SizeAssumption, LenProperties DEF UploadTypeOK, FileInv, File
<1>4. /\ disk' \in File /\ Begins(disk', image) /\ pending' = <<>>
      /\ flushed' \in BOOLEAN
      /\ flushed' => Len(disk') = Len(disk) + Len(all)
  BY <1>1, <1>2, <1>3, Closed
<1>5. flushed' => Len(disk') = Size[image]
  BY <1>1, <1>2, <1>3, <1>4
<1>6. pending' \in File /\ Len(pending') = 0 /\ Len(disk') \in Nat
  BY <1>4, EmptySeq, LenProperties DEF File
<1>7. GoesOn(disk', pending', image)
  BY <1>4, <1>6 DEF GoesOn, Begins
<1>8. UploadTypeOK'
  BY <1>1, <1>3, <1>4, <1>6 DEF UploadTypeOK
<1>9. FileInv'
  <2>1. GoesOn(disk, pending, image)'
    BY <1>1, <1>7 DEF GoesOn, Begins
  <2>2. \E i \in Images : Begins(saved, i)'
    BY <1>1 DEF FileInv, Begins
  <2> QED
    BY <1>1, <1>4, <2>1, <2>2 DEF FileInv
<1>10. ArrivedInv'
  <2>1. soap = "receiving" /\ soap' = "receiving"
    BY <1>1 DEF ArrivedInv
  <2>2. image # None
    BY <1>3, NoneAssumption
  <2> QED
    BY <1>1, <1>5, <2>1, <2>2 DEF ArrivedInv
<1> QED
  BY <1>8, <1>9, <1>10

\* An attachment is given up on.
LEMMA AbandonStep ==
  ASSUME UploadTypeOK, FileInv, ArrivedInv, AbandonAttachment
  PROVE  UploadTypeOK' /\ FileInv' /\ ArrivedInv'
<1>1. /\ part = "open" /\ part' = "none" /\ soap' \in {"sending", "testing"} /\ inline' = None
      /\ mime_server_write_close(pending)
      /\ UNCHANGED <<image, got, attached, brought, saved>>
  BY DEF AbandonAttachment
<1>2. /\ image \in Images /\ disk \in File /\ pending \in File
      /\ GoesOn(disk, pending, image) /\ attached = None
  BY <1>1 DEF UploadTypeOK, FileInv, ArrivedInv
<1>3. /\ disk' \in File /\ Begins(disk', image) /\ pending' = <<>>
      /\ flushed' \in BOOLEAN
  BY <1>1, <1>2, Closed
<1>4. pending' \in File /\ Len(pending') = 0 /\ Len(disk') \in Nat
  BY <1>3, EmptySeq, LenProperties DEF File
<1>5. Size[image] \in Nat
  BY <1>2, SizeAssumption
<1>6. GoesOn(disk', pending', image)
  BY <1>3, <1>4, <1>5 DEF GoesOn, Begins
<1>7. UploadTypeOK'
  BY <1>1, <1>3, <1>4 DEF UploadTypeOK
<1>8. FileInv'
  <2>1. GoesOn(disk, pending, image)'
    BY <1>1, <1>6 DEF GoesOn, Begins
  <2>2. \E i \in Images : Begins(saved, i)'
    BY <1>1 DEF FileInv, Begins
  <2> QED
    BY <1>1, <1>3, <2>1, <2>2 DEF FileInv
<1>9. ArrivedInv'
  BY <1>1, <1>2 DEF ArrivedInv
<1> QED
  BY <1>7, <1>8, <1>9

\* A message ends between two parts, to be served or not.
LEMMA EndMessageStep ==
  ASSUME UploadTypeOK, FileInv, ArrivedInv, AbandonMessage \/ EndMessage
  PROVE  UploadTypeOK' /\ FileInv' /\ ArrivedInv'
<1>1. /\ part = "between" /\ part' = "none" /\ soap' \in {"testing", "sending", "serving"}
      /\ inline' \in {inline, None}
      /\ UNCHANGED <<image, got, disk, pending, attached, flushed, brought, saved>>
  BY DEF AbandonMessage, EndMessage
<1>2. UploadTypeOK'
  BY <1>1 DEF UploadTypeOK
<1>3. FileInv'
  BY <1>1 DEF FileInv, GoesOn, Begins
<1>4. ArrivedInv'
  BY <1>1 DEF ArrivedInv
<1> QED
  BY <1>2, <1>3, <1>4

\* The operations, in which the upload does not take part.
LEMMA ServingStep ==
  ASSUME UploadTypeOK, FileInv, ArrivedInv,
         UpgradeSystemFirmware \/ OtherResponse \/ OtherCall
  PROVE  UploadTypeOK' /\ FileInv' /\ ArrivedInv'
<1>1. soap = "serving" /\ soap' \in {"sending", "calling"}
  BY DEF UpgradeSystemFirmware, OtherResponse, OtherCall, Respond, Call
<1>2. part = "none"
  BY <1>1 DEF ArrivedInv
<1>3. UNCHANGED upload /\ inline' \in {inline, None}
  BY DEF UpgradeSystemFirmware, OtherResponse, OtherCall, firmware
<1>4. inline' \in Images \cup {None}
  BY <1>3 DEF UploadTypeOK
<1>5. saved' \in File /\ \E i \in Images : Begins(saved, i)'
  <2>1. CASE UpgradeSystemFirmware
    <3>1. inline \in Images /\ saved' \in Prefixes(Content(inline))
      BY <2>1 DEF UpgradeSystemFirmware, UploadTypeOK
    <3>2. saved' \in File /\ Begins(saved', inline)
      BY <3>1, SavedFile
    <3> QED
      BY <3>1, <3>2 DEF Begins
  <2>2. CASE OtherResponse \/ OtherCall
    <3>1. saved' = saved
      BY <2>2 DEF OtherResponse, OtherCall, firmware
    <3> QED
      BY <3>1 DEF UploadTypeOK, FileInv, Begins
  <2> QED
    BY <2>1, <2>2
<1> QED
  BY <1>1, <1>2, <1>3, <1>4, <1>5, UploadKept

\* What the rest of the daemon, and its clients, do.
LEMMA ElsewhereStep ==
  ASSUME IInv, UploadTypeOK, FileInv, ArrivedInv,
         Elsewhere \/ UNCHANGED allvars
  PROVE  UploadTypeOK' /\ FileInv' /\ ArrivedInv'
<1>1. UNCHANGED <<upload, inline, saved>>
  BY DEF Elsewhere, allvars, firmware
<1>2. inline' \in Images \cup {None} /\ saved' \in File
  BY <1>1 DEF UploadTypeOK
<1>3. \E i \in Images : Begins(saved, i)'
  BY <1>1 DEF FileInv, Begins
<1>4. /\ soap = "receiving" => soap' = "receiving"
      /\ soap' \in {"serving", "calling"} => soap \in {"serving", "calling"}
  <2>1. CASE BeforeStart \/ Dispatch \/ Stop \/ SetTerminating \/ JoinAndDestroy
    BY <2>1 DEF BeforeStart, Dispatch, Stop, SetTerminating, JoinAndDestroy, IInv
  <2>2. CASE Bind \/ Test \/ Accept \/ AcceptFails \/ Sent
    BY <2>2 DEF Bind, Test, Accept, AcceptFails, Sent
  <2>3. CASE WaitResponse \/ TimeOut \/ Connect \/ Answer
    BY <2>3 DEF WaitResponse, TimeOut, Connect, Answer
  <2>4. CASE UNCHANGED allvars
    BY <2>4 DEF allvars, vars
  <2> QED
    BY <2>1, <2>2, <2>3, <2>4 DEF Elsewhere
<1>5. part # "none" => soap' = "receiving"
  BY <1>4 DEF ArrivedInv
<1> QED
  BY <1>1, <1>2, <1>3, <1>4, <1>5, UploadKept

\* The types, the file and its stream, and what has arrived are right in every
\* state, with ServerLoop's own invariant.
THEOREM FirmwareInductive == FirmwareSpec => []FInv
<1>1. FirmwareInit => UploadTypeOK /\ FileInv /\ ArrivedInv
  <2> SUFFICES ASSUME FirmwareInit PROVE UploadTypeOK /\ FileInv /\ ArrivedInv
    OBVIOUS
  <2>1. /\ part = "none" /\ image \in Images /\ got = 0
        /\ disk = <<>> /\ pending = <<>> /\ saved = <<>>
        /\ attached = None /\ flushed = TRUE /\ brought = FALSE /\ inline = None
    BY DEF FirmwareInit
  <2>2. Size[image] \in Nat
    BY <2>1, SizeAssumption
  <2>3. <<>> \in File /\ Len(<<>>) = 0
    BY EmptySeq DEF File
  <2>4. UploadTypeOK
    <3>1. got \in 0..Size[image]
      BY <2>1, <2>2
    <3>2. disk \in File /\ pending \in File /\ saved \in File
      BY <2>1, <2>3
    <3> QED
      BY <2>1, <3>1, <3>2 DEF UploadTypeOK
  <2>5. Begins(<<>>, image)
    BY <2>2, <2>3 DEF Begins
  <2>6. FileInv
    BY <2>1, <2>2, <2>3, <2>5 DEF FileInv, GoesOn
  <2>7. ArrivedInv
    BY <2>1 DEF ArrivedInv
  <2> QED
    BY <2>4, <2>6, <2>7
<1>2. IInv /\ (UploadTypeOK /\ FileInv /\ ArrivedInv) /\ [FirmwareNext]_allvars
        => (UploadTypeOK /\ FileInv /\ ArrivedInv)'
  <2> SUFFICES ASSUME IInv, UploadTypeOK, FileInv, ArrivedInv,
                      [FirmwareNext]_allvars
               PROVE  UploadTypeOK' /\ FileInv' /\ ArrivedInv'
    OBVIOUS
  <2>1. CASE ReceivePlain \/ ReceiveEnvelope
    BY <2>1, ReceivePlainStep
  <2>2. CASE mime_server_write_open
    BY <2>2, OpenStep
  <2>3. CASE mime_server_write
    BY <2>3, WriteStep
  <2>4. CASE EndAttachment
    BY <2>4, EndStep
  <2>5. CASE AbandonAttachment
    BY <2>5, AbandonStep
  <2>6. CASE AbandonMessage \/ EndMessage
    BY <2>6, EndMessageStep
  <2>7. CASE UpgradeSystemFirmware \/ OtherResponse \/ OtherCall
    BY <2>7, ServingStep
  <2>8. CASE Elsewhere \/ UNCHANGED allvars
    BY <2>8, ElsewhereStep
  <2> QED
    BY <2>1, <2>2, <2>3, <2>4, <2>5, <2>6, <2>7, <2>8 DEF FirmwareNext
<1>3. FirmwareSpec => []IInv
  BY ImplementsServerLoop, Inductive, PTL
<1> QED
  BY <1>1, <1>2, <1>3, PTL DEF FirmwareSpec, FInv

-----------------------------------------------------------------------------
(***************************************************************************)
(* What follows from it.                                                   *)
(***************************************************************************)

\* Every variable of the server thread and of the upload has its type.
THEOREM FirmwareTypeCorrect == FirmwareSpec => []FirmwareTypeOK
<1>1. FInv => FirmwareTypeOK
  BY DEF FInv, IInv, UploadTypeOK, FirmwareTypeOK, File
<1> QED
  BY <1>1, FirmwareInductive, PTL

\* Neither firmware file ever holds anything but the beginning of one image.
THEOREM FilesAreOneImage == FirmwareSpec => []FilesHoldOneImage
<1>1. FInv => FilesHoldOneImage
  BY DEF FInv, UploadTypeOK, FileInv, GoesOn, FilesHoldOneImage
<1> QED
  BY <1>1, FirmwareInductive, PTL

\* An operation that is called with an attachment finds the whole of it in the
\* file, if closing the file could flush it.
THEOREM ServedIsWhole == FirmwareSpec => []ServedMeansWhole
<1>1. FInv => ServedMeansWhole
  <2> SUFFICES ASSUME FInv PROVE ServedMeansWhole
    OBVIOUS
  <2>1. soap \in {"serving", "calling"} /\ brought => attached # None
    BY DEF FInv, ArrivedInv, UploadTypeOK
  <2>2. ASSUME attached # None, flushed PROVE disk = Content(attached)
    <3>1. attached = image /\ Len(disk) = Size[image]
      BY <2>2 DEF FInv, ArrivedInv, UploadTypeOK
    <3>2. image \in Images /\ disk \in File /\ Begins(disk, image)
      BY DEF FInv, UploadTypeOK, FileInv, GoesOn
    <3> QED
      BY <3>1, <3>2, WholeImage
  <2> QED
    BY <2>1, <2>2 DEF ServedMeansWhole
<1> QED
  BY <1>1, FirmwareInductive, PTL

\* No file is open, and nothing waits in a stream, once a request has been
\* received or given up on: in particular when finalize has joined the thread.
THEOREM NothingLeftOpen == FirmwareSpec => []NoFileLeftOpen
<1>1. FInv => NoFileLeftOpen
  BY DEF FInv, FileInv, ArrivedInv, NoFileLeftOpen
<1> QED
  BY <1>1, FirmwareInductive, PTL

-----------------------------------------------------------------------------
(***************************************************************************)
(* What ends.  The provers cannot see when a step is ENABLED, so that is   *)
(* the theorems' hypothesis: each thread can take the step it is at.  The  *)
(* thread that serves then comes to send its response, for an operation    *)
(* makes no more than MaxCalls calls and each wait ends.                   *)
(***************************************************************************)
CanGoOn ==
  /\ loop = "joining" /\ soap = "ended" =>
       ENABLED <<JoinAndDestroy /\ UNCHANGED firmware>>_allvars
  /\ soap = "binding" => ENABLED <<Bind /\ UNCHANGED firmware>>_allvars
  /\ soap = "testing" => ENABLED <<Test /\ UNCHANGED firmware>>_allvars
  /\ soap = "accepting" /\ backlog > 0 =>
       ENABLED <<Accept /\ UNCHANGED firmware>>_allvars
  /\ soap = "serving" =>
       ENABLED <<OtherCall \/ UpgradeSystemFirmware \/ OtherResponse>>_allvars
  /\ soap = "calling" =>
       ENABLED <<(WaitResponse \/ TimeOut) /\ UNCHANGED firmware>>_allvars

\* Where the SOAP thread goes from each place, and finalize from the join.
LEMMA ThreadSteps ==
  ASSUME IInv, [Next]_vars
  PROVE  /\ soap = "binding" => soap' \in {"binding", "testing", "ended"}
         /\ soap = "testing" => soap' \in {"testing", "accepting", "ended"}
         /\ soap = "testing" /\ loop = "joining" => soap' # "accepting"
         /\ soap = "accepting" => soap' \in {"accepting", "receiving", "ended"}
         /\ soap = "receiving" => soap' \in {"receiving", "serving", "sending", "testing"}
         /\ soap = "serving" => soap' \in {"serving", "calling", "sending"}
         /\ soap = "calling" => soap' \in {"calling", "serving"}
         /\ soap = "sending" => soap' \in {"sending", "testing"}
         /\ soap = "ended" => soap' = "ended"
         /\ loop = "joining" => loop' \in {"joining", "gone"}
<1>1. CASE Bind \/ Test \/ Accept \/ AcceptFails \/ Receive \/ Sent
  BY <1>1 DEF Bind, Test, Accept, AcceptFails, Receive, Sent, IInv
<1>2. CASE Call \/ Respond \/ WaitResponse \/ TimeOut \/ Connect \/ Answer
  BY <1>2 DEF Call, Respond, WaitResponse, TimeOut, Connect, Answer
<1>3. CASE BeforeStart \/ Dispatch \/ Stop \/ SetTerminating \/ JoinAndDestroy
  BY <1>3 DEF BeforeStart, Dispatch, Stop, SetTerminating, JoinAndDestroy, IInv
<1>4. CASE UNCHANGED vars
  BY <1>4 DEF vars
<1> QED
  BY <1>1, <1>2, <1>3, <1>4 DEF Next

\* An operation is under way.
Busy == soap \in {"serving", "calling"}

\* An operation that has made n calls ends, or comes to make m.
Serves(n, m) ==
  FairFirmwareSpec /\ []CanGoOn =>
    (Busy /\ calls >= n ~> soap = "sending" \/ (Busy /\ calls >= m))
ServeLeap(d) == \A n \in Nat : Serves(n, n + d)

\* Calls are counted until the operation ends.
LEMMA CallsGrow ==
  ASSUME IInv, Busy, [Next]_vars
  PROVE  /\ soap' = "sending" \/ (Busy' /\ calls' \in Nat /\ calls' >= calls)
         /\ calls \in Nat
         /\ soap = "serving" /\ soap' = "calling" => calls' >= calls + 1
<1>1. calls \in Nat
  BY DEF IInv, TypeOK
<1>2. CASE Call \/ Respond \/ WaitResponse \/ TimeOut \/ Connect \/ Answer
  BY <1>1, <1>2 DEF Call, Respond, WaitResponse, TimeOut, Connect, Answer, Busy
<1>3. CASE BeforeStart \/ Dispatch \/ Stop \/ SetTerminating \/ JoinAndDestroy
  BY <1>1, <1>3, ThreadSteps
  DEF BeforeStart, Dispatch, Stop, SetTerminating, JoinAndDestroy, Busy
<1>4. CASE UNCHANGED vars
  BY <1>1, <1>4 DEF vars, Busy
<1> QED
  BY <1>2, <1>3, <1>4
  DEF Next, Busy, Bind, Test, Accept, AcceptFails, Receive, Sent

\* One call: the operation ends, or makes another one.
LEMMA OneCall == ServeLeap(1)
<1> SUFFICES ASSUME NEW n \in Nat PROVE Serves(n, n + 1)
  BY DEF ServeLeap
<1> DEFINE S == soap = "serving" /\ calls >= n
           C == soap = "calling" /\ calls >= n
           M == Busy /\ calls >= n + 1
<1>1. IInv /\ S /\ [Next]_vars => S' \/ M' \/ (soap = "sending")'
  BY CallsGrow DEF Busy
<1>2. S /\ <<OtherCall \/ UpgradeSystemFirmware \/ OtherResponse>>_allvars
        => ~S' \/ (soap = "sending")'
  BY DEF OtherCall, UpgradeSystemFirmware, OtherResponse, Call, Respond
<1>3. IInv /\ C /\ [Next]_vars => C' \/ S'
  BY CallsGrow, ThreadSteps DEF Busy
<1>4. C /\ <<(WaitResponse \/ TimeOut) /\ UNCHANGED firmware>>_allvars => ~C'
  BY DEF WaitResponse, TimeOut
<1>5. Busy /\ calls >= n <=> S \/ C
  BY DEF Busy
<1>6. S => soap = "serving"
  OBVIOUS
<1>7. C => soap = "calling"
  OBVIOUS
<1>8. FairFirmwareSpec => []IInv /\ [][Next]_vars
  BY ImplementsServerLoop, Inductive, PTL DEF Spec, FairFirmwareSpec
<1> QED
  BY <1>1, <1>2, <1>3, <1>4, <1>5, <1>6, <1>7, <1>8,
     PTL DEF Serves, FairFirmwareSpec, FirmwareFairness, CanGoOn

\* Twice as many.
LEMMA TwiceTheCalls ==
  ASSUME NEW d \in Nat, ServeLeap(d) PROVE ServeLeap(2 * d)
<1> SUFFICES ASSUME NEW n \in Nat PROVE Serves(n, n + 2 * d)
  BY DEF ServeLeap
<1>1. Serves(n, n + d)
  BY DEF ServeLeap
<1>2. Serves(n + d, (n + d) + d)
  BY DEF ServeLeap
<1>3. Serves(n + d, n + 2 * d)
  BY <1>2
<1> QED
  BY <1>1, <1>3, PTL DEF Serves

LEMMA SixteenTimesTheCalls ==
  ASSUME NEW d \in Nat, ServeLeap(d) PROVE ServeLeap(16 * d)
<1>1. ServeLeap(2 * d)
  BY TwiceTheCalls
<1>2. ServeLeap(2 * (2 * d))
  BY <1>1, TwiceTheCalls
<1>3. ServeLeap(2 * (2 * (2 * d)))
  BY <1>2, TwiceTheCalls
<1>4. ServeLeap(2 * (2 * (2 * (2 * d))))
  BY <1>3, TwiceTheCalls
<1> QED
  BY <1>4

\* However many calls an operation makes, up to 65536, it ends.
LEMMA OperationsEnd ==
  ASSUME MaxCalls < 65536
  PROVE  FairFirmwareSpec /\ []CanGoOn => (Busy ~> soap = "sending")
<1>1. ServeLeap(16 * 1)
  BY OneCall, SixteenTimesTheCalls
<1>2. ServeLeap(16 * 16)
  BY <1>1, SixteenTimesTheCalls
<1>3. ServeLeap(16 * 256)
  BY <1>2, SixteenTimesTheCalls
<1>4. ServeLeap(16 * 4096)
  BY <1>3, SixteenTimesTheCalls
<1>5. Serves(0, 0 + 16 * 4096)
  BY <1>4 DEF ServeLeap
<1>6. Serves(0, 65536)
  BY <1>5
<1>7. IInv => calls >= 0 /\ ~(calls >= 65536)
  BY MaxCallsAssumption DEF IInv, TypeOK
<1>8. FairFirmwareSpec => []IInv
  BY ImplementsServerLoop, Inductive, PTL DEF FairFirmwareSpec
<1> QED
  BY <1>6, <1>7, <1>8, PTL DEF Serves

\* The service ends once it is asked to, wherever the SOAP thread is, unless that
\* waits for ever for a client to connect, to send or to read.
THEOREM ServiceEnds ==
  ASSUME MaxCalls < 65536
  PROVE  FairFirmwareSpec /\ []CanGoOn => FinalizeEnds
<1>1. FairFirmwareSpec => []IInv /\ [][Next]_vars
  BY ImplementsServerLoop, Inductive, PTL DEF Spec, FairFirmwareSpec
<1>2. IInv /\ loop = "joining" /\ [Next]_vars => (loop = "joining")' \/ (loop = "gone")'
  BY ThreadSteps
<1>3. IInv /\ loop = "joining" /\ soap = "testing" /\ [Next]_vars
        => (soap = "testing")' \/ (soap = "ended")'
  BY ThreadSteps
<1>4. IInv /\ loop = "joining" /\ <<Test /\ UNCHANGED firmware>>_allvars
        => (soap = "ended")'
  BY DEF IInv, Test
<1>5. IInv /\ soap = "binding" /\ [Next]_vars
        => (soap = "binding")' \/ (soap = "testing")' \/ (soap = "ended")'
  BY ThreadSteps
<1>6. <<Bind /\ UNCHANGED firmware>>_allvars => (soap = "testing")' \/ (soap = "ended")'
  BY DEF Bind
<1>7. IInv /\ soap = "ended" /\ [Next]_vars => (soap = "ended")'
  BY ThreadSteps
<1>8. <<JoinAndDestroy /\ UNCHANGED firmware>>_allvars => (loop = "gone")'
  BY DEF JoinAndDestroy
<1>9. IInv /\ loop = "joining" =>
        \/ soap = "binding" \/ soap = "testing" \/ soap = "ended" \/ Busy
        \/ soap \in {"accepting", "receiving", "sending"}
  BY DEF IInv, TypeOK, SoapStates, Busy
<1>10. IInv /\ soap = "sending" /\ [Next]_vars => (soap = "sending")' \/ (soap = "testing")'
  BY ThreadSteps
<1>11. soap = "sending" => soap \in {"accepting", "receiving", "sending"}
  OBVIOUS
<1> QED
  BY <1>1, <1>2, <1>3, <1>4, <1>5, <1>6, <1>7, <1>8, <1>9, <1>10, <1>11, OperationsEnd,
     PTL DEF FairFirmwareSpec, FirmwareFairness, CanGoOn, FinalizeEnds

-----------------------------------------------------------------------------
(***************************************************************************)
(* Clients are accepted.  The argument counts them.                        *)
(***************************************************************************)
Admitted == clients - backlog

\* Nobody connects before the socket is bound.
BindFirst == soap \in {"none", "binding"} => backlog = 0

LEMMA BoundBeforeClients == Spec => []BindFirst
<1>1. Init => BindFirst
  BY DEF Init, BindFirst
<1>2. IInv /\ BindFirst /\ [Next]_vars => BindFirst'
  <2> SUFFICES ASSUME IInv, BindFirst, [Next]_vars PROVE BindFirst'
    OBVIOUS
  <2>1. CASE Bind \/ Test \/ Accept \/ AcceptFails \/ Receive \/ Sent
    BY <2>1 DEF Bind, Test, Accept, AcceptFails, Receive, Sent, BindFirst
  <2>2. CASE Call \/ Respond \/ WaitResponse \/ TimeOut \/ Connect \/ Answer
    BY <2>2 DEF Call, Respond, WaitResponse, TimeOut, Connect, Answer, BindFirst
  <2>3. CASE BeforeStart \/ Dispatch \/ Stop \/ SetTerminating \/ JoinAndDestroy
    BY <2>3 DEF BeforeStart, Dispatch, Stop, SetTerminating, JoinAndDestroy,
                BindFirst, IInv
  <2>4. CASE UNCHANGED vars
    BY <2>4 DEF vars, BindFirst
  <2> QED
    BY <2>1, <2>2, <2>3, <2>4 DEF Next
<1> QED
  BY <1>1, <1>2, Inductive, PTL DEF Spec

\* The thread accepts one client after the other, and takes none back.
LEMMA AdmittedGrows ==
  ASSUME IInv, [Next]_vars
  PROVE  /\ Admitted \in Nat /\ Admitted' \in Nat /\ Admitted' >= Admitted
         /\ Accept => Admitted' = Admitted + 1
         /\ soap = "accepting" => soap' \in {"accepting", "ended"} \/ Accept
<1>1. clients \in Nat /\ backlog \in Nat /\ backlog <= clients
  BY MaxClientsAssumption DEF IInv, TypeOK
<1>2. CASE Accept
  BY <1>1, <1>2 DEF Accept, Admitted
<1>3. CASE Connect
  BY <1>1, <1>3 DEF Connect, Admitted, Accept
<1>4. CASE Bind \/ Test \/ AcceptFails \/ Receive \/ Sent
  BY <1>1, <1>4 DEF Bind, Test, AcceptFails, Receive, Sent, Admitted, Accept
<1>5. CASE Call \/ Respond \/ WaitResponse \/ TimeOut \/ Answer
  BY <1>1, <1>5 DEF Call, Respond, WaitResponse, TimeOut, Answer, Admitted, Accept
<1>6. CASE BeforeStart \/ Dispatch \/ Stop \/ SetTerminating \/ JoinAndDestroy
  BY <1>1, <1>6 DEF BeforeStart, Dispatch, Stop, SetTerminating, JoinAndDestroy,
                    Admitted, Accept, IInv
<1>7. CASE UNCHANGED vars
  BY <1>1, <1>7 DEF vars, Admitted, Accept
<1> QED
  BY <1>2, <1>3, <1>4, <1>5, <1>6, <1>7 DEF Next

ServedInTheEnd == Busy ~> soap = "sending"

\* Nobody has to be accepted any more, or nobody will be.
NoMore == backlog = 0 \/ terminating \/ soap = "ended"

\* The thread waits for its client, to send or to read.
WithClient == soap \in {"receiving", "sending"}

\* From n clients the thread comes to m, or is not to.
Accepts(n, m) ==
  FairFirmwareSpec /\ []CanGoOn /\ ServedInTheEnd =>
    (Admitted >= n ~> Admitted >= m \/ NoMore \/ []WithClient)
AcceptLeap(d) == \A n \in Nat : Accepts(n, n + d)

\* One client: whatever the thread is doing, it comes back to accept.
LEMMA OneClient == AcceptLeap(1)
<1> SUFFICES ASSUME NEW n \in Nat PROVE Accepts(n, n + 1)
  BY DEF AcceptLeap
<1>1. IInv /\ Admitted >= n /\ [Next]_vars => (Admitted >= n)'
  BY AdmittedGrows
<1>2. IInv /\ soap = "testing" /\ [Next]_vars
        => (soap = "testing")' \/ (soap = "accepting")' \/ (soap = "ended")'
  BY ThreadSteps
<1>3. <<Test /\ UNCHANGED firmware>>_allvars => ~(soap = "testing")'
  BY DEF Test
<1>4. IInv /\ Admitted >= n /\ soap = "accepting" /\ [Next]_vars
        => (soap = "accepting")' \/ (soap = "ended")' \/ (Admitted >= n + 1)'
  BY AdmittedGrows
<1>5. <<Accept /\ UNCHANGED firmware>>_allvars => ~(soap = "accepting")'
  BY DEF Accept
<1>6. IInv /\ soap = "receiving" /\ [Next]_vars
        => (soap = "receiving")' \/ (soap = "testing")' \/ (soap = "sending")' \/ Busy'
  BY ThreadSteps DEF Busy
<1>7. IInv /\ BindFirst /\ ~NoMore =>
        /\ backlog > 0
        /\ \/ soap = "testing" \/ soap = "accepting"
           \/ soap = "receiving" \/ soap = "sending" \/ Busy
  <2>1. IInv => backlog \in Nat /\ soap \in SoapStates
    BY MaxClientsAssumption DEF IInv, TypeOK
  <2> QED
    BY <2>1 DEF BindFirst, NoMore, SoapStates, Busy
<1>8. soap = "ended" => NoMore
  BY DEF NoMore
<1>9. FairFirmwareSpec => []IInv /\ []BindFirst /\ [][Next]_vars
  BY ImplementsServerLoop, Inductive, BoundBeforeClients,
     PTL DEF Spec, FairFirmwareSpec
<1>10. IInv /\ soap = "sending" /\ [Next]_vars => (soap = "sending")' \/ (soap = "testing")'
  BY ThreadSteps
<1>11. WithClient <=> soap = "receiving" \/ soap = "sending"
  BY DEF WithClient
<1> QED
  BY <1>1, <1>2, <1>3, <1>4, <1>5, <1>6, <1>7, <1>8, <1>9, <1>10, <1>11,
     PTL DEF Accepts, ServedInTheEnd, FairFirmwareSpec, FirmwareFairness, CanGoOn

\* Twice as many.
LEMMA TwiceTheClients ==
  ASSUME NEW d \in Nat, AcceptLeap(d) PROVE AcceptLeap(2 * d)
<1> SUFFICES ASSUME NEW n \in Nat PROVE Accepts(n, n + 2 * d)
  BY DEF AcceptLeap
<1>1. Accepts(n, n + d)
  BY DEF AcceptLeap
<1>2. Accepts(n + d, (n + d) + d)
  BY DEF AcceptLeap
<1>3. Accepts(n + d, n + 2 * d)
  BY <1>2
<1> QED
  BY <1>1, <1>3, PTL DEF Accepts

LEMMA SixteenTimesTheClients ==
  ASSUME NEW d \in Nat, AcceptLeap(d) PROVE AcceptLeap(16 * d)
<1>1. AcceptLeap(2 * d)
  BY TwiceTheClients
<1>2. AcceptLeap(2 * (2 * d))
  BY <1>1, TwiceTheClients
<1>3. AcceptLeap(2 * (2 * (2 * d)))
  BY <1>2, TwiceTheClients
<1>4. AcceptLeap(2 * (2 * (2 * (2 * d))))
  BY <1>3, TwiceTheClients
<1> QED
  BY <1>4

\* Whoever connects is accepted, even if no call is ever answered, unless the
\* thread waits for ever for a connected client to send or to read: for up to 2^32
\* clients.
THEOREM EveryClientAccepted ==
  ASSUME MaxCalls < 65536, MaxClients < 4294967296
  PROVE  FairFirmwareSpec /\ []CanGoOn => ClientsAreAccepted
<1>1. AcceptLeap(16 * 1)
  BY OneClient, SixteenTimesTheClients
<1>2. AcceptLeap(16 * 16)
  BY <1>1, SixteenTimesTheClients
<1>3. AcceptLeap(16 * 256)
  BY <1>2, SixteenTimesTheClients
<1>4. AcceptLeap(16 * 4096)
  BY <1>3, SixteenTimesTheClients
<1>5. AcceptLeap(16 * 65536)
  BY <1>4, SixteenTimesTheClients
<1>6. AcceptLeap(16 * 1048576)
  BY <1>5, SixteenTimesTheClients
<1>7. AcceptLeap(16 * 16777216)
  BY <1>6, SixteenTimesTheClients
<1>8. AcceptLeap(16 * 268435456)
  BY <1>7, SixteenTimesTheClients
<1>9. Accepts(0, 0 + 16 * 268435456)
  BY <1>8 DEF AcceptLeap
<1>10. Accepts(0, 4294967296)
  BY <1>9
<1>11. IInv => Admitted >= 0 /\ ~(Admitted >= 4294967296)
  BY MaxClientsAssumption DEF IInv, TypeOK, Admitted
<1>12. FairFirmwareSpec /\ []CanGoOn => ServedInTheEnd
  BY OperationsEnd DEF ServedInTheEnd
<1>13. FairFirmwareSpec => []IInv
  BY ImplementsServerLoop, Inductive, PTL DEF FairFirmwareSpec
<1>14. NoMore <=> backlog = 0 \/ terminating \/ soap = "ended"
  BY DEF NoMore
<1>15. WithClient <=> soap \in {"receiving", "sending"}
  BY DEF WithClient
<1> QED
  BY <1>10, <1>11, <1>12, <1>13, <1>14, <1>15, PTL DEF Accepts, ClientsAreAccepted
=============================================================================
