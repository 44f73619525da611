------------------------------ MODULE Firmware ------------------------------
(***************************************************************************)
(* The upload of a firmware image to the daemon, inside the SOAP thread of *)
(* ServerLoop.  An image comes with a request in one of two ways:          *)
(*   - as a MIME attachment: gSOAP hands it on in chunks, while it         *)
(*     receives the request, to the three callbacks of onvif-server.c,     *)
(*     which write LOCAL_STATE_DIR/firmware/firmware.bin; the operation is *)
(*     called only when all parts have been received;                      *)
(*   - inside the envelope: UpgradeSystemFirmware writes ./firmware.bin.   *)
(*                                                                         *)
(* What fwrite accepts stays in the stream's buffer until it is flushed,   *)
(* which may fail, at the latest in fclose, whose result nobody looks at.  *)
(* ServerLoop's Receive is here several steps: the client may stop, or the *)
(* connection be cut off, between any two; so may the service.             *)
(***************************************************************************)
EXTENDS ServerLoop, Sequences

CONSTANTS Images,  \* the images clients send
          Size,    \* the number of chunks each is written in, one or more
          None     \* no image

ASSUME SizeAssumption == Size \in [Images -> Nat \ {0}]
ASSUME NoneAssumption == None \notin Images

VARIABLES
  part,      \* what arrives: nothing, a further part, or an attachment ("open")
  image,     \* the image that arrives as an attachment, or arrived last
  got,       \* the chunks of it handed on
  disk,      \* LOCAL_STATE_DIR/firmware/firmware.bin
  pending,   \* what its stream has accepted and not flushed
  attached,  \* history: the image that arrived last, once it has arrived
  flushed,   \* history: closing its stream wrote all that was pending
  brought,   \* history: the request has brought an attachment
  inline,    \* the image in the envelope
  saved      \* ./firmware.bin

upload == <<part, image, got, disk, pending, attached, flushed, brought>>
firmware == <<upload, inline, saved>>
allvars == <<vars, firmware>>

\* The n-th chunk of an image, and the whole.
Chunk(i, n) == <<i, n>>
Content(i)  == [n \in 1..Size[i] |-> Chunk(i, n)]

Prefixes(s) == {SubSeq(s, 1, n) : n \in 0..Len(s)}

\* The service starts with no upload under way, and no image in the files.
FirmwareInit ==
  /\ Init
  /\ part = "none" /\ image \in Images /\ got = 0
  /\ disk = <<>> /\ pending = <<>>
  /\ attached = None /\ flushed = TRUE /\ brought = FALSE
  /\ inline = None /\ saved = <<>>

-----------------------------------------------------------------------------
(***************************************************************************)
(* Receiving a request (soap_serve).                                       *)
(***************************************************************************)

\* A message without attachments, or none.
ReceivePlain ==
  /\ part = "none"
  /\ Receive
  /\ inline' \in Images \cup {None}
  /\ brought' = FALSE
  /\ UNCHANGED <<part, image, got, disk, pending, attached, flushed, saved>>

\* The first part of a MIME message is the envelope.
ReceiveEnvelope ==
  /\ soap = "receiving"
  /\ part = "none"
  /\ part' = "between"
  /\ inline' \in Images \cup {None}
  /\ brought' = FALSE
  /\ UNCHANGED <<vars, image, got, disk, pending, attached, flushed, saved>>

\* Mutant: the file is opened for appending.
mime_server_write_open_append ==
  /\ part = "between"
  /\ part' = "open"
  /\ image' \in Images
  /\ got' = 0
  /\ attached' = None
  /\ brought' = TRUE
  /\ UNCHANGED <<vars, disk, pending, flushed, inline, saved>>

\* A further part begins, and fopen empties the file.
mime_server_write_open ==
  /\ part = "between"
  /\ part' = "open"
  /\ image' \in Images
  /\ got' = 0
  /\ disk' = <<>>
  /\ attached' = None
  /\ brought' = TRUE
  /\ UNCHANGED <<vars, pending, flushed, inline, saved>>

\* A chunk that is not the last one: the stream keeps it or flushes.  A chunk is
\* what one fwrite takes, so that a short write and its retry are two of them.
mime_server_write ==
  /\ part = "open"
  /\ got + 1 < Size[image]
  /\ got' = got + 1
  /\ LET all == Append(pending, Chunk(image, got + 1))
     IN  \/ disk' = disk /\ pending' = all
         \/ disk' = disk \o all /\ pending' = <<>>
  /\ UNCHANGED <<vars, part, image, attached, flushed, brought, inline, saved>>

\* fclose: as much of s as can be is written, and the rest is gone.
mime_server_write_close(s) ==
  /\ \E written \in Prefixes(s) :
       /\ disk' = disk \o written
       /\ flushed' = (written = s)
  /\ pending' = <<>>

\* The boundary: the last chunk is handed on, accepted, and the file closed.
EndAttachment ==
  /\ part = "open"
  /\ got + 1 = Size[image]
  /\ mime_server_write_close(Append(pending, Chunk(image, got + 1)))
  /\ part' = "between"
  /\ got' = got + 1
  /\ attached' = image
  /\ UNCHANGED <<vars, image, brought, inline, saved>>

\* Mutant: an attachment given up on is not closed.
AbandonAttachment_open ==
  /\ part = "open"
  /\ Receive /\ soap' \in {"sending", "testing"}
  /\ part' = "none"
  /\ inline' = None
  /\ UNCHANGED <<image, got, disk, pending, flushed, attached, brought, saved>>

\* The connection is cut off, or fwrite writes nothing: the file is closed as
\* it is, and the request answered with a fault, if at all.
AbandonAttachment ==
  /\ part = "open"
  /\ Receive /\ soap' \in {"sending", "testing"}
  /\ mime_server_write_close(pending)
  /\ part' = "none"
  /\ inline' = None
  /\ UNCHANGED <<image, got, attached, brought, saved>>

\* Between two parts: fopen fails, which leaves the file as it is, or the next
\* part's header is wrong or does not come.
AbandonMessage ==
  /\ part = "between"
  /\ Receive /\ soap' \in {"sending", "testing"}
  /\ part' = "none"
  /\ inline' = None
  /\ UNCHANGED <<image, got, disk, pending, attached, flushed, brought, saved>>

\* Mutant: the operation is called before the attachments have arrived.
EndMessage_early ==
  /\ part \in {"between", "open"}
  /\ Receive /\ soap' = "serving"
  /\ part' = "none"
  /\ UNCHANGED <<image, got, disk, pending, attached, flushed, brought, inline, saved>>

\* The closing boundary: soap_end_recv returns, and the operation is called.
EndMessage ==
  /\ part = "between"
  /\ Receive /\ soap' = "serving"
  /\ part' = "none"
  /\ UNCHANGED <<image, got, disk, pending, attached, flushed, brought, inline, saved>>

-----------------------------------------------------------------------------
(***************************************************************************)
(* The operations.                                                         *)
(***************************************************************************)

\* UpgradeSystemFirmware with data in the envelope, its client let in: the
\* file is written as far as it can be, and the response is SOAP_OK.
UpgradeSystemFirmware ==
  /\ inline # None
  /\ Respond
  /\ saved' \in Prefixes(Content(inline))
  /\ inline' = None
  /\ UNCHANGED upload

\* Any other end of an operation: it does not look at the image in the
\* envelope, was refused, could not open the file, or finds an attachment (whose
\* size stays 0 when a callback has taken the data).
OtherResponse ==
  /\ Respond
  /\ inline' = None
  /\ UNCHANGED <<upload, saved>>

\* An operation that calls iconfig has no image in its envelope.
OtherCall == inline = None /\ Call /\ UNCHANGED firmware

Elsewhere ==
  /\ \/ BeforeStart \/ Dispatch \/ Stop \/ SetTerminating \/ JoinAndDestroy
     \/ Bind \/ Test \/ Accept \/ AcceptFails \/ Sent
     \/ WaitResponse \/ TimeOut \/ Connect \/ Answer
  /\ UNCHANGED firmware

FirmwareNext ==
  \/ ReceivePlain \/ ReceiveEnvelope \/ mime_server_write_open
  \/ mime_server_write \/ EndAttachment \/ AbandonAttachment
  \/ AbandonMessage \/ EndMessage
  \/ UpgradeSystemFirmware \/ OtherResponse \/ OtherCall \/ Elsewhere

FirmwareSpec == FirmwareInit /\ [][FirmwareNext]_allvars

\* ServerLoop's fairness, step by step: nothing is assumed of clients.
FirmwareFairness ==
  /\ WF_allvars(SetTerminating /\ UNCHANGED firmware)
  /\ WF_allvars(JoinAndDestroy /\ UNCHANGED firmware)
  /\ WF_allvars(Bind /\ UNCHANGED firmware)
  /\ WF_allvars(Test /\ UNCHANGED firmware)
  /\ WF_allvars(Accept /\ UNCHANGED firmware)
  /\ WF_allvars(OtherCall \/ UpgradeSystemFirmware \/ OtherResponse)
  /\ WF_allvars((WaitResponse \/ TimeOut) /\ UNCHANGED firmware)

FairFirmwareSpec == FirmwareSpec /\ FirmwareFairness

-----------------------------------------------------------------------------
\* Every variable has its type.
FirmwareTypeOK ==
  /\ TypeOK
  /\ part \in {"none", "between", "open"}
  /\ image \in Images
  /\ got \in 0..Size[image]
  /\ disk \in Seq(Images \X Nat)
  /\ pending \in Seq(Images \X Nat)
  /\ attached \in Images \cup {None}
  /\ flushed \in BOOLEAN
  /\ brought \in BOOLEAN
  /\ inline \in Images \cup {None}
  /\ saved \in Seq(Images \X Nat)

\* s is the first Len(s) chunks of image i.
Begins(s, i) == Len(s) <= Size[i] /\ \A n \in 1..Len(s) : s[n] = Chunk(i, n)

\* However uploads fail and follow one another, each file holds the beginning
\* of one image, never parts of two, or parts out of order.
FilesHoldOneImage ==
  /\ \E i \in Images : Begins(disk, i)
  /\ \E i \in Images : Begins(saved, i)

\* An operation whose request brought attachments runs only when the file holds
\* the last of them, whole, and the file stays so until the next one arrives,
\* whatever else is served; unless the last flush failed, which fclose tells
\* and mime_server_write_close does not.
ServedMeansWhole ==
  /\ soap \in {"serving", "calling"} /\ brought => attached # None
  /\ attached # None /\ flushed => disk = Content(attached)

\* The SOAP thread leaves no file open behind a request, and so none when the
\* service ends in the middle of an upload: all that was accepted is written,
\* or was lost at the close.
NoFileLeftOpen ==
  soap # "receiving" => part = "none" /\ pending = <<>>
=============================================================================
