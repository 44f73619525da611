# A verification project for ionvif

ionvif is the ONVIF side of an IP camera: one daemon that serves the ONVIF SOAP
services (device management, users, network, media) and one that answers
WS-Discovery probes.  Neither keeps settings of its own: both are clients of
*iconfig*, the camera's configuration service, which they reach through the base
service of libipcam over ZeroMQ.  iconfig and the base service are not in the
repository; they are modelled from how the code uses them and marked external.

The project holds TLA+ modules of the daemons' own logic, TLC configurations that
check them on small instances, and TLAPS proofs for every value of the constants.

    tlc -workers 2 -config UserSync.cfg MCUserSync.tla      # check a run
    tlapm Netmask_proofs.tla                                # check a proof

`PROJECT.json` lists the runs, a mutant of the code for every checked property, the
source lines each definition stands for, the hazards and the theorems.

## 1. Inventory

Two threads share the state of the daemon `src/src/ionvif.c`:

- the **loop thread** of the base service: it runs `before_start`, then hands on
  replies and notices from iconfig, and at the end finalizes the object;
- the **SOAP thread** (`onvif_server_thread_func`), created in `before_start`: it
  accepts one connection after the other, serves its requests to the end, and for
  most of them calls iconfig and waits.

`priv->mutex` protects the two hash tables they share, `cached_property_hash` (the
settings a handler reads without a call) and `cached_users_hash` (the accounts
`onvif_access_control` reads).  The loop thread writes both, the SOAP thread reads.

| Component | State | Operations | Talks to | What is hard | What makes it correct |
|---|---|---|---|---|---|
| Account table copy (`ionvif.c`, `ipcam-ionvif-event-handler.c`) | `cached_users_hash` | startup request, its reply or expiry, three notices | iconfig (request, notices), access control (reads) | a snapshot and a stream of changes on separate connections; loss; expiry | what can be wrong is known exactly, and it converges |
| Calls to iconfig (`onvif_invocate_action`) | the message id waited for | send, wait at most 10 s, return | every handler; the base service hands over the reply | replies that come late, requests that take effect late | an answer is this call's; a call always returns; late sets stay in order |
| Startup (`ipcam_ionvif_before_start`) | which sections are filled | five requests, their replies, expiry | iconfig; the SOAP thread already serves | order, partial fill, requests never repeated | a client that is let in finds what it asks for |
| Settings cache (`cached_property_hash`) | key to value | update on reply and notice, `get_property` | loop thread writes, SOAP thread reads | updates key by key, pointers handed out behind the lock | one setting, or a stated mix; no use after free |
| Media profiles (`onvif_impl.c`, `onvif-media.c`) | static tables of source, source configuration, encoders | read of a profile, both profiles, set | iconfig (`get_video`, `set_video`) | tables shared by two profiles, refreshed only if iconfig answers | tables are consistent; a resolution survives its name |
| SOAP server thread (`onvif-server.c`) | where the thread is, `terminating` | bind, accept, serve, end; stop and join | clients, loop thread | stop in the middle of anything; silent clients | the stop ends, one client later at most; clients are accepted whatever iconfig does |
| Netmask conversions (`onvif-network-mgmt.c`) | loop variables | prefix length to netmask and back | network handlers | shifts that run out of the word | the two are inverse |
| Discovery daemon (`discovery/`) | `struct NetworkParameters` | probe: two calls, one match | iconfig, multicast | each call fails on its own; settings change meanwhile | a probe's match is of that probe |
| Account handlers (`onvif-user-mgmt.c`, `onvif-auth.c`) | the token of the request, the password looked up | access control in two steps; `CreateUsers`, `SetUser`, `DeleteUsers` | account copy (reads), iconfig (changes) | the password is compared outside the lock; a change comes back as a notice | a login is decided as the table of one moment says |
| Network, device handlers | none of their own | get and set operations | iconfig, both tables | outcomes of calls that are ignored; a cache read before access control | what a client is told is so |
| Firmware upload (`onvif-server.c`, `onvif-device-mgmt.c`) | the file being written | attachment open, write, close; upgrade | gSOAP calls it while it receives | partial files, several attachments, flushes that fail, the stop | the operation finds the image whole; nothing stays open |

Left aside: `soapTester.c` (generated defaults without state), `gsoap-2.8` (third
party), the WSDL files (interface definitions, quoted where the code departs from
them), `discovery/ionvif.c` and `discovery/ionvif-discovery.c` (not among the sources
`src/src/discovery/Makefile.am` builds), the two `main.c`, and the digest of
`onvif-auth.c` (a computation without state).  Access control is compiled in by
default (`configure.ac` turns OpenSSL on), and the models have it.

The hazards this code is exposed to are listed in `PROJECT.json`, each at its line.

## 2. The modules

Each module's head comment says what it abstracts; a comment before a definition
names the code behaviour where the name does not.  Definitions keep the source's
names where they translate a function (`update_users`, `delete_users`,
`onvif_access_control`, `Bounds`).  Operators marked "Mutant" are wrong versions of
the definition below them, by which each property is shown to bite.

**UserSync** — the account table copy.  iconfig's table is the sequence `log` of its
revisions, each with the change that made it, so that "what iconfig had when" can be
said; `cursor` is the last revision whose notice was taken from the channel.
`SendGetUsers`, `AnswerGetUsers`, `MergeReply` and `IgnoreReply` are the startup
request; `HandleNotice` is `event_handler_run_impl`; `LoseNotice` is the channel.
Each holds the mutex over its whole array in the code, hence one step each.

**AccountService** — the composition of the account copy with access control and the
operations that change accounts.  `LookUp` is `ionvif_get_user_password`, under the
mutex; `soap_verify_password` compares later, outside it, so `Free` marks what the
SOAP thread holds when the loop thread replaces or removes that entry, and a freed
password compares either way.  `CreateUsers`, `SetUser` and `DeleteUsers` put their
request in `queue`; `Serve` makes it a revision of UserSync's `log`, or refuses or
loses it.  Each step is a step of UserSync or leaves its variables alone.

**Rpc** — the abstract call: it takes effect at one instant while it is made, or the
caller gives up, and then it may have taken effect, may take effect later, or never.

**Invocation** — `onvif_invocate_action`: `SendMessage`, then `WaitResponse` (the
reply with this id) or `TimeOut`; requests and replies of calls given up on stay in
the queues and meet the next call.  It implements Rpc under the mapping `CallOf`,
`LateOf`, `ReturnedOf`.  The other modules rely on this: in MediaProfiles and
Discovery a call is one step that is answered or not, in SettingsSync likewise.

**Startup** — `before_start` and the handlers that read what it fills: `Order` is
the order of the requests; `HandleReply`, `Expire` and `HandleNotice` run only once
all are sent, because the loop runs only then; the `Get...` actions are readers, one for
each way an operation treats a section that is missing.  `GetDeviceInformation` is two
steps, since it reads before it asks for access and the accounts can arrive in between.

**SettingsSync** — the network section of the settings cache, key by key.  A setting
is named by the revision that gave it its value, so older and newer can be told
apart, and `Freed` is a pointer to a value that has been replaced.  `MergeReply` and
`HandleNotice` take a message in hand; `SetProperty` sets its next key under the
mutex, in the order of `ipcam_ionvif_update_network_setting`.  The SOAP thread runs
one handler's program (`GetServices`, `GetDNS`, ...), a lookup or a use at each step;
the set operations change iconfig, whose notice comes back like any other.

**MediaProfiles** — the static tables of `onvif_impl.c`: `Refresh` is
`onvif_media_get_profile` with an answer, `KeepTables` without; `GetProfiles` is two
steps, since iconfig can change in between.  `said` is what the last response reports
of each profile, the capturing area and the encoder configuration; `fresh` says
which of the request's reads were answered.  A name the table lacks gives any
resolution or `Undefined`: the code copies a variable nothing has written.

**ServerLoop** — both threads around the stop: `SetTerminating` and `JoinAndDestroy`
are `ipcam_ionvif_finalize`, `Bind` to `Sent` the SOAP thread.  It is in the hands of
its client twice, while it receives and while it sends (gSOAP's `recv_timeout` and
`send_timeout` are left at 0, no limit).

**Firmware** — ServerLoop with the reception of a request in steps, which is where
gSOAP calls the attachment callbacks: `mime_server_write_open`, `mime_server_write`,
and `mime_server_write_close` inside `EndAttachment` and `AbandonAttachment`.  An
image is a sequence of chunks, each what one `fwrite` takes; `pending` is what the stream has accepted and not
written, and closing it writes any prefix.  `UpgradeSystemFirmware` writes the image
that came inside the envelope.  Every step is one of ServerLoop or leaves it alone.

**Discovery** — `wsdd_event_Probe`: defaults, two calls, one match.

**Netmask** — the two loops, bit by bit, over words of any width.

Modules that instantiate for TLC are named `MC...`; modules with proofs end in
`_proofs`.  Who uses whom: AccountService extends UserSync and Firmware extends
ServerLoop, and both are proved to implement what they extend; Invocation instantiates
Rpc; MediaProfiles, Discovery, SettingsSync and AccountService assume what Rpc
promises; Startup leaves the content of the account section to UserSync and that of
the network section to SettingsSync.

## 3. The runs

| Run | What it shows |
|---|---|
| `usersync` | Which entries of the copy can be wrong: none while only notices fed it; after the merge only those whose account was changed after the snapshot and whose notice came before it, and then the entry is the snapshot's; only a deletion takes an account out; and the copy ends equal to iconfig's unless something was lost, expired or overtaken. |
| `usersync_overtaken` | *Violation.* The exception happens: a deleted account comes back and stays. |
| `accounts` | Before the startup snapshot access control lets in nobody it should not; after it, it lets in and refuses exactly as iconfig's table of one moment says: the last the daemon had been told of at the look-up.  The exceptions are UserSync's overtaken snapshot, and an account replaced or removed while its password is compared.  In the end logins follow whatever the operations changed. |
| `invocation` | Each call has an id of its own, and requests and replies stay in the order of the ids; calls implement Rpc although requests and replies of earlier calls are under way; sets given up on take effect in order or never; every call returns. |
| `invocation_okdone` | *Violation.* A set operation returns `SOAP_OK` although the set was not done. |
| `startup` | An operation that let its client in finds its section filled, and reports no NTP that never was, since the accounts are asked for last; unless its request was lost or given up, a notice brought the account early, or the operation is `GetDeviceInformation` and read before the account was there. |
| `settings` | An operation begun with the cache settled reports nothing older than the daemon knew then; it mixes two settings only if notices handled meanwhile changed both, and reads freed memory only if one changed that key; a setting goes back only at the start; and the cache ends equal to iconfig's section, with UserSync's exceptions. |
| `settings_streamuri` | *Violation.* If iconfig does not answer, a stream's URI is made of a string taken for a number: the address is in the cache, and its first characters become the pointer.  (Where it is missing too, the pointer is -1.) |
| `mediaprofiles` | The source is, bounds included, as the profile read last has it, an encoder configuration is one answer; the capturing area reported of either profile is that of the last answer iconfig gave of any, so that a read of one changes the other's report, and without an answer the previous one stands; and a listed resolution survives set and read. |
| `server` | Each firmware file holds the beginning of one image; an operation called with attachments finds the last one whole, unless its last flush failed; no file stays open behind a request, nor when the service ends in the middle of an upload.  At most one client is accepted after the stop; the stop ends, and clients are accepted, with the exceptions below. |
| `discovery` | Address and port of the URL and the reference are each what this probe was told, address and port as they were at one moment of it, or else the default, never what an earlier probe found; and every probe is answered. |
| `netmask` | Both loops compute what they should, end, and are inverse. |

The violation runs state what a WSDL or schema comment in the repository says of the
program; `findings` in `PROJECT.json` quotes the lines.

### Bounds, and why they are enough

- UserSync: two accounts, so that a change can leave one alone; two passwords, so
  that an old one differs from a new one; two changes (`MaxRevs = 2`), one before
  and one after the snapshot, which is what overtaking and healing take.  The
  safety properties are proved for any sets and any number of changes; section 4 says
  what the liveness theorems assume, here and below.
- AccountService: one account, since UserSync has shown what a change does to another;
  two passwords and no password; two changes, one request under way at a time.  The
  safety properties are proved for any sets, changes and queues.
- Invocation: three calls, so that a call meets both the request and the reply of
  two earlier ones.  Proved for any number.
- Startup: all five requests, every loss, one change, one value per section (the
  properties only tell missing from present) and two for the clock.
- SettingsSync: the five keys that handlers read, and two changes (`MaxRevs = 2`), each
  of the whole section, of both name servers, of either port or both, or of the
  address: two settings can be changed together, one after the other, or one of them,
  on either side of the snapshot and of a handler's lookups.  The safety properties
  are proved for any number of changes and any sets of keys that others change.
- MediaProfiles: a resolution name both profiles list, one that only the main
  profile lists and one the table lacks; a resolution clients ask for that is
  listed, and one that is not.  The two rates are interchangeable (symmetry; there
  is no liveness property in that run).  Proved for any.
- Firmware: three clients, so that some connect before, during and after the stop;
  operations of at most two calls, as `GetProfiles` makes; two images, one of a single
  chunk and one of three, so that a shorter one follows a longer one and a flush can
  come between two chunks.  Proved for any number of clients and images of any size.
- Discovery: two of each setting, which is what it takes to tell an earlier probe's
  from this one's.  No counter is bounded.
- Netmask: every mask of six bits, prefix lengths to two past the width; 32 is an
  instance of the theorems.

### Fairness, and why the code justifies it

- `UserSync`: the loop thread runs on.  `before_start` ends, a waiting notice is
  handled, and the handler of the request is called with the reply or, after its
  60 seconds, with a timeout.  Nothing is assumed of iconfig.
- `AccountService`: the same, and the SOAP thread finishes a request it has begun, since
  its waits are bounded.  Nothing is assumed of clients, nor that a change asked for
  takes effect.
- `SettingsSync`: as in UserSync, and a message in hand is finished; nothing is assumed of
  the SOAP thread.
- `Invocation`: only that a wait ends (`WaitResponse \/ TimeOut`); it is bounded
  by 10 seconds.
- `Firmware`, which takes ServerLoop's steps one by one: both threads run on while
  they can. Nothing is assumed of clients, nor that iconfig answers: accept,
  receive and send block without limit in the code, so the liveness properties except a
  thread that waits in them for ever (in `Sent`, for a client that does not read). In particular the daemon does not stop while no
  client connects.
- `Discovery`: a probe that has begun runs on, each wait at most 5 seconds.
- `Netmask`: a loop runs on.
- `Startup` and `MediaProfiles` have safety properties only, and no fairness.

## 4. The proofs

All constants are arbitrary; the assumptions are the named `ASSUME`s of the modules
(bounds are naturals, the constants that mean "nothing" differ from values, and the
name of a resolution clients ask for is one of the names), which TLC evaluates in the
runs.

- **AccountService_proofs.**  `PartialButRight`, `WrongOnlyIfOvertaken` and
  `WrongMeansSnapshot` are not inductive: they say that an entry differs or not, and
  not why.  The invariant adds what each entry is made of: `CopyInv` says an
  account's entry is what the last handled notice that names it left, or else what
  the merge left (`Merged`), or nothing; `LogApplied` and `LogFrame` say what a
  change does to iconfig's table.  Theorems `TypeCorrect`, `NoticesAreRight`,
  `MergedIsRight`, `WrongIsOld`, and the action property `Forgetting`.
  `ImplementsUserSync` carries them over to the composition.  `HeldInv` then says what
  the SOAP thread holds: what the copy had at the look-up, or `Freed`, and then a
  notice of that account or the merge has come since; with `CopyInv` at the moment of the look-up this gives
  `LoginsDecided` (`LoginsAreExact`), and `ServiceTypeCorrect`.
  Liveness: `CopySettles` (`EventuallyAgrees`) counts notices until none waits any
  more (`CatchesUp`) and then reads agreement off `WrongOnlyIfOvertaken`.  In the
  composition `RequestsEnd` says that every request begun ends, and `LoginsFollow`
  (`LoginsSettle`) that once the copy has settled and the requests begun before are
  over, every login is decided as the table says.
- **Startup_proofs.**  `ReadsFilled` (`AuthenticatedReadsFilled`) rests on the order of
  `before_start`, which requests, replies and the handling of replies all keep
  (`OrderInv`): when the accounts' reply is handled nothing is on its way any more, so
  every other section is filled, expired or lost (`UsersInv`).  `NtpInv` says that
  nobody says NTP before iconfig did, `HeldInv` what `GetDeviceInformation` holds.
  Also `TypeCorrect`.
- **SettingsSync_proofs.**  That an operation reads nothing old depends on what the
  cache is made of while a message is half applied.  The invariant `CInv` says it key
  by key: `StageInv` where the message in hand stands, `BoundInv` that no key is newer
  than all the daemon has been told, `CacheInv` that a key is what the changes up to
  `Applied(k)` made it, over what the snapshot had, where `Applied` is one less for a
  key still to be set.  `HasValue`
  (each key has a latest change) is carried along, since its existence for a log of
  any length takes an induction, which here is the induction over steps.  `BeganInv`
  and `ReadInv` say that what an operation holds or has used lies between what was
  known when it began and now.  Theorems `TypeCorrect`, `ReadsAreFresh`
  (`ReadsAreRecent`), `MixesAreExplained` (`MixedOnlyIfBothChange`) and the action
  property `GoesBackOnlyAtStartup`.  Liveness: `CacheSettles` (`EventuallyAgrees`): a
  message in hand sets its keys in order and is finished (`MessageEnds`), messages are
  counted (`Taken`) until none is left (`QuietAtLast`), and then `CacheInv` says that
  the cache is the section.
- **Invocation_proofs.**  `Implements`: every step of Invocation is a step of Rpc or
  a stutter.  The mapping is only sound because ids are used in order and queues
  keep it, so the invariant says that requests on their way are ordered (`Ordered`)
  and younger than all that were served (`Unserved`), that a reply says what iconfig
  gave (`Genuine`), and that a request with the id of the call under way is its
  request (`Current`).  The same invariant gives `LateSetsAreOld` (`SetsKeepOrder`)
  and `TypeCorrect`, which with the types says that ids are used once and in order:
  `LastGiven` that the call under way has the last id given out, `RepliesAreOlder`
  that a reply on its way is to an older id than every request on its way, and
  `RepliesOrdered` that replies come in the order of their ids.  Liveness: `CallsReturn` (`EveryCallReturns`).
- **Firmware_proofs.**  `OneMoreAtMost`, for any number of
  clients and calls: the invariant ties the flag to how far finalize has come, and
  says that a thread which has accepted since cannot be back at the accept.
  `ImplementsServerLoop` carries it over to the composition.  The invariant of the
  upload says that file and stream together are the first `got` chunks of the image
  that is arriving, and the file alone a beginning of it once closed; it gives
  `FilesAreOneImage`, `ServedIsWhole`, `NothingLeftOpen` and `FirmwareTypeCorrect`.
  Liveness, of ServerLoop with uploads: an operation comes to its response, since its calls are
  counted (`OperationsEnd`); then finalize's join returns unless the thread waits for
  ever for a client to connect, to send or to read (`ServiceEnds`, `FinalizeEnds`), and, counting clients, whoever connects is
  accepted (`EveryClientAccepted`, `ClientsAreAccepted`).
- **Discovery_proofs.**  `MatchIsFresh` (`MatchIsOfThisProbe`): each parameter holds
  what a call of this probe returned or, if it was not told, the default; a history says
  what iconfig had during it and which members its answers had.  Also `TypeCorrect`.  Liveness: `ProbesAreMatched` (`EveryProbeMatched`).
- **MediaProfiles_proofs.**  `TypeCorrect`, `SourceIsLastRead`, `OneAnswer`,
  `BoundsExplained` (`BoundsAreOfLastAnswer`), which rests on `LastReadInv` (the bounds
  are built in until a read is answered, and then of the last one) and on `SaidInv` (a
  response reports the tables as they still are); and `ListedSurvives`, which rests on
  `KeptIsHeld` and `KeptIsRead` (iconfig holds the name of what was set, and a read
  since has it) and on the lemma that the two conversions are inverse on the known ones.
- **Netmask_proofs.**  `ReportIsRight`, `StoreIsRight`, `RoundTripHolds`, from the
  two loop invariants `ShiftInv` and `CountInv`, for every width; and `TypeCorrect`.
  Liveness: `LoopsEnd` (`ConversionsEnd`) counts the bits a loop has gone past.

### The liveness theorems, and what they assume

- **When a step is possible** is what the provers cannot see: `ENABLED` of an action is
  opaque to them.  The theorems therefore have it as a hypothesis, `[]CanGoOn`
  (`ServiceCanGoOn` in the composition): a conjunction that says, for each fair action
  the argument uses, that it can be taken wherever its guard holds.  It is a state
  predicate and nothing else is assumed of the behaviour.  It is no restriction: TLC
  finds it an invariant of the same instances the runs check, for each of the six
  proofs modules that have one (an MC module that extends the proofs module instead of
  the module, with `CanGoOn` as its INVARIANT, repeats that).  What the theorems then
  show is the argument itself: that fairness of these actions is enough, in every
  interleaving and for every value of the constants within the bounds named below.
- **Counting.**  A proof that a count reaches its end is an induction over a temporal
  formula, which is not available.  Instead `Leap(d)` says that the system comes from
  any n to n + d, or need not; `Leap(1)` is one fair step, and two leaps of d make one
  of 2d (`TwiceAsFar`).  From there a fixed number of doublings covers a bound, hence
  the bounds in the statements: 2^32 changes of a table or a section, 2^32 clients,
  65536 calls an operation makes (`GetProfiles` makes two) and
  netmasks narrower than 65536 bits.  The other constants stay arbitrary.

Every property of the passing runs is stated by a theorem.  Only model-checked are the
hypotheses `CanGoOn`, on the instances, and the three violations, which are
counterexamples.  No module declares a RECURSIVE operator.

## 5. Not modelled, and why

- **What the repository does not hold itself.**  Of its source lines about 99 in 100 are
  gSOAP's, its samples and their project copies, and generated code; the daemons' own
  sources are some 5300 lines of C, 1600 of which are generated defaults that return
  an empty response.  Of gSOAP the models have what runs this repository's callbacks (the
  reception of attachments); the rest is a library whose contract the code relies on.
  A share of the whole tree can therefore not be large, and the map does not try.
- **The other sections of the settings cache** (base information, clock, video) key by
  key.  They are updated by the same two functions in the same way as the network
  section; Startup has each as one value.
- **Operations without state**: imaging, host name, gateway, time server, scopes, clock
  and interface report pass one request to iconfig, or one answer to the client.  What
  can go wrong with the call is in Invocation; their members are formatting.  The
  operations that are empty stubs are left out.
- **Reboot and factory default** run a script.
- **The discovery daemon's thread** joins multicast groups and then loops for ever:
  `finalize` joins it and never returns, as reading the loop shows.
- **The digest**: what a token proves is its claim, in AccountService; how the hash is
  computed is data.

The clock that is reported as following NTP when its section is missing (the `-1` of
`ipcam_ionvif_get_int_property` under `!!`, `onvif-device-mgmt.c:330`) is within the
cases `AuthenticatedReadsFilled` names: it takes a start that went wrong.
