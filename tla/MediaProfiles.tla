--------------------------- MODULE MediaProfiles ---------------------------
(***************************************************************************)
(* The media handlers of the SOAP thread and the tables behind them, the   *)
(* static variables of onvif_impl.c: the video source, the one video       *)
(* source configuration both profiles point to, and an encoder             *)
(* configuration for each profile.  The tables start with built-in values  *)
(* and a profile's are refreshed from iconfig whenever the profile is read.*)
(*                                                                         *)
(* The SOAP thread alone uses the tables.  A call to iconfig takes effect  *)
(* at one instant or is not answered (module Rpc), and the tables are      *)
(* refreshed from its answer alone, so a read of a profile is one step;    *)
(* GetProfiles is one step for each profile.                               *)
(***************************************************************************)
CONSTANTS Names,      \* resolution names iconfig's settings may hold
          Asked,      \* resolutions clients ask for
          Rates,      \* frame rates with bit rates
          BuiltIn,    \* what the tables are compiled with
          Undefined,  \* the value of an uninitialised resolution
          None        \* nothing yet

Profiles == {"main_profile", "sub_profile"}

ASSUME NoneAssumption ==
  None \notin Asked /\ None \notin Profiles /\ None \notin Rates
ASSUME BuiltInAssumption == BuiltIn \notin Rates

VARIABLES
  video,     \* iconfig: the resolution name and the rate of each profile
  source,    \* __onvif_video_source[0]: resolution and rate
  Bounds,    \* __onvif_video_source_config[0].Bounds, width and height
  encoder,   \* the encoder configurations: resolution and rate
  pc,        \* "idle", or "sub" between the two reads of GetProfiles
  said,      \* the last response: the handler, and what it reports of which profile
  answered,  \* history: what iconfig last answered of each profile
  lastRead,  \* history: the profile whose read was answered last
  fresh,     \* history: the profiles whose read in the last request was answered
  kept       \* history: the resolution a client set, if nobody changed it since

vars == <<video, source, Bounds, encoder, pc, said, answered, lastRead, fresh, kept>>

-----------------------------------------------------------------------------
(***************************************************************************)
(* The two conversions.  A resolution is its width and height.             *)
(***************************************************************************)
NameTable ==
  {<<"UXGA", <<1600, 1200>>>>, <<"1080P", <<1920, 1080>>>>,
   <<"960H", <<1280, 960>>>>, <<"720P", <<1280, 720>>>>,
   <<"D1", <<704, 576>>>>, <<"CIF", <<352, 288>>>>}

Known == {e[2] : e \in NameTable}

\* The resolutions a name may give: of an unknown name the caller ignores the
\* FALSE and copies a variable that was never written.
name_to_value(name) ==
  IF \E e \in NameTable : e[1] = name
  THEN {e[2] : e \in {x \in NameTable : x[1] = name}}
  ELSE {Undefined} \cup Known

\* Mutant: the row of 704 by 576 is missing.
value_to_name_without_row(r) ==
  IF r \in Known \ {<<704, 576>>}
  THEN (CHOOSE e \in NameTable : e[2] = r)[1] ELSE "1080P"

value_to_name(r) ==
  IF r \in Known THEN (CHOOSE e \in NameTable : e[2] = r)[1] ELSE "1080P"

\* What GetVideoEncoderConfigurationOptions lists.
ResolutionsAvail ==
  [main_profile |-> {<<1600, 1200>>, <<1920, 1080>>, <<1280, 960>>,
                     <<1280, 720>>, <<704, 576>>},
   sub_profile  |-> {<<704, 576>>, <<352, 288>>}]

ASSUME AskedAssumption == \A r \in Asked : value_to_name(r) \in Names

Resolutions == Known \cup {Undefined}
Setting     == [resolution : Names, rate : Rates]
Config      == [resolution : Resolutions, rate : Rates \cup {BuiltIn}]

ASSUME SettingAssumption == None \notin Setting /\ None \notin Known

-----------------------------------------------------------------------------
Init ==
  /\ video \in [Profiles -> Setting]
  /\ source = [resolution |-> <<1920, 1080>>, rate |-> BuiltIn]
  /\ Bounds = <<1920, 1080>>
  /\ encoder = [main_profile |-> [resolution |-> <<1600, 1200>>, rate |-> BuiltIn],
                sub_profile  |-> [resolution |-> <<704, 576>>, rate |-> BuiltIn]]
  /\ pc = "idle"
  /\ said = None
  /\ answered = [p \in Profiles |-> None]
  /\ lastRead = None
  /\ fresh = {}
  /\ kept = [p \in Profiles |-> None]

\* Mutant: the rate of the source is not refreshed.
Refresh_without_source_rate(p) ==
  /\ \E r \in name_to_value(video[p].resolution) :
       /\ source' = [source EXCEPT !.resolution = r]
       /\ Bounds' = r
       /\ encoder' = [encoder EXCEPT ![p] = [resolution |-> r,
                                             rate |-> video[p].rate]]
  /\ answered' = [answered EXCEPT ![p] = video[p]]
  /\ lastRead' = p

\* Mutant: both profiles point to one encoder configuration.
Refresh_shared_encoder(p) ==
  /\ \E r \in name_to_value(video[p].resolution) :
       LET c == [resolution |-> r, rate |-> video[p].rate] IN
       /\ source' = c
       /\ Bounds' = r
       /\ encoder' = [q \in Profiles |-> c]
  /\ answered' = [answered EXCEPT ![p] = video[p]]
  /\ lastRead' = p

\* Mutant: only the main profile's read writes the shared bounds.
Refresh_bounds_of_main(p) ==
  /\ \E r \in name_to_value(video[p].resolution) :
       LET c == [resolution |-> r, rate |-> video[p].rate] IN
       /\ source' = c
       /\ Bounds' = IF p = "main_profile" THEN r ELSE Bounds
       /\ encoder' = [encoder EXCEPT ![p] = c]
  /\ answered' = [answered EXCEPT ![p] = video[p]]
  /\ lastRead' = p

\* get_video is answered: the source, the shared bounds and the encoder
\* configuration of the profile are all written.
Refresh(p) ==
  /\ \E r \in name_to_value(video[p].resolution) :
       LET c == [resolution |-> r, rate |-> video[p].rate] IN
       /\ source' = c
       /\ Bounds' = r
       /\ encoder' = [encoder EXCEPT ![p] = c]
  /\ answered' = [answered EXCEPT ![p] = video[p]]
  /\ lastRead' = p

\* get_video is not answered, or its answer has no such profile.
KeepTables == UNCHANGED <<source, Bounds, encoder, answered, lastRead>>

\* A read of a profile, after those of the same request whose answers are in f.
onvif_media_get_profile(p, f) ==
  \/ Refresh(p) /\ fresh' = f \cup {p}
  \/ KeepTables /\ fresh' = f

\* A handler reports the tables as its last read has left them.
Report(op, reported) ==
  said' = [op |-> op,
           of |-> [p \in reported |-> [bounds |-> Bounds', config |-> encoder'[p]]]]

\* GetProfile, and GetCompatibleVideoEncoderConfigurations, which reads the
\* same way and reports the encoder configuration.
GetProfile ==
  /\ pc = "idle"
  /\ \E p \in Profiles :
       onvif_media_get_profile(p, {}) /\ Report("GetProfile", {p})
  /\ UNCHANGED <<video, pc, kept>>

\* GetProfiles reads one profile after the other, and then reports both: the
\* main profile's bounds are what the sub profile's read left there.
GetProfilesMain ==
  /\ pc = "idle"
  /\ onvif_media_get_profile("main_profile", {})
  /\ pc' = "sub"
  /\ said' = None
  /\ UNCHANGED <<video, kept>>

\* Mutant: the loop that fills the response ends one profile early.
GetProfilesSub_one_early ==
  /\ pc = "sub"
  /\ onvif_media_get_profile("sub_profile", fresh)
  /\ Report("GetProfiles", {"main_profile"})
  /\ pc' = "idle"
  /\ UNCHANGED <<video, kept>>

GetProfilesSub ==
  /\ pc = "sub"
  /\ onvif_media_get_profile("sub_profile", fresh)
  /\ Report("GetProfiles", Profiles)
  /\ pc' = "idle"
  /\ UNCHANGED <<video, kept>>

\* SetVideoEncoderConfiguration with a resolution, a rate, both or neither: the
\* profile is the encoder configuration's, what is not given stays, the tables
\* stay as they are, and the response says nothing of the outcome.
SetVideoEncoderConfiguration ==
  /\ pc = "idle"
  /\ \E p \in Profiles, r \in Asked \cup {None}, rate \in Rates \cup {None} :
       \/ /\ video' = [video EXCEPT ![p] =
                [resolution |-> IF r = None THEN @.resolution ELSE value_to_name(r),
                 rate |-> IF rate = None THEN @.rate ELSE rate]]
          /\ kept' = [kept EXCEPT ![p] = IF r = None THEN @ ELSE r]
       \/ UNCHANGED <<video, kept>>
  /\ said' = None
  /\ UNCHANGED <<source, Bounds, encoder, pc, answered, lastRead, fresh>>

\* Somebody else changes iconfig's settings of a profile, or a set this server
\* gave up on takes effect.
OthersChange ==
  /\ \E p \in Profiles, s \in Setting :
       /\ video' = [video EXCEPT ![p] = s]
       /\ kept' = [kept EXCEPT ![p] = None]
  /\ said' = None
  /\ UNCHANGED <<source, Bounds, encoder, pc, answered, lastRead, fresh>>

Next ==
  \/ GetProfile \/ GetProfilesMain \/ GetProfilesSub
  \/ SetVideoEncoderConfiguration \/ OthersChange

Spec == Init /\ [][Next]_vars

-----------------------------------------------------------------------------
\* What is reported of a profile.
Reports == [bounds : Resolutions, config : Config]

\* Every variable has its type; GetProfiles reports both profiles, GetProfile one.
TypeOK ==
  /\ video \in [Profiles -> Setting]
  /\ source \in Config
  /\ Bounds \in Resolutions
  /\ encoder \in [Profiles -> Config]
  /\ pc \in {"idle", "sub"}
  /\ said \in {None} \cup [op : {"GetProfiles"}, of : [Profiles -> Reports]]
                   \cup [op : {"GetProfile"},
                         of : UNION {[{p} -> Reports] : p \in Profiles}]
  /\ answered \in [Profiles -> Setting \cup {None}]
  /\ lastRead \in Profiles \cup {None}
  /\ fresh \subseteq Profiles
  /\ kept \in [Profiles -> Asked \cup {None}]

\* The source is as the profile read last has it, although the two profiles
\* share it and each keeps an encoder configuration of its own; and the
\* capturing area is the whole source, whichever profile was read last and
\* whatever its resolution turned out to be.  A failed read leaves all of it.
SourceFollowsLastRead ==
  /\ lastRead # None => source = encoder[lastRead]
  /\ Bounds = source.resolution

\* A profile's encoder configuration is one answer of iconfig for that profile,
\* whole, or still the built-in one: never part of two answers, and never part
\* of the other profile's.
EncoderIsOneAnswer ==
  \A p \in Profiles :
    IF answered[p] = None
    THEN encoder[p].rate = BuiltIn
    ELSE /\ encoder[p].rate = answered[p].rate
         /\ encoder[p].resolution \in name_to_value(answered[p].resolution)

\* The profiles share their source configuration, so that the capturing area a
\* response reports of a profile may be the other one's.  Which one it is, is
\* known: the area is that of the last answer iconfig gave of either profile, in
\* this very request if it answered a read of it; it is the profile's own
\* resolution if its own read was the last one answered; and it is the built-in
\* one only while none ever was.
BoundsAreOfLastAnswer ==
  said # None =>
    \A p \in DOMAIN said.of :
      /\ said.of[p].bounds \in IF lastRead = None THEN {<<1920, 1080>>}
                               ELSE name_to_value(answered[lastRead].resolution)
      /\ lastRead = p => said.of[p].bounds = said.of[p].config.resolution
      /\ fresh # {} => lastRead \in fresh

\* A client that sets a resolution the options list, and reads the profile, is
\* reported that resolution, unless somebody changed it in between: the way
\* there, through a name, and back loses nothing.
ListedIsKept ==
  said # None =>
    \A p \in DOMAIN said.of \cap fresh :
      kept[p] \in ResolutionsAvail[p] => said.of[p].config.resolution = kept[p]
=============================================================================
