------------------------- MODULE MediaProfiles_proofs -------------------------
(***************************************************************************)
(* The tables of the media handlers stay consistent whatever names iconfig *)
(* holds, whatever rates there are, and whatever clients ask for.          *)
(***************************************************************************)
EXTENDS MediaProfiles, TLAPS

\* The variables the argument needs the types of.
Shape ==
  /\ video \in [Profiles -> Setting]
  /\ encoder \in [Profiles -> Config]
  /\ answered \in [Profiles -> Setting \cup {None}]
  /\ kept \in [Profiles -> Asked \cup {None}]
  /\ lastRead \in Profiles \cup {None}
  /\ fresh \subseteq Profiles

\* What iconfig holds is what the client asked for, until it is overwritten.
KeptIsHeld ==
  \A p \in Profiles :
    kept[p] # None => video[p].resolution = value_to_name(kept[p])

\* The bounds are the built-in ones until a read is answered; and if one of the
\* last request was, it is the last one.
LastReadInv ==
  /\ lastRead = None => Bounds = <<1920, 1080>>
  /\ lastRead # None => answered[lastRead] # None
  /\ fresh # {} => lastRead \in fresh

TableInv == SourceFollowsLastRead /\ EncoderIsOneAnswer /\ LastReadInv

\* A response reports the tables as they still are.
SaidInv ==
  said # None =>
    /\ DOMAIN said.of \subseteq Profiles
    /\ \A p \in DOMAIN said.of :
         said.of[p].bounds = Bounds /\ said.of[p].config = encoder[p]

\* What this request has read of a profile is what the client set, if that still
\* stands.
KeptIsRead ==
  pc = "sub" \/ said # None =>
    \A p \in fresh :
      kept[p] \in ResolutionsAvail[p] => encoder[p].resolution = kept[p]

\* A known resolution survives the way through its name and back.
LEMMA NamesAreInverse ==
  \A r \in Known : name_to_value(value_to_name(r)) = {r}
<1> TAKE r \in Known
<1>1. PICK e \in NameTable : e[2] = r
  BY DEF Known
<1> DEFINE c == CHOOSE x \in NameTable : x[2] = r
<1>2. c \in NameTable /\ c[2] = r
  BY <1>1
<1>3. value_to_name(r) = c[1]
  BY DEF value_to_name
<1>4. \A x, y \in NameTable : x[1] = y[1] => x = y
  BY DEF NameTable
<1>5. {x \in NameTable : x[1] = c[1]} = {c}
  BY <1>2, <1>4
<1> HIDE DEF c
<1>6. name_to_value(c[1]) = {e1[2] : e1 \in {c}}
  BY <1>2, <1>5 DEF name_to_value
<1> QED BY <1>2, <1>3, <1>6

LEMMA ListedAreKnown == \A p \in Profiles : ResolutionsAvail[p] \subseteq Known
BY DEF Profiles, ResolutionsAvail, Known, NameTable

\* A name gives a resolution of the table, or nothing that was ever written.
LEMMA ValuesAreResolutions ==
  \A name : name_to_value(name) \subseteq Resolutions
BY DEF name_to_value, Resolutions, Known

\* A listed resolution that was kept is not None.
LEMMA KnownIsSomething == \A r \in Known : r # None
BY SettingAssumption

\* A read that is not answered leaves the tables.
LEMMA TablesKept ==
  ASSUME Shape, TableInv, KeepTables, UNCHANGED <<video, kept>>,
         fresh' \in {{}, fresh}
  PROVE  Shape' /\ TableInv'
BY DEF Shape, TableInv, KeepTables, SourceFollowsLastRead, LastReadInv,
       EncoderIsOneAnswer

\* A read that is answered refreshes every table from that one answer.
LEMMA RefreshKeeps ==
  ASSUME Shape, TableInv, NEW p \in Profiles, Refresh(p), UNCHANGED <<video, kept>>,
         fresh' \in {{p}, fresh \cup {p}}
  PROVE  Shape' /\ TableInv' /\ \A q \in Profiles \ {p} : encoder'[q] = encoder[q]
<1> USE NoneAssumption, SettingAssumption
<1>1. PICK r \in name_to_value(video[p].resolution) :
         /\ source' = [resolution |-> r, rate |-> video[p].rate]
         /\ encoder' = [encoder EXCEPT ![p] =
                          [resolution |-> r, rate |-> video[p].rate]]
         /\ Bounds' = r
  BY DEF Refresh
<1>2. answered' = [answered EXCEPT ![p] = video[p]] /\ lastRead' = p
  BY DEF Refresh
<1>3. video[p] \in Setting
  BY DEF Shape
<1>4. [resolution |-> r, rate |-> video[p].rate] \in Config
  BY <1>3, ValuesAreResolutions DEF Setting, Config
<1>5. Shape'
  BY <1>1, <1>2, <1>3, <1>4 DEF Shape
<1>6. encoder'[p] = [resolution |-> r, rate |-> video[p].rate]
  BY <1>1 DEF Shape
<1>7. SourceFollowsLastRead'
  BY <1>1, <1>2, <1>6 DEF SourceFollowsLastRead
<1>8. answered'[p] = video[p] /\ answered'[p] # None
  BY <1>2, <1>3 DEF Shape
<1>9. \A q \in Profiles \ {p} :
         answered'[q] = answered[q] /\ encoder'[q] = encoder[q]
  BY <1>1, <1>2 DEF Shape
<1>10. EncoderIsOneAnswer'
  BY <1>6, <1>8, <1>9 DEF EncoderIsOneAnswer, TableInv
<1>11. LastReadInv'
  BY <1>2, <1>8 DEF LastReadInv
<1> QED BY <1>5, <1>7, <1>9, <1>10, <1>11 DEF TableInv

\* What a read finds that is answered while nobody else has changed what the
\* client set.
LEMMA ReadIsKept ==
  ASSUME Shape, KeptIsHeld, NEW p \in Profiles, Refresh(p), UNCHANGED kept,
         kept[p] \in ResolutionsAvail[p]
  PROVE  encoder'[p].resolution = kept[p]
<1>1. PICK r \in name_to_value(video[p].resolution) :
         encoder' = [encoder EXCEPT ![p] =
                       [resolution |-> r, rate |-> video[p].rate]]
  BY DEF Refresh
<1>2. encoder'[p].resolution = r
  BY <1>1 DEF Shape
<1>3. kept[p] \in Known
  BY ListedAreKnown
<1>4. kept[p] # None
  BY <1>3, KnownIsSomething
<1>5. video[p].resolution = value_to_name(kept[p])
  BY <1>4 DEF KeptIsHeld
<1> QED BY <1>2, <1>3, <1>5, NamesAreInverse

IInv == Shape /\ TableInv /\ KeptIsHeld /\ SaidInv /\ KeptIsRead

\* A read as the first or the only one of a request.
LEMMA FirstRead ==
  ASSUME IInv, NEW p \in Profiles, onvif_media_get_profile(p, {}),
         UNCHANGED <<video, kept>>
  PROVE  /\ Shape' /\ TableInv' /\ KeptIsHeld'
         /\ \A q \in fresh' :
              kept'[q] \in ResolutionsAvail[q] => encoder'[q].resolution = kept'[q]
<1>1. KeptIsHeld'
  BY DEF IInv, KeptIsHeld
<1>2. CASE Refresh(p) /\ fresh' = {} \cup {p}
  <2>1. fresh' = {p}
    BY <1>2
  <2>2. Shape' /\ TableInv'
    BY <1>2, <2>1, RefreshKeeps DEF IInv
  <2>3. kept[p] \in ResolutionsAvail[p] => encoder'[p].resolution = kept[p]
    BY <1>2, ReadIsKept DEF IInv
  <2> QED BY <1>1, <2>1, <2>2, <2>3
<1>3. CASE KeepTables /\ fresh' = {}
  <2>1. Shape' /\ TableInv'
    BY <1>3, TablesKept DEF IInv
  <2> QED BY <1>1, <1>3, <2>1
<1> QED BY <1>2, <1>3 DEF onvif_media_get_profile

\* The second read of GetProfiles leaves what the first one found.
LEMMA SecondRead ==
  ASSUME IInv, pc = "sub", NEW p \in Profiles, onvif_media_get_profile(p, fresh),
         UNCHANGED <<video, kept>>
  PROVE  /\ Shape' /\ TableInv' /\ KeptIsHeld'
         /\ \A q \in fresh' :
              kept'[q] \in ResolutionsAvail[q] => encoder'[q].resolution = kept'[q]
<1>1. KeptIsHeld'
  BY DEF IInv, KeptIsHeld
<1>2. \A q \in fresh :
        q \in Profiles /\ (kept[q] \in ResolutionsAvail[q] => encoder[q].resolution = kept[q])
  BY DEF IInv, Shape, KeptIsRead
<1>3. CASE Refresh(p) /\ fresh' = fresh \cup {p}
  <2>1. Shape' /\ TableInv' /\ \A q \in Profiles \ {p} : encoder'[q] = encoder[q]
    BY <1>3, RefreshKeeps DEF IInv
  <2>2. kept[p] \in ResolutionsAvail[p] => encoder'[p].resolution = kept[p]
    BY <1>3, ReadIsKept DEF IInv
  <2> QED BY <1>1, <1>2, <1>3, <2>1, <2>2
<1>4. CASE KeepTables /\ fresh' = fresh
  <2>1. Shape' /\ TableInv'
    BY <1>4, TablesKept DEF IInv
  <2> QED BY <1>1, <1>2, <1>4, <2>1 DEF KeepTables
<1> QED BY <1>3, <1>4 DEF onvif_media_get_profile

\* A report is made of the tables.
LEMMA ReportSays ==
  ASSUME NEW op, NEW S \in SUBSET Profiles, Report(op, S)
  PROVE  SaidInv'
<1>1. /\ said'.of = [p \in S |-> [bounds |-> Bounds', config |-> encoder'[p]]]
  BY DEF Report
<1>2. DOMAIN said'.of = S
  BY <1>1
<1> QED BY <1>1, <1>2 DEF SaidInv

LEMMA TablesStart == Init => IInv
<1> SUFFICES ASSUME Init PROVE IInv
  OBVIOUS
<1>1. {<<1600, 1200>>, <<704, 576>>} \subseteq Resolutions
  BY DEF Resolutions, Known, NameTable
<1>2. encoder["main_profile"] =
        [resolution |-> <<1600, 1200>>, rate |-> BuiltIn]
  BY DEF Init
<1>3. encoder["sub_profile"] =
        [resolution |-> <<704, 576>>, rate |-> BuiltIn]
  BY DEF Init
<1>4. encoder \in [Profiles -> Config]
  BY <1>1 DEF Init, Profiles, Config
<1>5. Shape
  BY <1>4 DEF Init, Shape
<1>6. EncoderIsOneAnswer
  BY <1>2, <1>3 DEF Init, EncoderIsOneAnswer, Profiles
<1>7. SourceFollowsLastRead /\ LastReadInv
  BY DEF Init, SourceFollowsLastRead, LastReadInv
<1>8. KeptIsHeld /\ SaidInv /\ KeptIsRead
  BY DEF Init, KeptIsHeld, SaidInv, KeptIsRead
<1> QED
  BY <1>5, <1>6, <1>7, <1>8 DEF IInv, TableInv

THEOREM Inductive == Spec => []IInv
<1>1. Init => IInv
  BY TablesStart
<1>2. IInv /\ [Next]_vars => IInv'
  <2> SUFFICES ASSUME IInv, [Next]_vars
               PROVE  IInv'
    OBVIOUS
  <2>2. CASE GetProfile
    <3>1. PICK p \in Profiles :
            onvif_media_get_profile(p, {}) /\ Report("GetProfile", {p})
      BY <2>2 DEF GetProfile
    <3>2. UNCHANGED <<video, kept>>
      BY <2>2 DEF GetProfile
    <3>3. SaidInv'
      BY <3>1, ReportSays
    <3> QED BY <3>1, <3>2, <3>3, FirstRead DEF IInv, KeptIsRead
  <2>3. CASE GetProfilesMain
    <3>1. onvif_media_get_profile("main_profile", {}) /\ UNCHANGED <<video, kept>>
      BY <2>3 DEF GetProfilesMain
    <3>2. SaidInv'
      BY <2>3 DEF GetProfilesMain, SaidInv
    <3> QED BY <3>1, <3>2, FirstRead DEF IInv, KeptIsRead, Profiles
  <2>4. CASE GetProfilesSub
    <3>1. /\ onvif_media_get_profile("sub_profile", fresh)
          /\ pc = "sub" /\ UNCHANGED <<video, kept>>
      BY <2>4 DEF GetProfilesSub
    <3>2. SaidInv'
      BY <2>4, ReportSays DEF GetProfilesSub
    <3> QED BY <3>1, <3>2, SecondRead DEF IInv, KeptIsRead, Profiles
  <2>5. CASE SetVideoEncoderConfiguration
    <3> DEFINE Set(p, r, rate) ==
                 [resolution |-> IF r = None THEN video[p].resolution ELSE value_to_name(r),
                  rate |-> IF rate = None THEN video[p].rate ELSE rate]
    <3>1. PICK p \in Profiles, r \in Asked \cup {None}, rate \in Rates \cup {None} :
            \/ /\ video' = [video EXCEPT ![p] = Set(p, r, rate)]
               /\ kept' = [kept EXCEPT ![p] = IF r = None THEN kept[p] ELSE r]
            \/ UNCHANGED <<video, kept>>
      BY <2>5 DEF SetVideoEncoderConfiguration
    <3>2. /\ UNCHANGED <<source, Bounds, encoder, answered, lastRead, fresh>>
          /\ pc' = "idle" /\ said' = None
      BY <2>5 DEF SetVideoEncoderConfiguration
    <3>3. Set(p, r, rate) \in Setting
      BY AskedAssumption DEF Setting, Shape, IInv
    <3>4. Shape'
      BY <3>1, <3>2, <3>3 DEF Shape, IInv
    <3>5. KeptIsHeld'
      BY <3>1 DEF KeptIsHeld, Shape, IInv
    <3>6. TableInv'
      BY <3>2 DEF IInv, TableInv, SourceFollowsLastRead, EncoderIsOneAnswer, LastReadInv
    <3> QED
      BY <3>2, <3>4, <3>5, <3>6 DEF IInv, SaidInv, KeptIsRead
  <2>6. CASE OthersChange
    <3>1. PICK p \in Profiles, s \in Setting :
            /\ video' = [video EXCEPT ![p] = s]
            /\ kept' = [kept EXCEPT ![p] = None]
      BY <2>6 DEF OthersChange
    <3>2. /\ UNCHANGED <<source, Bounds, encoder, pc, answered, lastRead, fresh>>
          /\ said' = None
      BY <2>6 DEF OthersChange
    <3>3. Shape'
      BY <3>1, <3>2 DEF Shape, IInv
    <3>4. KeptIsHeld'
      BY <3>1 DEF KeptIsHeld, Shape, IInv
    <3>5. TableInv'
      BY <3>2 DEF IInv, TableInv, SourceFollowsLastRead, EncoderIsOneAnswer, LastReadInv
    <3>6. KeptIsRead'
      <4>1. None \notin ResolutionsAvail[p]
        BY ListedAreKnown, KnownIsSomething
      <4>2. \A q \in Profiles : kept'[q] = kept[q] \/ (kept'[q] = None /\ q = p)
        BY <3>1 DEF IInv, Shape
      <4> QED BY <3>2, <4>1, <4>2 DEF IInv, KeptIsRead, Shape
    <3> QED
      BY <3>2, <3>3, <3>4, <3>5, <3>6 DEF IInv, SaidInv
  <2>7. CASE UNCHANGED vars
    BY <2>7 DEF vars, IInv, Shape, TableInv, KeptIsHeld, SaidInv, KeptIsRead,
       SourceFollowsLastRead, EncoderIsOneAnswer, LastReadInv
  <2> QED BY <2>2, <2>3, <2>4, <2>5, <2>6, <2>7 DEF Next
<1> QED BY <1>1, <1>2, PTL DEF Spec

\* The source the profiles share, and the capturing area, are as the profile
\* read last has them.
THEOREM SourceIsLastRead == Spec => []SourceFollowsLastRead
<1>1. IInv => SourceFollowsLastRead
  BY DEF IInv, TableInv
<1> QED BY <1>1, Inductive, PTL

\* An encoder configuration never mixes two answers, nor two profiles.
THEOREM OneAnswer == Spec => []EncoderIsOneAnswer
<1>1. IInv => EncoderIsOneAnswer
  BY DEF IInv, TableInv
<1> QED BY <1>1, Inductive, PTL

\* The capturing area a response reports of a profile is that of the last answer
\* iconfig gave, to this request if to any of its reads.
THEOREM BoundsExplained == Spec => []BoundsAreOfLastAnswer
<1>1. IInv => BoundsAreOfLastAnswer
  <2> SUFFICES ASSUME IInv, said # None, NEW p \in DOMAIN said.of
               PROVE  /\ said.of[p].bounds \in
                           IF lastRead = None THEN {<<1920, 1080>>}
                           ELSE name_to_value(answered[lastRead].resolution)
                      /\ lastRead = p => said.of[p].bounds = said.of[p].config.resolution
                      /\ fresh # {} => lastRead \in fresh
    BY DEF BoundsAreOfLastAnswer
  <2>1. p \in Profiles /\ said.of[p].bounds = Bounds /\ said.of[p].config = encoder[p]
    BY DEF IInv, SaidInv
  <2>2. lastRead # None => Bounds = encoder[lastRead].resolution
    BY DEF IInv, TableInv, SourceFollowsLastRead
  <2>3. lastRead # None =>
          encoder[lastRead].resolution \in name_to_value(answered[lastRead].resolution)
    BY DEF IInv, TableInv, LastReadInv, EncoderIsOneAnswer, Shape
  <2>4. p # None
    BY <2>1, NoneAssumption
  <2> QED BY <2>1, <2>2, <2>3, <2>4 DEF IInv, TableInv, LastReadInv
<1> QED BY <1>1, Inductive, PTL

\* A listed resolution a client sets is the one the profile then reports.
THEOREM ListedSurvives == Spec => []ListedIsKept
<1>1. IInv => ListedIsKept
  BY DEF IInv, SaidInv, KeptIsRead, ListedIsKept
<1> QED BY <1>1, Inductive, PTL

-----------------------------------------------------------------------------
(***************************************************************************)
(* Types.                                                                  *)
(***************************************************************************)

\* A read leaves the tables typed, answered or not, and reports typed values.
LEMMA ReadTyped ==
  ASSUME TypeOK, NEW p \in Profiles, Refresh(p) \/ KeepTables
  PROVE  /\ source' \in Config
         /\ Bounds' \in Resolutions
         /\ encoder' \in [Profiles -> Config]
         /\ answered' \in [Profiles -> Setting \cup {None}]
         /\ lastRead' \in Profiles \cup {None}
<1>1. CASE Refresh(p)
  <2>1. PICK r \in name_to_value(video[p].resolution) :
           /\ source' = [resolution |-> r, rate |-> video[p].rate]
           /\ Bounds' = r
           /\ encoder' = [encoder EXCEPT ![p] =
                            [resolution |-> r, rate |-> video[p].rate]]
    BY <1>1 DEF Refresh
  <2>2. video[p] \in Setting
    BY DEF TypeOK
  <2>3. r \in Resolutions
    BY ValuesAreResolutions
  <2>4. [resolution |-> r, rate |-> video[p].rate] \in Config
    BY <2>2, <2>3 DEF Setting, Config
  <2>5. encoder' \in [Profiles -> Config]
    BY <2>1, <2>4 DEF TypeOK
  <2>6. answered' \in [Profiles -> Setting \cup {None}] /\ lastRead' = p
    BY <1>1, <2>2 DEF Refresh, TypeOK
  <2> QED
    BY <2>1, <2>3, <2>4, <2>5, <2>6
<1>2. CASE KeepTables
  BY <1>2 DEF KeepTables, TypeOK
<1> QED
  BY <1>1, <1>2

\* Every variable has its type, whatever names iconfig holds.
THEOREM TypeCorrect == Spec => []TypeOK
<1>1. Init => TypeOK
  <2> SUFFICES ASSUME Init PROVE TypeOK
    OBVIOUS
  <2>1. {<<1600, 1200>>, <<1920, 1080>>, <<704, 576>>} \subseteq Resolutions
    BY DEF Resolutions, Known, NameTable
  <2>2. source \in Config /\ Bounds \in Resolutions
    BY <2>1 DEF Init, Config
  <2>3. encoder \in [Profiles -> Config]
    BY <2>1 DEF Init, Profiles, Config
  <2> QED
    BY <2>2, <2>3 DEF Init, TypeOK
<1>2. TypeOK /\ [Next]_vars => TypeOK'
  <2> SUFFICES ASSUME TypeOK, [Next]_vars PROVE TypeOK'
    OBVIOUS
  <2>1. ASSUME NEW p \in Profiles, NEW f \in SUBSET Profiles,
               onvif_media_get_profile(p, f)
        PROVE  /\ source' \in Config /\ Bounds' \in Resolutions
               /\ encoder' \in [Profiles -> Config]
               /\ answered' \in [Profiles -> Setting \cup {None}]
               /\ lastRead' \in Profiles \cup {None}
               /\ fresh' \subseteq Profiles
               /\ \A q \in Profiles :
                    [bounds |-> Bounds', config |-> encoder'[q]] \in Reports
    <3>1. Refresh(p) \/ KeepTables
      BY <2>1 DEF onvif_media_get_profile
    <3>2. fresh' \subseteq Profiles
      BY <2>1 DEF onvif_media_get_profile
    <3> QED
      BY <3>1, <3>2, ReadTyped DEF Reports
  <2>2. CASE GetProfile
    <3>1. PICK p \in Profiles :
            onvif_media_get_profile(p, {}) /\ Report("GetProfile", {p})
      BY <2>2 DEF GetProfile
    <3>2. UNCHANGED <<video, pc, kept>>
      BY <2>2 DEF GetProfile
    <3> DEFINE of == [q \in {p} |-> [bounds |-> Bounds', config |-> encoder'[q]]]
    <3>3. of \in [{p} -> Reports]
      BY <2>1, <3>1
    <3>4. said' = [op |-> "GetProfile", of |-> of]
      BY <3>1 DEF Report
    <3> HIDE DEF of
    <3>5. said' \in [op : {"GetProfile"}, of : UNION {[{q} -> Reports] : q \in Profiles}]
      BY <3>3, <3>4
    <3> QED
      BY <2>1, <3>1, <3>2, <3>5 DEF TypeOK
  <2>3. CASE GetProfilesMain
    <3>1. /\ onvif_media_get_profile("main_profile", {})
          /\ said' = None /\ pc' = "sub" /\ UNCHANGED <<video, kept>>
      BY <2>3 DEF GetProfilesMain
    <3>2. /\ source' \in Config /\ Bounds' \in Resolutions
          /\ encoder' \in [Profiles -> Config]
          /\ answered' \in [Profiles -> Setting \cup {None}]
          /\ lastRead' \in Profiles \cup {None}
          /\ fresh' \subseteq Profiles
      BY <2>1, <3>1 DEF Profiles
    <3> QED
      BY <3>1, <3>2 DEF TypeOK
  <2>4. CASE GetProfilesSub
    <3>1. /\ onvif_media_get_profile("sub_profile", fresh)
          /\ Report("GetProfiles", Profiles)
          /\ pc' = "idle" /\ UNCHANGED <<video, kept>>
      BY <2>4 DEF GetProfilesSub
    <3>2. "sub_profile" \in Profiles /\ fresh \in SUBSET Profiles
      BY DEF Profiles, TypeOK
    <3>3. /\ source' \in Config /\ Bounds' \in Resolutions
          /\ encoder' \in [Profiles -> Config]
          /\ answered' \in [Profiles -> Setting \cup {None}]
          /\ lastRead' \in Profiles \cup {None}
          /\ fresh' \subseteq Profiles
          /\ \A q \in Profiles :
               [bounds |-> Bounds', config |-> encoder'[q]] \in Reports
      BY <2>1, <3>1, <3>2
    <3> DEFINE of == [q \in Profiles |-> [bounds |-> Bounds', config |-> encoder'[q]]]
    <3>4. of \in [Profiles -> Reports]
      BY <3>3
    <3>5. said' = [op |-> "GetProfiles", of |-> of]
      BY <3>1 DEF Report
    <3> HIDE DEF of
    <3>6. said' \in [op : {"GetProfiles"}, of : [Profiles -> Reports]]
      BY <3>4, <3>5
    <3> QED
      BY <3>1, <3>3, <3>6 DEF TypeOK
  <2>5. CASE SetVideoEncoderConfiguration
    <3> DEFINE Set(p, r, rate) ==
                 [resolution |-> IF r = None THEN video[p].resolution ELSE value_to_name(r),
                  rate |-> IF rate = None THEN video[p].rate ELSE rate]
    <3>1. PICK p \in Profiles, r \in Asked \cup {None}, rate \in Rates \cup {None} :
            \/ /\ video' = [video EXCEPT ![p] = Set(p, r, rate)]
               /\ kept' = [kept EXCEPT ![p] = IF r = None THEN kept[p] ELSE r]
            \/ UNCHANGED <<video, kept>>
      BY <2>5 DEF SetVideoEncoderConfiguration
    <3>2. Set(p, r, rate) \in Setting
      BY AskedAssumption DEF Setting, TypeOK
    <3>3. video' \in [Profiles -> Setting] /\ kept' \in [Profiles -> Asked \cup {None}]
      BY <3>1, <3>2 DEF TypeOK
    <3> QED
      BY <2>5, <3>3 DEF SetVideoEncoderConfiguration, TypeOK
  <2>6. CASE OthersChange
    <3>1. video' \in [Profiles -> Setting] /\ kept' \in [Profiles -> Asked \cup {None}]
      BY <2>6 DEF OthersChange, TypeOK
    <3> QED
      BY <2>6, <3>1 DEF OthersChange, TypeOK
  <2>7. CASE UNCHANGED vars
    BY <2>7 DEF vars, TypeOK
  <2> QED
    BY <2>2, <2>3, <2>4, <2>5, <2>6, <2>7 DEF Next
<1> QED BY <1>1, <1>2, PTL DEF Spec
=============================================================================
