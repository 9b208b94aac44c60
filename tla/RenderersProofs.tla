---------------------------- MODULE RenderersProofs ----------------------------
(***************************************************************************)
(* Proofs about SpsFix and Renderers, whichever is selected: for any set   *)
(* of resolutions, number of frames referred to and flags, what a decoder  *)
(* is sent; for any number of units and of their entries, that the Amlogic *)
(* decoder can decode what it took; and for any sizes, numbers of buffers  *)
(* and units, that the ring and the buffers of the i.MX decoder are kept   *)
(* in order.                                                               *)
(***************************************************************************)
EXTENDS Renderers, TLAPS

----------------------------------------------------------------------------
(* gs_sps_fix: an SPS and the entries around it.                           *)

(* Only the first entry of a unit may be an SPS, and it is of the host.    *)
LEMMA UnitShape ==
    ASSUME NEW nals \in Units
    PROVE  /\ nals \in Seq(Nal)
           /\ \/ Head(nals).type = "SPS" /\ Head(nals).sps \in HostSps
              \/ \A i \in DOMAIN nals : nals[i].type # "SPS"
           /\ Tail(nals) \in Seq(Nal)
           /\ \A i \in DOMAIN Tail(nals) : Tail(nals)[i].type # "SPS"
<1>1. \A s \in HostSps : SpsNal(s) \in Nal /\ SpsNal(s).type = "SPS" /\ SpsNal(s).sps = s
  BY DEF HostSps, SpsNal, Nal
<1>2. \A type \in {"PPS", "Slice"} : Plain(type) \in Nal /\ Plain(type).type = type
  BY DEF Plain, Nal
<1>3. CASE \E s \in HostSps : nals = <<SpsNal(s), Plain("PPS"), Plain("Slice")>>
  <2>1. PICK s \in HostSps : nals = <<SpsNal(s), Plain("PPS"), Plain("Slice")>>
    BY <1>3
  <2>2. Head(nals) = SpsNal(s) /\ Tail(nals) = <<Plain("PPS"), Plain("Slice")>>
    BY <2>1
  <2>3. nals \in Seq(Nal) /\ Tail(nals) \in Seq(Nal)
    BY <1>1, <1>2, <2>1, <2>2
  <2>4. Head(nals).type = "SPS" /\ Head(nals).sps \in HostSps
    BY <1>1, <2>2
  <2>5. \A i \in DOMAIN Tail(nals) : Tail(nals)[i].type # "SPS"
    <3>1. ASSUME NEW a, NEW b PROVE \A i \in DOMAIN <<a, b>> : <<a, b>>[i] \in {a, b}
      OBVIOUS
    <3>2. \A i \in DOMAIN Tail(nals) : Tail(nals)[i] \in {Plain("PPS"), Plain("Slice")}
      BY <2>2, <3>1
    <3> QED
      BY <1>2, <3>2
  <2> QED
    BY <2>3, <2>4, <2>5
<1>4. CASE \E s \in HostSps : nals = <<SpsNal(s)>>
  <2>1. PICK s \in HostSps : nals = <<SpsNal(s)>>
    BY <1>4
  <2>2. Head(nals) = SpsNal(s) /\ Tail(nals) = <<>>
    BY <2>1
  <2>3. nals \in Seq(Nal) /\ Tail(nals) \in Seq(Nal)
    BY <1>1, <2>1, <2>2
  <2> QED
    BY <1>1, <2>2, <2>3
<1>5. CASE \E type \in {"PPS", "Slice"} : nals = <<Plain(type)>>
  <2>1. PICK type \in {"PPS", "Slice"} : nals = <<Plain(type)>>
    BY <1>5
  <2>2. Tail(nals) = <<>>
    BY <2>1
  <2>3. nals \in Seq(Nal) /\ Tail(nals) \in Seq(Nal)
    BY <1>2, <2>1, <2>2
  <2>4. \A i \in DOMAIN nals : nals[i].type # "SPS"
    BY <1>2, <2>1
  <2> QED
    BY <2>2, <2>3, <2>4
<1> QED
  BY <1>3, <1>4, <1>5 DEF Units

(* The SPS of a list: that put before the rest of a unit, or none.         *)
SpsIn(entries) == {entries[i].sps : i \in {j \in DOMAIN entries : entries[j].type = "SPS"}}

LEMMA OneSps ==
    ASSUME NEW s \in Sps, NEW rest \in Seq(Nal),
           \A i \in DOMAIN rest : rest[i].type # "SPS"
    PROVE  /\ <<SpsNal(s)>> \o rest \in Seq(Nal)
           /\ SpsIn(<<SpsNal(s)>> \o rest) = {s}
<1> DEFINE entries == <<SpsNal(s)>> \o rest
<1>1. SpsNal(s) \in Nal /\ SpsNal(s).type = "SPS" /\ SpsNal(s).sps = s
  BY DEF SpsNal, Nal
<1>2. /\ entries \in Seq(Nal) /\ DOMAIN entries = 1 .. Len(rest) + 1
      /\ entries[1] = SpsNal(s)
      /\ \A i \in 2 .. Len(rest) + 1 : entries[i] = rest[i - 1]
  BY <1>1
<1>3. \A i \in DOMAIN entries : entries[i].type = "SPS" <=> i = 1
  BY <1>1, <1>2
<1>4. SpsIn(entries) = {entries[i].sps : i \in {1}}
  BY <1>2, <1>3 DEF SpsIn
<1> QED
  BY <1>1, <1>2, <1>4

LEMMA TwoBefore ==
    ASSUME NEW s \in Sps, NEW rest \in Seq(Nal),
           \A i \in DOMAIN rest : rest[i].type # "SPS"
    PROVE  /\ <<SpsNal(s), Plain("Overwritten")>> \o rest \in Seq(Nal)
           /\ SpsIn(<<SpsNal(s), Plain("Overwritten")>> \o rest) = {s}
<1> DEFINE after == <<Plain("Overwritten")>> \o rest
<1>1. Plain("Overwritten") \in Nal /\ Plain("Overwritten").type = "Overwritten"
  BY DEF Plain, Nal
<1>2. after \in Seq(Nal) /\ \A i \in DOMAIN after : after[i].type # "SPS"
  <2>1. /\ after \in Seq(Nal) /\ DOMAIN after = 1 .. Len(rest) + 1
        /\ after[1] = Plain("Overwritten")
        /\ \A i \in 2 .. Len(rest) + 1 : after[i] = rest[i - 1]
    BY <1>1
  <2> QED
    BY <1>1, <2>1
<1>3. <<SpsNal(s), Plain("Overwritten")>> \o rest = <<SpsNal(s)>> \o after
  <2>1. SpsNal(s) \in Nal
    BY DEF SpsNal, Nal
  <2> QED
    BY <1>1, <2>1
<1> QED
  BY <1>2, <1>3, OneSps

LEMMA NoSpsIn ==
    ASSUME NEW entries \in Seq(Nal), \A i \in DOMAIN entries : entries[i].type # "SPS"
    PROVE  SpsIn(entries) = {}
BY DEF SpsIn

----------------------------------------------------------------------------
(* The inductive invariant: the width and the height are still good for    *)
(* the resolutions that are known, a replayed SPS was read, both it and    *)
(* what was sent of the last unit have been fixed, and the profile told is *)
(* the baseline until replay_sps says that the high one was replayed.      *)
Accepted(s) ==
    /\ <<width, height>> = <<1280, 720>> => s.level_idc = 32
    /\ <<width, height>> = <<1920, 1080>> => s.level_idc = 42
    /\ s.bitstream_restriction_flag => s.max_dec_frame_buffering >= s.num_ref_frames

Profiled ==
    /\ given # <<>> => sps \in Sps
    /\ given # <<>> \/ sps # NoSps => (sps.profile_idc = "HIGH" <=> ~BaselineHack \/ replay_sps = 2)
    /\ given # <<>> /\ Head(given).type = "PPS" /\ BaselineHack => replay_sps # 0
    /\ replay_sps # 0 => BaselineHack

IInv ==
    /\ TypeOK /\ Profiled
    /\ width = 1280 /\ height = 720 => initial_width = 1280
    /\ replay_sps # 0 => sps \in Sps /\ Accepted(sps)
    /\ sps # NoSps => Accepted(sps)
    /\ \A s \in Sent : Accepted(s)

(* An SPS of the host that was fixed, is one decoders accept.              *)
LEMMA FixedAccepted ==
    ASSUME IInv, NEW s \in HostSps
    PROVE  Fixed(s) \in Sps /\ Accepted(Fixed(s))
<1>1. /\ s \in Sps /\ initial_height = height /\ initial_width \in {0, 1, width}
      /\ <<width, height>> \in Nat \X Nat
  BY SpsAssumption DEF IInv, TypeOK, HostSps
<1>2. LevelAndWidth(s.level_idc)[1] \in {32, 42, 50}
  BY <1>1 DEF LevelAndWidth, Sps
<1>3. Fixed(s) \in Sps
  <2> DEFINE restricted == Fixup
             level == LevelAndWidth(s.level_idc)[1]
             buffering == IF Fixup THEN 1 ELSE s.max_dec_frame_buffering
             profile == IF BaselineHack /\ replay_sps = 0 THEN "BASELINE" ELSE s.profile_idc
  <2>1. restricted \in BOOLEAN
    BY DEF Fixup
  <2>2. buffering \in 1 .. MaxRefs
    BY <1>1, SpsAssumption DEF Sps
  <2>3. profile \in {"BASELINE", "HIGH"}
    BY <1>1 DEF Sps
  <2>4. Fixed(s) = [s EXCEPT !.level_idc = level, !.num_ref_frames = 1,
                             !.bitstream_restriction_flag = restricted,
                             !.max_dec_frame_buffering = buffering,
                             !.profile_idc = profile]
    BY Zenon DEF Fixed
  <2>5. level \in {32, 42, 50}
    BY <1>2
  <2> HIDE DEF restricted, level, buffering, profile
  <2>6. [s EXCEPT !.level_idc = level, !.num_ref_frames = 1,
                  !.bitstream_restriction_flag = restricted,
                  !.max_dec_frame_buffering = buffering,
                  !.profile_idc = profile] \in Sps
    <3>1. 1 \in 1 .. MaxRefs
      BY SpsAssumption
    <3> QED
      BY <1>1, <2>1, <2>2, <2>3, <2>5, <3>1 DEF Sps
  <2> QED
    BY <2>4, <2>6, Zenon
<1>4. /\ Fixed(s).level_idc = LevelAndWidth(s.level_idc)[1]
      /\ Fixed(s).num_ref_frames = 1
      /\ Fixed(s).max_dec_frame_buffering \in Nat \ {0}
  BY <1>1, <1>3, SpsAssumption DEF Fixed, Sps
<1>5. width = 1280 /\ height = 720 => LevelAndWidth(s.level_idc)[1] = 32
  BY <1>1 DEF LevelAndWidth, IInv
<1>6. width = 1920 /\ height = 1080 => LevelAndWidth(s.level_idc)[1] = 42
  BY <1>1 DEF LevelAndWidth
<1> QED
  BY <1>1, <1>3, <1>4, <1>5, <1>6 DEF Accepted

----------------------------------------------------------------------------
(* The steps.                                                              *)

LEMMA InitIInv == Init => IInv
<1> SUFFICES ASSUME Init PROVE IInv
  OBVIOUS
<1>1. TypeOK
  <2>1. PICK r \in Resolutions : width = r[1] /\ height = r[2]
    BY DEF Init
  <2>2. r = <<r[1], r[2]>>
    BY SpsAssumption
  <2>3. <<width, height>> \in Resolutions
    BY <2>1, <2>2
  <2> QED
    BY <2>3 DEF Init, TypeOK
<1>2. Sent = {}
  BY DEF Init, Sent
<1>3. Profiled
  BY DEF Init, Profiled
<1> QED
  BY <1>1, <1>2, <1>3 DEF Init, IInv

(* What one call sends, and what it leaves: from the facts every case has. *)
LEMMA StepIInv ==
    ASSUME IInv, NEW nals \in Units, MayCome(nals), gs_sps_fix(nals)
    PROVE  IInv' /\ StaysHigh
<1>0. /\ nals \in Seq(Nal) /\ Tail(nals) \in Seq(Nal)
      /\ Head(nals).type = "SPS" => Head(nals).sps \in HostSps
      /\ \A i \in DOMAIN Tail(nals) : Tail(nals)[i].type # "SPS"
      /\ Head(nals).type # "SPS" => \A i \in DOMAIN nals : nals[i].type # "SPS"
  BY UnitShape
<1>1. Sent' = SpsIn(list')
  BY DEF Sent, SpsIn
<1>2. width' = width /\ height' = height /\ initial_height' = initial_height
      /\ flags' = flags /\ given' = nals
  BY DEF gs_sps_fix, ReplaySps, FixSps, SeePps, PassOn, Gets
<1>3. (\A s : Accepted(s)' <=> Accepted(s)) /\ (BaselineHack' <=> BaselineHack)
  BY <1>2 DEF Accepted, BaselineHack
<1>7. given # <<>> /\ (Head(given).type = "PPS" \/ sps.profile_idc = "HIGH") =>
        ~BaselineHack \/ replay_sps # 0
  BY DEF IInv, Profiled, TypeOK
<1>4. CASE ReplaySps(nals)
  <2>1. sps \in Sps /\ Accepted(sps)
    BY <1>4 DEF IInv, ReplaySps
  <2>2. sps' = [sps EXCEPT !.profile_idc = "HIGH"]
    BY <1>4 DEF ReplaySps
  <2>3. sps' \in Sps /\ Accepted(sps') /\ sps'.profile_idc = "HIGH"
    BY <2>1, <2>2 DEF Sps, Accepted
  <2>4. list' \in Seq(Nal) /\ Sent' = {sps'}
    BY <1>0, <1>1, <1>4, <2>3, TwoBefore DEF ReplaySps
  <2>5. replay_sps' = 2 /\ initial_width' = initial_width
    BY <1>4 DEF ReplaySps
  <2>6. TypeOK'
    BY <1>0, <1>2, <2>3, <2>4, <2>5 DEF TypeOK, IInv
  <2>7. Profiled'
    BY <1>3, <1>4, <2>3, <2>5 DEF IInv, Profiled, ReplaySps
  <2>8. StaysHigh
    <3>1. list'[1] = SpsNal(sps')
      BY <1>4 DEF ReplaySps
    <3> QED
      BY <2>3, <2>4, <3>1 DEF StaysHigh
  <2> QED
    BY <1>2, <1>3, <2>3, <2>4, <2>5, <2>6, <2>7, <2>8 DEF IInv
<1>5. CASE FixSps(nals)
  <2>1. Head(nals).sps \in HostSps /\ sps' = Fixed(Head(nals).sps)
    BY <1>0, <1>5 DEF FixSps
  <2>2. sps' \in Sps /\ Accepted(sps')
    BY <2>1, FixedAccepted
  <2>3. sps'.profile_idc = "HIGH" <=> ~BaselineHack \/ replay_sps # 0
    BY <2>1 DEF Fixed, HostSps, Sps
  <2>4. list' \in Seq(Nal) /\ Sent' = {sps'}
    BY <1>0, <1>1, <1>5, <2>2, OneSps DEF FixSps
  <2>5. /\ replay_sps' = replay_sps /\ initial_width' \in {0, 1, initial_width}
        /\ width = 1280 /\ height = 720 => initial_width' = initial_width
    BY <1>5 DEF FixSps, LevelAndWidth, IInv, TypeOK
  <2>6. TypeOK'
    BY <1>0, <1>2, <2>2, <2>4, <2>5 DEF TypeOK, IInv
  <2>7. Profiled'
    <3>1. replay_sps \in {0, 2} /\ Head(nals).type # "PPS"
      BY <1>5 DEF FixSps, IInv, TypeOK
    <3> QED
      BY <1>2, <1>3, <2>2, <2>3, <2>5, <3>1 DEF IInv, Profiled
  <2>8. StaysHigh
    <3>1. list'[1] = SpsNal(sps')
      BY <1>5 DEF FixSps
    <3> QED
      BY <1>7, <2>3, <2>4, <3>1 DEF StaysHigh
  <2> QED
    BY <1>2, <1>3, <2>2, <2>4, <2>5, <2>6, <2>7, <2>8 DEF IInv
<1>6. CASE SeePps(nals) \/ PassOn(nals)
  <2>1. /\ list' = nals /\ sps' = sps /\ initial_width' = initial_width
        /\ Head(nals).type # "SPS"
    BY <1>6 DEF SeePps, PassOn
  <2>2. sps # NoSps
    BY <2>1 DEF MayCome
  <2>3. sps \in Sps /\ Accepted(sps) /\ replay_sps' \in 0 .. 2
    BY <1>6, <2>2 DEF IInv, TypeOK, SeePps, PassOn
  <2>4. Sent' = {}
    BY <1>0, <1>1, <2>1, NoSpsIn
  <2>5. TypeOK'
    BY <1>0, <1>2, <2>1, <2>3 DEF TypeOK, IInv
  <2>6. /\ replay_sps \in {0, 2} /\ (replay_sps' = 2 <=> replay_sps = 2)
        /\ replay_sps' # 0 => BaselineHack
        /\ Head(nals).type = "PPS" /\ BaselineHack => replay_sps' # 0
    BY <1>6 DEF SeePps, PassOn, IInv, TypeOK, Profiled
  <2>7. Profiled'
    BY <1>2, <1>3, <2>1, <2>2, <2>3, <2>6 DEF IInv, Profiled
  <2>8. StaysHigh
    <3>1. ~BaselineHack \/ replay_sps # 0 => sps.profile_idc = "HIGH"
      BY <2>2, <2>6 DEF IInv, Profiled
    <3> QED
      BY <1>7, <2>1, <2>4, <3>1 DEF StaysHigh
  <2> QED
    BY <1>2, <1>3, <2>1, <2>3, <2>4, <2>5, <2>7, <2>8 DEF IInv
<1> QED
  BY <1>4, <1>5, <1>6 DEF gs_sps_fix

LEMMA NextIInv == IInv /\ [Next]_vars => IInv'
<1> SUFFICES ASSUME IInv, [Next]_vars PROVE IInv'
  OBVIOUS
<1>1. CASE Next
  BY <1>1, StepIInv DEF Next
<1>2. CASE UNCHANGED vars
  BY <1>2 DEF vars, IInv, TypeOK, Accepted, Sent, Profiled, BaselineHack
<1> QED
  BY <1>1, <1>2

LEMMA SpecIInv == Spec => []IInv
BY InitIInv, NextIInv, PTL DEF Spec

----------------------------------------------------------------------------
(* gs_sps_fix: every SPS that is passed on, fixed or replayed, has the     *)
(* level of a resolution it knows, and buffers what it refers to.          *)
THEOREM AlwaysAccepted == Spec => []SpsAccepted
<1>1. IInv => SpsAccepted
  BY DEF IInv, Accepted, SpsAccepted, KnownLevels, BufferingSuffices
<1> QED
  BY <1>1, SpecIInv, PTL

(* gs_sps_fix with replay_sps: from the unit after one that begins with a  *)
(* PPS on, the decoder has been told of the high profile before anything   *)
(* else, and is told of no other.                                          *)
THEOREM HighOnceReplayed == Spec => HighAfterReplay
<1>1. IInv /\ [Next]_vars => [StaysHigh]_vars
  BY StepIInv DEF Next
<1> QED
  BY <1>1, SpecIInv, PTL DEF Spec, HighAfterReplay

(* Every renderer keeps to the stream of SpsFix: what pi.c does to a unit  *)
(* besides, and all that the others do, leaves the SPS alone.              *)
THEOREM RenderersFixSps == RenderersSpec => Spec
<1>1. RenderersInit => Init
  BY DEF RenderersInit
<1>2. ASSUME [RenderersNext]_allVars PROVE [Next]_vars
  <2>1. CASE ImxStep \/ AmlStep \/ UNCHANGED allVars
    BY <2>1 DEF ImxStep, AmlStep, allVars, piAll
  <2>2. CASE LibraryStep
    BY <2>2 DEF LibraryStep
  <2>3. CASE PiStep
    <3>1. CASE \E u \in Units : FillBuffer(u)
      BY <3>1 DEF FillBuffer, Next
    <3>2. CASE ~ \E u \in Units : FillBuffer(u)
      BY <2>3, <3>2 DEF PiStep, PiNext, PiClient, PiComponent, PiSetup, PiSubmit,
           EmptyThisBuffer, SubmitFails, PiCleanup, PiCleanedUp, Announce, EmptyBufferDone
    <3> QED
      BY <3>1, <3>2
  <2> QED
    BY <1>2, <2>1, <2>2, <2>3 DEF RenderersNext
<1> QED
  BY <1>1, <1>2, PTL DEF RenderersSpec, Spec

(* So no decoder is sent an SPS it cannot use, the Raspberry Pi's by its   *)
(* own renderer least of all.                                              *)
THEOREM DecodersAccept == RenderersSpec => []SpsAccepted /\ HighAfterReplay
BY RenderersFixSps, AlwaysAccepted, HighOnceReplayed, PTL

----------------------------------------------------------------------------
(* The Amlogic decoder.                                                    *)

LastTaken == fed[Len(fed)]

(* Between units, the decoder has the last one whole or an IDR frame was   *)
(* asked for; within one, it has the entries before this, or else all that *)
(* the unit goes on from.                                                  *)
Whole == fed # <<>> /\ LastTaken.unit = unit /\ LastTaken.entry = unit.entries

Continues ==
    IF entry = 1
    THEN IF fed = <<>> THEN unit.idr
         ELSE /\ LastTaken.entry = LastTaken.unit.entries
              /\ unit.idr \/ unit.number = LastTaken.unit.number + 1
    ELSE fed # <<>> /\ LastTaken.unit = unit /\ LastTaken.entry + 1 = entry

FedType == fed \in Seq([unit : Aml!Unit, entry : Nat])

FeedInv ==
    /\ FedType /\ unit \in Aml!Unit /\ entry \in Nat \ {0} /\ needIdr \in BOOLEAN
    /\ Aml!DecodableFeed
    /\ aml_at \in {"setup", "open"} => needIdr /\ fed = <<>>
    /\ aml_at = "idle" => (needIdr /\ fed = <<>>) \/ Whole
    /\ aml_at = "write" => Continues

LEMMA FeedInit == Aml!Init => FeedInv
BY RenderersAssumption DEF Aml!Init, FeedInv, FedType, Aml!Unit, Aml!DecodableFeed

(* An entry that continues what the decoder took keeps that decodable.     *)
LEMMA EntryFollows ==
    ASSUME FeedInv, Aml!WriteEntry
    PROVE  /\ fed' \in Seq([unit : Aml!Unit, entry : Nat])
           /\ fed' # <<>> /\ fed'[Len(fed')] = [unit |-> unit, entry |-> entry]
           /\ fed'[1].entry = 1 /\ fed'[1].unit.idr
           /\ \A i \in 2 .. Len(fed') : Aml!Follows(fed'[i], fed'[i - 1])
<1> DEFINE e == [unit |-> unit, entry |-> entry]
<1>1. e \in [unit : Aml!Unit, entry : Nat] /\ e.unit = unit /\ e.entry = entry
  BY DEF FeedInv
<1>2. /\ fed' \in Seq([unit : Aml!Unit, entry : Nat]) /\ Len(fed') = Len(fed) + 1
      /\ fed'[Len(fed) + 1] = e /\ \A i \in 1 .. Len(fed) : fed'[i] = fed[i]
      /\ Len(fed) \in Nat
  BY <1>1 DEF FeedInv, FedType, Aml!WriteEntry
<1>3. Continues /\ Aml!DecodableFeed
  BY DEF FeedInv, Aml!WriteEntry
<1>4. CASE fed = <<>>
  <2>1. Len(fed) = 0 /\ fed'[1] = e
    BY <1>2, <1>4
  <2>2. entry = 1 /\ unit.idr
    BY <1>3, <1>4 DEF Continues
  <2> QED
    BY <1>1, <1>2, <2>1, <2>2
<1>5. CASE fed # <<>>
  <2>1. Len(fed) >= 1
    BY <1>2, <1>5 DEF FeedInv, FedType
  <2>2. fed'[1].entry = 1 /\ fed'[1].unit.idr
    BY <1>2, <1>3, <1>5, <2>1 DEF Aml!DecodableFeed
  <2>3. Aml!Follows(e, LastTaken)
    <3>1. LastTaken \in [unit : Aml!Unit, entry : Nat] /\ entry \in Nat
      <4> DEFINE Entries == [unit : Aml!Unit, entry : Nat]
      <4>1. fed \in Seq(Entries) /\ entry \in Nat
        BY DEF FeedInv, FedType
      <4> HIDE DEF e, Entries
      <4>2. LastTaken \in Entries
        BY <2>1, <4>1 DEF LastTaken
      <4> QED
        BY <4>1, <4>2 DEF Entries
    <3>2. CASE entry = 1
      BY <1>1, <1>3, <1>5, <3>2 DEF Continues, Aml!Follows
    <3>3. CASE entry # 1
      BY <1>1, <1>3, <3>1, <3>3 DEF Continues, Aml!Follows
    <3> QED
      BY <3>2, <3>3
  <2>4. \A i \in 2 .. Len(fed) : Aml!Follows(fed'[i], fed'[i - 1])
    BY <1>2, <1>3 DEF Aml!DecodableFeed
  <2>5. Aml!Follows(fed'[Len(fed) + 1], fed'[Len(fed) + 1 - 1])
    BY <1>2, <2>1, <2>3 DEF LastTaken
  <2>6. 2 .. Len(fed') = (2 .. Len(fed)) \cup {Len(fed) + 1}
    BY <1>2, <2>1
  <2> QED
    BY <1>2, <2>2, <2>4, <2>5, <2>6
<1> QED
  BY <1>4, <1>5

LEMMA FeedNext == FeedInv /\ (Aml!Next \/ UNCHANGED aml) => FeedInv'
<1> SUFFICES ASSUME FeedInv, Aml!Next \/ UNCHANGED aml PROVE FeedInv'
  OBVIOUS
<1>1. CASE Aml!Setup
  BY <1>1 DEF Aml!Setup, FeedInv, FedType, Aml!DecodableFeed
<1>2. ASSUME NEW codec, NEW size, NEW oldKernel, Aml!Open(codec, size, oldKernel) PROVE FeedInv'
  BY <1>2 DEF Aml!Open, FeedInv, FedType, Aml!DecodableFeed
<1>3. ASSUME NEW u \in Aml!Unit, Aml!SubmitUnit(u) PROVE FeedInv'
  <2>1. /\ fed' = fed /\ unit' = u /\ entry' = 1 /\ needIdr' = FALSE /\ aml_at' = "write"
        /\ aml_at = "idle" /\ (u.idr \/ (~needIdr /\ u.number = unit.number + 1))
    BY <1>3 DEF Aml!SubmitUnit
  <2>2. Continues'
    BY <2>1 DEF Continues, Whole, LastTaken, FeedInv
  <2>3. FedType' /\ Aml!DecodableFeed'
    BY <2>1 DEF FeedInv, FedType, Aml!DecodableFeed
  <2>4. unit' \in Aml!Unit /\ entry' \in Nat \ {0} /\ needIdr' \in BOOLEAN /\ aml_at' = "write"
    <3>1. needIdr' = FALSE
      BY <2>1
    <3>2. needIdr' \in BOOLEAN
      BY <3>1, Zenon
    <3> QED
      BY <1>3, <2>1, <3>2
  <2> QED
    BY <2>2, <2>3, <2>4 DEF FeedInv
<1>4. CASE Aml!WriteEntry
  <2> DEFINE e == [unit |-> unit, entry |-> entry]
  <2>1. /\ aml_at = "write" /\ fed' = Append(fed, e) /\ entry' = entry + 1
        /\ aml_at' = IF entry = unit.entries THEN "idle" ELSE "write"
        /\ unit' = unit /\ needIdr' = needIdr
    BY <1>4 DEF Aml!WriteEntry
  <2>2. /\ fed' \in Seq([unit : Aml!Unit, entry : Nat])
        /\ fed' # <<>> /\ fed'[Len(fed')] = e
        /\ fed'[1].entry = 1 /\ fed'[1].unit.idr
        /\ \A i \in 2 .. Len(fed') : Aml!Follows(fed'[i], fed'[i - 1])
    BY <1>4, EntryFollows
  <2>3. aml_at' = "idle" => Whole'
    BY <2>1, <2>2 DEF Whole, LastTaken
  <2>4. aml_at' = "write" => Continues'
    <3>1. LastTaken' = e /\ e.unit = unit /\ e.entry = entry /\ entry' # 1
      BY <2>1, <2>2 DEF LastTaken, FeedInv
    <3> QED
      BY <2>1, <2>2, <3>1 DEF Continues, FeedInv
  <2>5. Aml!DecodableFeed'
    BY <2>2 DEF Aml!DecodableFeed, Aml!Follows
  <2> QED
    BY <2>1, <2>2, <2>3, <2>4, <2>5 DEF FeedInv, FedType
<1>5. CASE Aml!WriteFails
  BY <1>5 DEF Aml!WriteFails, FeedInv, FedType, Aml!DecodableFeed
<1>6. CASE Aml!Cleanup
  BY <1>6 DEF Aml!Cleanup, FeedInv, FedType, Aml!DecodableFeed
<1>7. CASE UNCHANGED aml
  BY <1>7 DEF aml, FeedInv, FedType, Aml!DecodableFeed, Whole, Continues, LastTaken
<1> QED
  BY <1>1, <1>2, <1>3, <1>4, <1>5, <1>6, <1>7 DEF Aml!Next

(* aml_submit_decode_unit and the IDR frame it asks for: no write that     *)
(* fails, and no loss on the way, leaves the decoder with a gap.           *)
THEOREM FeedIsDecodable == RenderersSpec => []DecodableFeed
<1>1. RenderersInit => FeedInv
  BY FeedInit DEF RenderersInit
<1>2. FeedInv /\ [RenderersNext]_allVars => FeedInv'
  BY FeedNext DEF RenderersNext, ImxStep, AmlStep, PiStep, LibraryStep, allVars
<1>3. FeedInv => DecodableFeed
  BY DEF FeedInv, DecodableFeed
<1> QED
  BY <1>1, <1>2, <1>3, PTL DEF RenderersSpec

----------------------------------------------------------------------------
(* Remainders, of which the provers know little.                           *)

(* What the definition of % says.                                          *)
LEMMA ModDef ==
    ASSUME NEW x \in Int, NEW m \in Nat, m > 0
    PROVE  x % m \in 0 .. m - 1 /\ \E q \in Int : x = m * q + (x % m)
<1>1. x \div m \in Int /\ x = m * (x \div m) + (x % m) /\ 0 <= x % m /\ x % m < m
  OBVIOUS
<1>2. x % m \in 0 .. m - 1
  BY <1>1
<1>3. \E q \in Int : x = m * q + (x % m)
  BY <1>1, Zenon
<1> QED
  BY <1>2, <1>3

(* There is but one way to write a number with a remainder.                *)
LEMMA ModUnique ==
    ASSUME NEW m \in Nat, m > 0, NEW q \in Int, NEW r \in 0 .. m - 1
    PROVE  (m * q + r) % m = r
<1> DEFINE x == m * q + r
<1>1. x \in Int
  OBVIOUS
<1>2. PICK p \in Int : x = m * p + (x % m)
  BY <1>1, ModDef
<1>3. x % m \in 0 .. m - 1
  BY <1>1, ModDef
<1> HIDE DEF x
<1>4. ~(p < q)
  <2> SUFFICES ASSUME p < q PROVE FALSE
    OBVIOUS
  <2>1. PICK d \in Nat : q = p + 1 + d
    BY q - p - 1 \in Nat
  <2>2. m * q = m * p + m + m * d /\ m * d \in Nat
    BY <2>1
  <2> QED
    BY <1>2, <1>3, <2>2 DEF x
<1>5. ~(q < p)
  <2> SUFFICES ASSUME q < p PROVE FALSE
    OBVIOUS
  <2>1. PICK d \in Nat : p = q + 1 + d
    BY p - q - 1 \in Nat
  <2>2. m * p = m * q + m + m * d /\ m * d \in Nat
    BY <2>1
  <2> QED
    BY <1>2, <1>3, <2>2 DEF x
<1>6. m * p = m * q
  BY <1>4, <1>5
<1> QED
  BY <1>1, <1>2, <1>3, <1>6 DEF x

(* A multiple of m more or less makes no difference.                       *)
LEMMA ModTurn ==
    ASSUME NEW x \in Int, NEW m \in Nat, m > 0
    PROVE  (x + m) % m = x % m /\ (x - m) % m = x % m
<1>1. PICK q \in Int : x = m * q + (x % m)
  BY ModDef
<1>2. x % m \in 0 .. m - 1
  BY ModDef
<1>3. x + m = m * (q + 1) + (x % m) /\ x - m = m * (q - 1) + (x % m)
  BY <1>1, <1>2
<1>4. (m * (q + 1) + (x % m)) % m = x % m /\ (m * (q - 1) + (x % m)) % m = x % m
  BY <1>2, ModUnique
<1> QED
  BY <1>3, <1>4

LEMMA ModSmall ==
    ASSUME NEW m \in Nat, m > 0, NEW x \in 0 .. m - 1
    PROVE  x % m = x
<1>1. (m * 0 + x) % m = x
  BY ModUnique
<1> QED
  BY <1>1

(* A remainder can be taken before another summand is added.               *)
LEMMA ModPlus ==
    ASSUME NEW x \in Int, NEW y \in Int, NEW m \in Nat, m > 0
    PROVE  ((x % m) + y) % m = (x + y) % m
<1>1. PICK q \in Int : x = m * q + (x % m)
  BY ModDef
<1>2. x % m \in Int /\ (x % m) + y \in Int
  BY ModDef
<1>3. PICK p \in Int : (x % m) + y = m * p + (((x % m) + y) % m)
  BY <1>2, ModDef
<1>6. ((x % m) + y) % m \in 0 .. m - 1
  BY <1>2, ModDef
<1>4. x + y = m * (q + p) + (((x % m) + y) % m)
  <2>1. m * (q + p) = m * q + m * p
    OBVIOUS
  <2> QED
    BY <1>1, <1>2, <1>3, <1>6, <2>1
<1>5. (m * (q + p) + (((x % m) + y) % m)) % m = ((x % m) + y) % m
  BY <1>6, ModUnique
<1> QED
  BY <1>4, <1>5
----------------------------------------------------------------------------
(* The i.MX decoder: its ring.                                             *)

(* The bytes not read yet, of units told to the VPU and of the one being   *)
(* written; they reach up to `at'.                                         *)
Unread == IF imx_at = "write" THEN filled + copied ELSE filled
Reaches(at) == \A i \in 1 .. Unread : ring[(at - i) % Ring] = (sent - i) % Imx!Turn

(* What is left to write of a unit: where its entries end.                 *)
Rising(done, s) ==
    \A i \in 1 .. Len(s) : done < s[i] /\ \A j \in 1 .. i - 1 : s[j] < s[i]

(* The inductive invariant: what was written of the unit at hand lies      *)
(* behind what the VPU knows of, and wr is where the unit began.           *)
RingInv ==
    /\ ring \in [0 .. Ring - 1 -> 0 .. Imx!Turn - 1] /\ sent \in 0 .. Imx!Turn - 1
    /\ wr \in 0 .. Ring - 1 /\ filled \in 0 .. Ring - 1 /\ short \in BOOLEAN
    /\ imx_at # "write" /\ ~short => Reaches(wr)
    /\ imx_at = "write" =>
         /\ target_addr \in 0 .. Ring /\ copied \in Nat /\ fullLength \in Nat
         /\ todo \in Seq(1 .. Ring - 1)
         /\ Rising(copied, todo)
         /\ fullLength = IF todo = <<>> THEN copied ELSE todo[Len(todo)]
         /\ ~short => /\ fullLength + filled < Ring
                      /\ wr = (target_addr - copied) % Ring
                      /\ Reaches(target_addr)

LEMMA RingSizes == Ring \in Nat /\ Ring > 0 /\ Imx!Turn \in Nat /\ Imx!Turn = 2 * Ring /\ Imx!Turn > 0
BY RenderersAssumption DEF Imx!Turn

(* The place in the ring of what is less than a turn away from its ends.   *)
LEMMA Place ==
    ASSUME NEW x \in Int, -Ring <= x, x < 2 * Ring
    PROVE  x % Ring = IF x < 0 THEN x + Ring ELSE IF x < Ring THEN x ELSE x - Ring
<1>1. CASE x < 0
  <2>1. x + Ring \in 0 .. Ring - 1
    BY <1>1, RingSizes
  <2>2. (x + Ring) % Ring = x + Ring
    BY <2>1, RingSizes, ModSmall
  <2> QED
    BY <1>1, <2>2, RingSizes, ModTurn
<1>2. CASE 0 <= x /\ x < Ring
  <2>1. x \in 0 .. Ring - 1
    BY <1>2, RingSizes
  <2> QED
    BY <1>2, <2>1, RingSizes, ModSmall
<1>3. CASE Ring <= x
  <2>1. x - Ring \in 0 .. Ring - 1
    BY <1>3, RingSizes
  <2>2. (x - Ring) % Ring = x - Ring
    BY <2>1, RingSizes, ModSmall
  <2> QED
    BY <1>3, <2>2, RingSizes, ModTurn
<1> QED
  BY <1>1, <1>2, <1>3, RingSizes

(* An entry written behind bytes that are in order leaves them and itself  *)
(* in order, split or not, as long as all of them fit.                     *)
LEMMA CopiedInOrder ==
    ASSUME NEW from \in 0 .. Ring, NEW n \in 1 .. Ring - 1, NEW w \in Nat, w + n < Ring,
           sent \in 0 .. Imx!Turn - 1, ring \in [0 .. Ring - 1 -> 0 .. Imx!Turn - 1],
           \A i \in 1 .. w : ring[(from - i) % Ring] = (sent - i) % Imx!Turn,
           NEW i \in 1 .. w + n
    PROVE  Imx!Copied(from, n)[(from + n - i) % Ring] = (sent + n - i) % Imx!Turn
<1> USE RingSizes
<1> DEFINE a == (from + n - i) % Ring
<1>1. a = IF from + n - i < 0 THEN from + n - i + Ring
          ELSE IF from + n - i < Ring THEN from + n - i ELSE from + n - i - Ring
  BY Place
<1>2. a \in 0 .. Ring - 1
  BY <1>1
<1> HIDE DEF a
<1>3. Imx!Copied(from, n)[a]
        = CASE a \in from .. from + n - 1 -> (sent + a - from) % Imx!Turn
            [] a < from + n - Ring        -> (sent + Ring - from + a) % Imx!Turn
            [] OTHER                      -> ring[a]
  BY <1>2, Zenon DEF Imx!Copied
<1>4. CASE i <= n
  <2>1. CASE from + n - i < Ring
    <3>1. a = from + n - i /\ a \in from .. from + n - 1 /\ ~(a < from + n - Ring)
      BY <1>1, <1>4, <2>1
    <3>2. Imx!Copied(from, n)[a] = (sent + a - from) % Imx!Turn
      BY <1>3, <3>1, Zenon
    <3>3. sent + a - from = sent + n - i
      BY <3>1
    <3> QED
      BY <3>2, <3>3 DEF a
  <2>2. CASE ~(from + n - i < Ring)
    <3>1. a = from + n - i - Ring /\ a \notin from .. from + n - 1 /\ a < from + n - Ring
      BY <1>1, <1>4, <2>2
    <3>2. Imx!Copied(from, n)[a] = (sent + Ring - from + a) % Imx!Turn
      BY <1>3, <3>1, Zenon
    <3>3. sent + Ring - from + a = sent + n - i
      BY <3>1
    <3> QED
      BY <3>2, <3>3 DEF a
  <2> QED
    BY <2>1, <2>2
<1>5. CASE ~(i <= n)
  <2> DEFINE j == i - n
  <2>1. j \in 1 .. w /\ from - j = from + n - i /\ sent - j = sent + n - i
    BY <1>5
  <2>2. ring[a] = (sent + n - i) % Imx!Turn
    <3>1. ring[(from - j) % Ring] = (sent - j) % Imx!Turn
      BY <2>1
    <3> QED
      BY <2>1, <3>1 DEF a
  <2>3. a \notin from .. from + n - 1 /\ ~(a < from + n - Ring)
    BY <1>1, <1>5
  <2>4. Imx!Copied(from, n)[a] = ring[a]
    BY <1>3, <2>3, Zenon
  <2> QED
    BY <2>2, <2>4 DEF a
<1> QED
  BY <1>4, <1>5

LEMMA RingInit == Imx!Init => RingInv
<1> SUFFICES ASSUME Imx!Init PROVE RingInv
  OBVIOUS
<1>1. /\ imx_at = "setup" /\ filled = 0 /\ sent = 0 /\ wr = 0 /\ short = FALSE
      /\ ring = [a \in 0 .. Ring - 1 |-> 0]
  BY DEF Imx!Init
<1>2. 0 \in 0 .. Imx!Turn - 1 /\ 0 \in 0 .. Ring - 1
  BY RingSizes
<1>3. Unread = 0 /\ Reaches(wr)
  BY <1>1 DEF Unread, Reaches
<1>4. short \in BOOLEAN /\ ring \in [0 .. Ring - 1 -> 0 .. Imx!Turn - 1]
  BY <1>1, <1>2, Zenon
<1> QED
  BY <1>1, <1>2, <1>3, <1>4 DEF RingInv

(* What is left to write of a unit, one entry on.                          *)
LEMMA TodoShrinks ==
    ASSUME NEW s \in Seq(1 .. Ring - 1), NEW done \in Nat, s # <<>>, Rising(done, s)
    PROVE  /\ s[1] \in 1 .. Ring - 1 /\ Head(s) = s[1] /\ done < s[1]
           /\ s[1] <= s[Len(s)] /\ s[Len(s)] \in 1 .. Ring - 1
           /\ Tail(s) \in Seq(1 .. Ring - 1) /\ Rising(s[1], Tail(s))
           /\ s[Len(s)] = IF Tail(s) = <<>> THEN s[1] ELSE Tail(s)[Len(Tail(s))]
<1> DEFINE S == 1 .. Ring - 1
<1> HIDE DEF S
<1>1. s \in Seq(S)
  BY DEF S
<1>2. /\ Len(s) \in Nat /\ Len(s) > 0 /\ Head(s) = s[1]
      /\ \A i \in 1 .. Len(s) : s[i] \in S
      /\ Tail(s) \in Seq(S) /\ Len(Tail(s)) = Len(s) - 1
      /\ \A i \in 1 .. Len(s) - 1 : Tail(s)[i] = s[i + 1]
  BY <1>1
<1>3. 1 \in 1 .. Len(s) /\ Len(s) \in 1 .. Len(s)
  BY <1>2
<1>4. /\ s[1] \in S /\ s[Len(s)] \in S /\ done < s[1]
      /\ \A i \in 1 .. Len(s) : \A j \in 1 .. i - 1 : s[j] < s[i]
  BY <1>2, <1>3 DEF Rising
<1>5. Rising(s[1], Tail(s))
  <2> SUFFICES ASSUME NEW i \in 1 .. Len(s) - 1
               PROVE  s[1] < Tail(s)[i] /\ \A j \in 1 .. i - 1 : Tail(s)[j] < Tail(s)[i]
    BY <1>2 DEF Rising
  <2>1. i + 1 \in 1 .. Len(s) /\ 1 \in 1 .. (i + 1) - 1 /\ Tail(s)[i] = s[i + 1]
    BY <1>2
  <2>2. ASSUME NEW j \in 1 .. i - 1 PROVE j + 1 \in 1 .. (i + 1) - 1 /\ Tail(s)[j] = s[j + 1]
    <3>1. j \in 1 .. Len(s) - 1
      BY <1>2
    <3> QED
      BY <1>2, <3>1
  <2> QED
    BY <1>4, <2>1, <2>2
<1>7. Tail(s) = <<>> <=> Len(s) = 1
  <2>1. PICK r \in Seq(S) : r = Tail(s) /\ Len(r) = Len(s) - 1
    BY <1>2
  <2>2. r = <<>> <=> Len(r) = 0
    OBVIOUS
  <2> QED
    BY <1>2, <2>1, <2>2
<1>6. s[1] <= s[Len(s)] /\ s[Len(s)] = IF Tail(s) = <<>> THEN s[1] ELSE Tail(s)[Len(Tail(s))]
  <2>1. CASE Len(s) = 1
    <3>1. Tail(s) = <<>>
      BY <1>2, <1>7, <2>1
    <3>2. s[1] \in Int
      BY <1>4 DEF S
    <3> QED
      BY <2>1, <3>1, <3>2
  <2>2. CASE Len(s) # 1
    <3>1. Len(s) - 1 \in 1 .. Len(s) - 1 /\ (Len(s) - 1) + 1 = Len(s) /\ 1 \in 1 .. Len(s) - 1
      BY <1>2, <2>2
    <3>2. Tail(s) # <<>> /\ Tail(s)[Len(Tail(s))] = s[Len(s)]
      <4>1. Tail(s)[Len(Tail(s))] = Tail(s)[Len(s) - 1]
        BY <1>2
      <4> QED
        BY <1>2, <1>7, <2>2, <3>1, <4>1
    <3>3. s[1] < s[Len(s)]
      BY <1>3, <1>4, <3>1
    <3>4. s[1] \in Int /\ s[Len(s)] \in Int
      BY <1>4 DEF S
    <3> QED
      BY <3>2, <3>3, <3>4
  <2> QED
    BY <2>1, <2>2
<1> QED
  BY <1>2, <1>4, <1>5, <1>6 DEF S

(* Constants stand for the new values: the facts are about a step of       *)
(* WriteEntry from t, with `done' bytes of the unit written, to T, c.      *)
LEMMA RingWritten ==
    ASSUME RingInv, Imx!WriteEntry
    PROVE  RingInv'
<1> DEFINE t == target_addr
           Values == 0 .. Imx!Turn - 1
<1>1. /\ imx_at = "write" /\ imx_at' = "write" /\ todo # <<>> /\ todo' = Tail(todo)
      /\ copied' = Head(todo) /\ wr' = wr /\ filled' = filled
      /\ fullLength' = fullLength /\ short' = short
  BY DEF Imx!WriteEntry
<1>2. ring \in [0 .. Ring - 1 -> Values] /\ sent \in Values /\ short \in BOOLEAN
  BY <1>1 DEF RingInv
<1>3. wr \in 0 .. Ring - 1 /\ filled \in 0 .. Ring - 1 /\ t \in 0 .. Ring /\ copied \in Nat
  BY <1>1 DEF RingInv
<1>4. todo \in Seq(1 .. Ring - 1) /\ fullLength = todo[Len(todo)] /\ Rising(copied, todo)
  BY <1>1 DEF RingInv
<1>5. PICK c \in 1 .. Ring - 1 :
        /\ copied' = c /\ copied < c /\ c <= fullLength /\ fullLength \in 1 .. Ring - 1
        /\ todo' \in Seq(1 .. Ring - 1) /\ Rising(c, todo')
        /\ fullLength = IF todo' = <<>> THEN c ELSE todo'[Len(todo')]
  BY <1>1, <1>3, <1>4, TodoShrinks
<1>6. PICK n \in 1 .. Ring - 1 : n = Imx!Length /\ n = c - copied
  <2>1. Imx!Length = c - copied /\ copied < c
    BY <1>1, <1>5, Zenon DEF Imx!Length
  <2>2. c - copied \in 1 .. Ring - 1
    BY <1>3, <2>1, RingSizes
  <2> QED
    BY <2>1, <2>2
<1>7. PICK T \in 0 .. Ring : target_addr' = T /\ (T = t + n \/ T = (t + n) - Ring)
  <2>1. target_addr' = (IF t + n > Ring THEN t + n - Ring ELSE t + n)
    BY <1>6, Zenon DEF Imx!WriteEntry
  <2>2. (t + n) - Ring \in 0 .. Ring \/ ~(t + n > Ring)
    BY <1>3, RingSizes
  <2>3. t + n \in 0 .. Ring \/ t + n > Ring
    BY <1>3, RingSizes
  <2>6. t + n - Ring = (t + n) - Ring
    BY <1>3, RingSizes
  <2>4. CASE t + n > Ring
    BY <2>1, <2>2, <2>4, <2>6, Zenon
  <2>5. CASE ~(t + n > Ring)
    BY <2>1, <2>3, <2>5
  <2> QED
    BY <2>4, <2>5, Zenon
<1>8. ASSUME NEW x \in Int
      PROVE  (T - x) % Ring = (t + n - x) % Ring
  <2>1. ((t + n - x) - Ring) % Ring = (t + n - x) % Ring
    BY <1>3, RingSizes, ModTurn
  <2>2. T - x = t + n - x \/ T - x = (t + n - x) - Ring
    BY <1>3, <1>7, RingSizes
  <2> QED
    BY <2>1, <2>2
<1>11. c \in Nat /\ fullLength \in Nat
  BY <1>5
<1>9. CASE short
  <2>1. UNCHANGED <<ring, sent>>
    BY <1>9 DEF Imx!WriteEntry, Imx!Copy
  <2>2. copied' \in Nat /\ fullLength' \in Nat /\ Rising(copied', todo')
        /\ fullLength' = IF todo' = <<>> THEN copied' ELSE todo'[Len(todo')]
    BY <1>1, <1>5, <1>11, Zenon
  <2> QED
    BY <1>1, <1>2, <1>3, <1>5, <1>7, <1>9, <2>1, <2>2, Zenon DEF RingInv
<1>10. CASE ~short
  <2>1. /\ fullLength + filled < Ring /\ wr = (t - copied) % Ring
        /\ \A i \in 1 .. filled + copied : ring[(t - i) % Ring] = (sent - i) % Imx!Turn
    BY <1>1, <1>10 DEF RingInv, Reaches, Unread
  <2>2. ring' = Imx!Copied(t, n) /\ sent' = (sent + n) % Imx!Turn
    BY <1>6, <1>10 DEF Imx!WriteEntry, Imx!Copy
  <2>3. PICK v \in Values : sent' = v /\ v = (sent + n) % Imx!Turn
    BY <1>2, <2>2, RingSizes, ModDef
  <2>4. filled + copied + n < Ring /\ filled + copied \in Nat /\ filled + c = filled + copied + n
    BY <1>3, <1>5, <1>6, <2>1, RingSizes
  <2>5. wr = (T - c) % Ring
    <3>1. t + n - c = t - copied
      BY <1>3, <1>6
    <3> QED
      BY <1>8, <2>1, <3>1
  <2>6. ASSUME NEW i \in 1 .. filled + copied + n
        PROVE  ring'[(T - i) % Ring] = (v - i) % Imx!Turn
    <3>1. Imx!Copied(t, n)[(t + n - i) % Ring] = (sent + n - i) % Imx!Turn
      BY <1>2, <1>3, <2>1, <2>4, CopiedInOrder
    <3>2. (T - i) % Ring = (t + n - i) % Ring
      BY <1>8, <2>4
    <3>3. (v - i) % Imx!Turn = (sent + n - i) % Imx!Turn
      <4>1. sent + n \in Int /\ -i \in Int /\ v \in Int
        BY <1>2, <2>3, <2>4, RingSizes
      <4>2. (((sent + n) % Imx!Turn) + (-i)) % Imx!Turn = ((sent + n) + (-i)) % Imx!Turn
        BY <4>1, RingSizes, ModPlus
      <4>3. v + (-i) = v - i /\ (sent + n) + (-i) = sent + n - i
        <5>1. sent \in Int /\ n \in Int /\ i \in Int
          BY <1>2, <2>4, RingSizes
        <5> QED
          BY <4>1, <5>1
      <4> QED
        BY <2>3, <4>2, <4>3
    <3> QED
      BY <2>2, <3>1, <3>2, <3>3
  <2>7. Reaches(target_addr)'
    BY <1>1, <1>5, <1>7, <2>3, <2>4, <2>6 DEF Reaches, Unread
  <2>8. ring' \in [0 .. Ring - 1 -> Values]
    <3>1. ASSUME NEW x \in Int PROVE x % Imx!Turn \in Values
      BY RingSizes, ModDef
    <3>2. ASSUME NEW a \in 0 .. Ring - 1
          PROVE  sent + a - t \in Int /\ sent + Ring - t + a \in Int
      BY <1>2, <1>3, RingSizes
    <3> QED
      BY <1>2, <2>2, <3>1, <3>2, Zenon DEF Imx!Copied
  <2>9. copied' \in Nat /\ fullLength' \in Nat /\ Rising(copied', todo')
        /\ fullLength' = IF todo' = <<>> THEN copied' ELSE todo'[Len(todo')]
    BY <1>1, <1>5, <1>11, Zenon
  <2>10. fullLength' + filled' < Ring /\ wr' = (target_addr' - copied') % Ring
    BY <1>1, <1>5, <1>7, <2>1, <2>5, Zenon
  <2> QED
    BY <1>1, <1>2, <1>3, <1>5, <1>7, <2>3, <2>7, <2>8, <2>9, <2>10, Zenon DEF RingInv
<1> QED
  BY <1>9, <1>10

(* Apart from submitting and decoding, the ring stays as it is.            *)
LEMMA RingKept ==
    ASSUME RingInv, UNCHANGED <<ring, wr, filled, sent, short>>,
           imx_at # "write", imx_at' # "write"
    PROVE  RingInv'
<1>1. (~short => Reaches(wr)) /\ Unread = filled /\ Unread' = filled'
  BY DEF RingInv, Unread
<1>2. ~short' => Reaches(wr)'
  BY <1>1 DEF Reaches
<1>3. /\ ring' \in [0 .. Ring - 1 -> 0 .. Imx!Turn - 1] /\ sent' \in 0 .. Imx!Turn - 1
      /\ wr' \in 0 .. Ring - 1 /\ filled' \in 0 .. Ring - 1 /\ short' \in BOOLEAN
  BY DEF RingInv
<1> QED
  BY <1>2, <1>3 DEF RingInv

LEMMA RingStarted ==
    ASSUME RingInv, Imx!StartDecoding
    PROVE  RingInv'
<1> DEFINE t == target_addr
<1>1. imx_at = "write" /\ imx_at' # "write" /\ todo = <<>> /\ UNCHANGED <<ring, sent, short>>
  BY DEF Imx!StartDecoding, Imx!Exit
<1>2. IF fullLength < Ring - filled
      THEN wr' = (wr + fullLength) % Ring /\ filled' = filled + fullLength
      ELSE UNCHANGED <<wr, filled>>
  BY DEF Imx!StartDecoding
<1>3. ring \in [0 .. Ring - 1 -> 0 .. Imx!Turn - 1] /\ sent \in 0 .. Imx!Turn - 1 /\ short \in BOOLEAN
  BY <1>1 DEF RingInv
<1>4. /\ wr \in 0 .. Ring - 1 /\ filled \in 0 .. Ring - 1 /\ t \in 0 .. Ring
      /\ copied \in Nat /\ fullLength = copied
  BY <1>1 DEF RingInv
<1>5. wr' \in 0 .. Ring - 1 /\ filled' \in 0 .. Ring - 1
  <2>1. CASE fullLength < Ring - filled
    <3>1. (wr + fullLength) % Ring \in 0 .. Ring - 1 /\ filled + fullLength \in 0 .. Ring - 1
      BY <1>4, <2>1, RingSizes, ModDef
    <3> QED
      BY <1>2, <2>1, <3>1
  <2>2. CASE ~(fullLength < Ring - filled)
    BY <1>2, <1>4, <2>2
  <2> QED
    BY <2>1, <2>2
<1>6. ASSUME ~short PROVE Reaches(wr)'
  <2>1. /\ fullLength + filled < Ring /\ wr = (t - copied) % Ring
        /\ \A i \in 1 .. filled + copied : ring[(t - i) % Ring] = (sent - i) % Imx!Turn
    BY <1>1, <1>6 DEF RingInv, Reaches, Unread
  <2>2. fullLength < Ring - filled
    BY <1>4, <2>1, RingSizes
  <2>3. wr' = (wr + copied) % Ring /\ filled' = filled + copied
    BY <1>2, <1>4, <2>2
  <2>4. (wr + copied) % Ring = t % Ring
    <3>1. (((t - copied) % Ring) + copied) % Ring = ((t - copied) + copied) % Ring
      BY <1>4, RingSizes, ModPlus
    <3>2. (t - copied) + copied = t
      BY <1>4
    <3> QED
      BY <2>1, <3>1, <3>2
  <2>5. ASSUME NEW i \in 1 .. filled + copied
        PROVE  ring[((t % Ring) - i) % Ring] = (sent - i) % Imx!Turn
    <3>3. i \in Int /\ -i \in Int /\ t \in Int
      BY <1>4, RingSizes
    <3>1. ((t % Ring) + (-i)) % Ring = (t + (-i)) % Ring
      BY <3>3, RingSizes, ModPlus
    <3>2. (t % Ring) + (-i) = (t % Ring) - i /\ t + (-i) = t - i
      BY <3>3, RingSizes, ModDef
    <3> QED
      BY <2>1, <3>1, <3>2
  <2> QED
    BY <1>1, <2>3, <2>4, <2>5 DEF Reaches, Unread
<1> QED
  BY <1>1, <1>3, <1>5, <1>6 DEF RingInv

LEMMA RingSubmitted ==
    ASSUME RingInv, NEW u \in ImxUnits, Imx!SubmitUnit(u), imx_at' = "write"
    PROVE  RingInv'
<1>1. /\ imx_at = "idle" /\ UNCHANGED <<ring, wr, filled, sent>> /\ target_addr' = wr
      /\ todo' = u /\ copied' = 0 /\ fullLength' = Imx!Last(u)
      /\ short' = (short \/ Ring - 1 - filled < fullLength')
  BY DEF Imx!SubmitUnit, Imx!Exit
<1>2. u \in Seq(1 .. Ring - 1) /\ u # <<>> /\ \A j \in 1 .. Len(u) : \A i \in 1 .. j - 1 : u[i] < u[j]
  BY RenderersAssumption
<1>3. /\ ring \in [0 .. Ring - 1 -> 0 .. Imx!Turn - 1] /\ sent \in 0 .. Imx!Turn - 1
      /\ short \in BOOLEAN /\ wr \in 0 .. Ring - 1 /\ filled \in 0 .. Ring - 1
      /\ (~short => Reaches(wr)) /\ Unread = filled
  BY <1>1 DEF RingInv, Unread
<1>12. \A i \in 1 .. Len(u) : u[i] \in 1 .. Ring - 1
  <2> DEFINE S == 1 .. Ring - 1
  <2>1. u \in Seq(S)
    BY <1>2
  <2> HIDE DEF S
  <2>2. \A i \in 1 .. Len(u) : u[i] \in S
    BY <2>1
  <2> QED
    BY <2>2 DEF S
<1>4. PICK l \in 1 .. Ring - 1 : l = u[Len(u)]
  <2>1. Len(u) \in 1 .. Len(u)
    BY <1>2
  <2> QED
    BY <1>12, <2>1
<1>5. fullLength' = l
  BY <1>1, <1>4 DEF Imx!Last
<1>6. Rising(0, u)
  <2>1. \A i \in 1 .. Len(u) : 0 < u[i]
    BY <1>12
  <2> QED
    BY <1>2, <2>1 DEF Rising
<1>7. wr % Ring = wr /\ wr - 0 = wr /\ wr \in 0 .. Ring /\ filled + 0 = filled
      /\ (~(Ring - 1 - filled < l) => l + filled < Ring) /\ 0 \in Nat /\ l \in Nat
  BY <1>3, <1>4, RingSizes, ModSmall
<1>8. short' \in BOOLEAN
  BY <1>1, Zenon
<1>9. /\ target_addr' \in 0 .. Ring /\ copied' \in Nat /\ fullLength' \in Nat
      /\ todo' \in Seq(1 .. Ring - 1) /\ Rising(copied', todo')
      /\ fullLength' = IF todo' = <<>> THEN copied' ELSE todo'[Len(todo')]
  BY <1>1, <1>2, <1>4, <1>5, <1>6, <1>7, Zenon
<1>10. ASSUME ~short'
       PROVE  /\ fullLength' + filled' < Ring /\ wr' = (target_addr' - copied') % Ring
              /\ Reaches(target_addr)'
  <2>1. ~short /\ ~(Ring - 1 - filled < l)
    BY <1>1, <1>5, <1>10
  <2>2. Unread' = filled
    BY <1>1, <1>7 DEF Unread
  <2>3. Reaches(target_addr)'
    BY <1>1, <1>3, <2>1, <2>2 DEF Reaches
  <2> QED
    BY <1>1, <1>5, <1>7, <2>1, <2>3, Zenon
<1>11. /\ ring' \in [0 .. Ring - 1 -> 0 .. Imx!Turn - 1] /\ sent' \in 0 .. Imx!Turn - 1
       /\ wr' \in 0 .. Ring - 1 /\ filled' \in 0 .. Ring - 1
  BY <1>1, <1>3
<1> QED
  BY <1>8, <1>9, <1>10, <1>11 DEF RingInv

LEMMA RingDecoded ==
    ASSUME RingInv, NEW n \in 1 .. filled, Imx!Decode(n)
    PROVE  RingInv'
<1>1. /\ imx_at = "decode" /\ imx_at' \in {"queue", "idle"} /\ filled' = filled - n
      /\ UNCHANGED <<ring, wr, sent, short>>
  BY DEF Imx!Decode
<1>2. /\ ring \in [0 .. Ring - 1 -> 0 .. Imx!Turn - 1] /\ sent \in 0 .. Imx!Turn - 1
      /\ short \in BOOLEAN /\ wr \in 0 .. Ring - 1 /\ filled \in 0 .. Ring - 1
      /\ (~short => Reaches(wr)) /\ Unread = filled
  BY <1>1 DEF RingInv, Unread
<1>3. filled - n \in 0 .. Ring - 1 /\ 1 .. filled - n \subseteq 1 .. filled
  BY <1>2, RingSizes
<1>4. Unread' = filled - n
  BY <1>1 DEF Unread
<1>5. ~short' => Reaches(wr)'
  BY <1>1, <1>2, <1>3, <1>4 DEF Reaches
<1>6. /\ ring' \in [0 .. Ring - 1 -> 0 .. Imx!Turn - 1] /\ sent' \in 0 .. Imx!Turn - 1
      /\ wr' \in 0 .. Ring - 1 /\ filled' \in 0 .. Ring - 1 /\ short' \in BOOLEAN
  BY <1>1, <1>2, <1>3, Zenon
<1> QED
  BY <1>1, <1>5, <1>6 DEF RingInv

LEMMA RingNext == RingInv /\ (Imx!Next \/ UNCHANGED imx) => RingInv'
<1> SUFFICES ASSUME RingInv, Imx!Next \/ UNCHANGED imx PROVE RingInv'
  OBVIOUS
<1> USE DEF Imx!imxRing, Imx!Exit
<1>1. CASE Imx!Setup
  BY <1>1, RingKept DEF Imx!Setup
<1>2. ASSUME NEW u \in ImxUnits, Imx!SubmitUnit(u) PROVE RingInv'
  <2>1. CASE imx_at' = "write"
    BY <1>2, <2>1, RingSubmitted
  <2>2. CASE imx_at' # "write"
    BY <1>2, <2>2, RingKept DEF Imx!SubmitUnit
  <2> QED
    BY <2>1, <2>2
<1>3. CASE Imx!WriteEntry
  BY <1>3, RingWritten
<1>4. CASE Imx!StartDecoding
  BY <1>4, RingStarted
<1>5. CASE Imx!DecodeNothing
  BY <1>5, RingKept DEF Imx!DecodeNothing
<1>6. ASSUME NEW n \in 1 .. filled, Imx!Decode(n) PROVE RingInv'
  BY <1>6, RingDecoded
<1>7. CASE Imx!QueueFrame
  BY <1>7, RingKept DEF Imx!QueueFrame
<1>8. CASE Imx!DequeueFrame
  BY <1>8, RingKept DEF Imx!DequeueFrame
<1>9. CASE Imx!ClearFlag
  BY <1>9, RingKept DEF Imx!ClearFlag
<1>10. CASE Imx!DeviceFails
  BY <1>10, RingKept DEF Imx!DeviceFails
<1>11. CASE UNCHANGED <<imx_at, Imx!imxRing>>
  <2>1. Unread' = Unread
    BY <1>11 DEF Unread
  <2>2. Reaches(wr)' = Reaches(wr) /\ Reaches(target_addr)' = Reaches(target_addr)
    BY <1>11, <2>1 DEF Reaches
  <2> QED
    BY <1>11, <2>2 DEF RingInv, Rising
<1>12. CASE Imx!DisplayNext
  BY <1>11, <1>12 DEF Imx!DisplayNext
<1>13. CASE Imx!Cleanup
  BY <1>13, RingKept DEF Imx!Cleanup
<1>14. CASE UNCHANGED imx
  BY <1>11, <1>14 DEF imx
<1> QED
  BY <1>1, <1>2, <1>3, <1>4, <1>5, <1>6, <1>7, <1>8, <1>9, <1>10, <1>12, <1>13, <1>14
     DEF Imx!Next, Imx!Client

(* decoder_renderer_submit_decode_unit of imx.c: whatever units come and   *)
(* however they are cut into entries, as long as they fit the VPU reads    *)
(* the stream's bytes in their order, those that were split at the end of  *)
(* the ring included.                                                      *)
THEOREM RingStaysInOrder == RenderersSpec => []RingInOrder
<1>1. RenderersInit => RingInv
  BY RingInit DEF RenderersInit
<1>2. RingInv /\ [RenderersNext]_allVars => RingInv'
  <2>1. RenderersNext \/ UNCHANGED allVars => Imx!Next \/ UNCHANGED imx
    BY DEF RenderersNext, ImxStep, AmlStep, PiStep, LibraryStep, allVars
  <2> QED
    BY <2>1, RingNext
<1>3. RingInv => RingInOrder
  <2> SUFFICES ASSUME RingInv, imx_at = "decode", ~short
               PROVE  \A i \in 1 .. filled : ring[(wr - i) % Ring] = (sent - i) % Imx!Turn
    BY DEF RingInOrder, Imx!RingInOrder
  <2> QED
    BY DEF RingInv, Reaches, Unread
<1> QED
  BY <1>1, <1>2, <1>3, PTL DEF RenderersSpec

----------------------------------------------------------------------------
(* The i.MX decoder: its frame buffers.                                    *)

(* The buffers of the frames a .. b - 1: the n-th frame is decoded into    *)
(* buffer n modulo their number.                                           *)
Frame(n) == n % Frames
Run(s, a, b) ==
    /\ s \in Seq(0 .. Frames - 1) /\ a <= b /\ Len(s) = b - a
    /\ \A i \in 1 .. b - a : s[i] = Frame(a + i - 1)

Over(n, m) == IF n > m THEN n - m ELSE 0
Showing == imx_at \in {"queue", "dequeue", "clear"}

(* Of k frames shown and dealt with: how many the display no longer needs, *)
(* and which is flagged.  The flag of the first was cleared too early.     *)
Cleared(k) == IF k <= 1 THEN k ELSE k - 1
Flagged(k) == IF k <= 1 THEN {} ELSE {Frame(k - 1)}
Released(n, k) == IF Over(n, Refs) <= Cleared(k) THEN Over(n, Refs) ELSE Cleared(k)

(* n frames were decoded, the first m of them shown, k of them dealt with. *)
Rotation(n, m, k) ==
    /\ m = Over(n, Delay) /\ (IF Showing THEN m = k + 1 ELSE m = k)
    /\ Run(refs, Over(n, Refs), n) /\ Run(pending, m, n) /\ Run(free, n, Frames + Released(n, k))
    /\ flagged = Flagged(k) \cup (IF Showing THEN {Frame(m - 1)} ELSE {})
    /\ disp_clr_index = (IF k = 0 THEN 0 ELSE Frame(k - 1))
    /\ Showing => shown = Frame(m - 1)
    /\ LET q == IF imx_at = "queue" THEN k ELSE m
       IN  Run(finished \o queue, q - queued_count, q) /\ queued_count <= q

(* The inductive invariant.  V4L2 has the latest queued_count of the       *)
(* frames that were queued.                                                *)
FramesInv ==
    /\ finished \in Seq(0 .. Frames - 1) /\ queue \in Seq(0 .. Frames - 1)
    /\ queued_count \in Nat /\ queued_count <= (IF imx_at = "dequeue" THEN 3 ELSE 2)
    /\ \E n, m, k \in Nat : Rotation(n, m, k)

LEMMA FrameCounts ==
    /\ Frames \in Nat /\ Frames > 0 /\ Refs \in Nat /\ Refs > 0 /\ Delay \in Nat
    /\ Frames > Refs /\ Frames > Delay + 2
BY RenderersAssumption

LEMMA FrameType ==
    ASSUME NEW n \in Int
    PROVE  Frame(n) \in 0 .. Frames - 1 /\ Frame(n + Frames) = Frame(n)
BY FrameCounts, ModDef, ModTurn DEF Frame

(* Frames less than a turn apart are in different buffers.                 *)
LEMMA FrameSame ==
    ASSUME NEW a \in Int, NEW b \in Int, a - b < Frames, b - a < Frames, Frame(a) = Frame(b)
    PROVE  a = b
<1>1. PICK p \in Int : a = Frames * p + Frame(a)
  BY FrameCounts, ModDef DEF Frame
<1>2. PICK q \in Int : b = Frames * q + Frame(b)
  BY FrameCounts, ModDef DEF Frame
<1>3. PICK f \in Int : f = Frame(a)
  BY FrameType, FrameCounts
<1>4. a = Frames * p + f /\ b = Frames * q + f
  BY <1>1, <1>2, <1>3
<1>5. ~(p < q)
  <2> SUFFICES ASSUME p < q PROVE FALSE
    OBVIOUS
  <2>1. PICK d \in Nat : q = p + 1 + d
    BY q - p - 1 \in Nat
  <2>2. Frames * q = Frames * p + Frames + Frames * d /\ Frames * d \in Nat
    BY <2>1, FrameCounts
  <2> QED
    BY <1>4, <2>2, FrameCounts
<1>6. ~(q < p)
  <2> SUFFICES ASSUME q < p PROVE FALSE
    OBVIOUS
  <2>1. PICK d \in Nat : p = q + 1 + d
    BY p - q - 1 \in Nat
  <2>2. Frames * p = Frames * q + Frames + Frames * d /\ Frames * d \in Nat
    BY <2>1, FrameCounts
  <2> QED
    BY <1>4, <2>2, FrameCounts
<1>7. p = q
  BY <1>5, <1>6
<1> QED
  BY <1>4, <1>7

(* The oldest of a run is taken out, the next one is put behind it.        *)
LEMMA RunTail ==
    ASSUME NEW s, NEW a \in Nat, NEW b \in Nat, Run(s, a, b), a < b
    PROVE  s # <<>> /\ Head(s) = Frame(a) /\ Run(Tail(s), a + 1, b)
<1> DEFINE S == 0 .. Frames - 1
<1>1. s \in Seq(S) /\ Len(s) = b - a /\ \A i \in 1 .. b - a : s[i] = Frame(a + i - 1)
  BY DEF Run
<1> HIDE DEF S
<1>2. /\ s # <<>> /\ Head(s) = s[1] /\ Tail(s) \in Seq(S) /\ Len(Tail(s)) = b - a - 1
      /\ \A i \in 1 .. b - a - 1 : Tail(s)[i] = s[i + 1]
  BY <1>1
<1>3. s[1] = Frame(a)
  <2>1. 1 \in 1 .. b - a /\ a + 1 - 1 = a
    OBVIOUS
  <2> QED
    BY <1>1, <2>1
<1>4. ASSUME NEW i \in 1 .. b - (a + 1)
      PROVE  Tail(s)[i] = Frame((a + 1) + i - 1)
  <2>1. i + 1 \in 1 .. b - a /\ a + (i + 1) - 1 = (a + 1) + i - 1 /\ i \in 1 .. b - a - 1
    OBVIOUS
  <2> QED
    BY <1>1, <1>2, <2>1
<1>5. b - a - 1 = b - (a + 1) /\ a + 1 <= b
  OBVIOUS
<1> QED
  BY <1>2, <1>3, <1>4, <1>5 DEF Run, S

LEMMA RunAppend ==
    ASSUME NEW s, NEW a \in Nat, NEW b \in Nat, Run(s, a, b)
    PROVE  Run(Append(s, Frame(b)), a, b + 1) /\ Len(Append(s, Frame(b))) = b + 1 - a
<1> DEFINE S == 0 .. Frames - 1
           f == Frame(b)
<1>1. s \in Seq(S) /\ Len(s) = b - a /\ a <= b /\ \A i \in 1 .. b - a : s[i] = Frame(a + i - 1)
  BY DEF Run
<1>2. f \in S
  BY FrameType
<1> HIDE DEF S, f
<1>3. /\ Append(s, f) \in Seq(S) /\ Len(Append(s, f)) = b - a + 1 /\ Append(s, f)[b - a + 1] = f
      /\ \A i \in 1 .. b - a : Append(s, f)[i] = s[i]
  BY <1>1, <1>2
<1>4. ASSUME NEW i \in 1 .. b + 1 - a
      PROVE  Append(s, f)[i] = Frame(a + i - 1)
  <2>1. CASE i \in 1 .. b - a
    BY <1>1, <1>3, <2>1
  <2>2. CASE i \notin 1 .. b - a
    <3>1. i = b - a + 1 /\ a + i - 1 = b
      BY <1>1, <2>2
    <3> QED
      BY <1>3, <3>1 DEF f
  <2> QED
    BY <2>1, <2>2
<1>5. b - a + 1 = b + 1 - a /\ a <= b + 1
  BY <1>1
<1> QED
  BY <1>3, <1>4, <1>5 DEF Run, S, f

(* The buffers of a run are those of its frames.                           *)
LEMMA RunRange ==
    ASSUME NEW s, NEW a \in Nat, NEW b \in Nat, Run(s, a, b)
    PROVE  Imx!Range(s) = {Frame(j) : j \in a .. b - 1}
<1>1. s \in Seq(0 .. Frames - 1) /\ Len(s) = b - a /\ \A i \in 1 .. b - a : s[i] = Frame(a + i - 1)
  BY DEF Run
<1>2. DOMAIN s = 1 .. b - a
  BY <1>1
<1>3. ASSUME NEW i \in 1 .. b - a PROVE a + i - 1 \in a .. b - 1
  OBVIOUS
<1>4. ASSUME NEW j \in a .. b - 1 PROVE j - a + 1 \in 1 .. b - a /\ a + (j - a + 1) - 1 = j
  OBVIOUS
<1>5. ASSUME NEW j \in a .. b - 1 PROVE \E i \in 1 .. b - a : s[i] = Frame(j)
  BY <1>1, <1>4
<1>6. ASSUME NEW i \in 1 .. b - a PROVE \E j \in a .. b - 1 : s[i] = Frame(j)
  BY <1>1, <1>3
<1> QED
  BY <1>2, <1>5, <1>6, Zenon DEF Imx!Range

(* How the counts of a rotation go on with the next frame.                 *)
LEMMA Counting ==
    ASSUME NEW n \in Nat, NEW m \in Nat
    PROVE  Over(n, m) \in Nat /\ Over(n, m) <= n /\ n <= Over(n, m) + m
           /\ Over(n + 1, m) = (IF n >= m THEN Over(n, m) + 1 ELSE Over(n, m))
           /\ (n < m => Over(n, m) = 0) /\ (n >= m => n = Over(n, m) + m)
BY DEF Over

LEMMA ClearedCount ==
    ASSUME NEW k \in Nat
    PROVE  Cleared(k) \in Nat /\ Cleared(k) <= k /\ k <= Cleared(k) + 1
BY DEF Cleared

LEMMA ReleasedCount ==
    ASSUME NEW n \in Nat, NEW k \in Nat
    PROVE  Released(n, k) \in Nat /\ Released(n, k) <= Over(n, Refs) /\ Released(n, k) <= Cleared(k)
           /\ (Released(n, k) = Over(n, Refs) \/ Released(n, k) = Cleared(k))
<1>1. PICK o \in Nat : o = Over(n, Refs)
  BY Counting, FrameCounts
<1>2. PICK c \in Nat : c = Cleared(k)
  BY ClearedCount
<1>3. Released(n, k) = IF o <= c THEN o ELSE c
  BY <1>1, <1>2 DEF Released
<1>4. CASE o <= c
  BY <1>1, <1>2, <1>3, <1>4
<1>5. CASE ~(o <= c)
  BY <1>1, <1>2, <1>3, <1>5
<1> QED
  BY <1>4, <1>5

(* Of the frames up to the latest, the buffer of one that the stream no    *)
(* longer refers to is released unless it waits or its flag is set.        *)
LEMMA Drops ==
    ASSUME NEW n \in Nat, NEW k \in Nat, NEW m \in Nat, k = Over(n, Delay), n >= Refs,
           m = Over(n + 1, Delay),
           NEW r, NEW p, NEW fl,
           Run(r, Over(n + 1, Refs), n + 1), Run(p, m, n + 1),
           fl = Flagged(k) \cup (IF m = k THEN {} ELSE {Frame(k)})
    PROVE  Imx!Freed(Frame(Over(n, Refs)), r, p, fl)
             = IF Over(n, Refs) < Cleared(k) THEN <<Frame(Over(n, Refs))>> ELSE <<>>
<1> DEFINE o == Over(n, Refs)
<1>1. /\ o \in Nat /\ o <= n /\ n = o + Refs /\ Over(n + 1, Refs) = o + 1
      /\ k \in Nat /\ k <= n /\ n <= k + Delay /\ m \in k .. k + 1 /\ (k > 0 => n = k + Delay)
      /\ (m = k <=> n < Delay) /\ (n < Delay => k = 0)
      /\ Frames > Refs /\ Frames > Delay + 2 /\ Frames \in Nat /\ Refs \in Nat /\ Delay \in Nat
      /\ Refs > 0
  <2>1. Frames > Refs /\ Frames > Delay + 2 /\ Frames \in Nat /\ Refs \in Nat /\ Delay \in Nat
        /\ Refs > 0
    BY FrameCounts
  <2>2. o \in Nat /\ o <= n /\ n = o + Refs /\ Over(n + 1, Refs) = o + 1
    BY <2>1, Counting
  <2>3. /\ k <= n /\ n <= k + Delay /\ m = (IF n >= Delay THEN k + 1 ELSE k)
        /\ (n < Delay => k = 0) /\ (n >= Delay => n = k + Delay)
    BY <2>1, Counting
  <2>4. m \in k .. k + 1 /\ (k > 0 => n = k + Delay) /\ (m = k <=> n < Delay)
    BY <2>1, <2>3
  <2> QED
    BY <2>1, <2>2, <2>3, <2>4
<1> HIDE DEF o
<1>2. Frame(o) \notin Imx!Range(r)
  <2>1. Imx!Range(r) = {Frame(j) : j \in o + 1 .. (n + 1) - 1}
    BY <1>1, RunRange
  <2>2. ASSUME NEW j \in o + 1 .. (n + 1) - 1 PROVE Frame(o) # Frame(j)
    <3>1. j \in Int /\ o - j < Frames /\ j - o < Frames /\ o # j
      BY <1>1
    <3> QED
      BY <1>1, <3>1, FrameSame
  <2> QED
    BY <2>1, <2>2
<1>3. Frame(o) \in Imx!Range(p) <=> o >= m
  <2>1. Imx!Range(p) = {Frame(j) : j \in m .. (n + 1) - 1}
    BY <1>1, RunRange
  <2>2. o >= m => o \in m .. (n + 1) - 1
    BY <1>1
  <2>3. ASSUME NEW j \in m .. (n + 1) - 1, Frame(o) = Frame(j) PROVE o >= m
    <3>1. j \in Int /\ o - j < Frames /\ j - o < Frames
      BY <1>1
    <3>2. o = j
      BY <1>1, <2>3, <3>1, FrameSame
    <3> QED
      BY <3>2
  <2> QED
    BY <2>1, <2>2, <2>3
<1>4. Frame(o) \in fl <=> (k >= 2 /\ o = k - 1) \/ (m # k /\ o = k)
  <2>1. k >= 2 /\ Frame(o) = Frame(k - 1) => o = k - 1
    <3>1. k >= 2 => k - 1 \in Int /\ o - (k - 1) < Frames /\ (k - 1) - o < Frames
      BY <1>1
    <3> QED
      BY <1>1, <3>1, FrameSame
  <2>2. m # k /\ Frame(o) = Frame(k) => o = k
    <3>1. m # k => o - k < Frames /\ k - o < Frames /\ k \in Int
      BY <1>1
    <3> QED
      BY <1>1, <3>1, FrameSame
  <2>3. Flagged(k) = IF k >= 2 THEN {Frame(k - 1)} ELSE {}
    BY <1>1 DEF Flagged
  <2> QED
    BY <2>1, <2>2, <2>3
<1>5. (o >= m \/ (k >= 2 /\ o = k - 1) \/ (m # k /\ o = k)) <=> ~(o < Cleared(k))
  BY <1>1 DEF Cleared
<1>6. Frame(o) \in Imx!Range(r) \cup Imx!Range(p) \cup fl <=> ~(o < Cleared(k))
  BY <1>2, <1>3, <1>4, <1>5
<1> QED
  BY <1>6 DEF Imx!Freed, o

(* One more frame is decoded, into the buffer longest free.                *)
LEMMA FramesDecoded ==
    ASSUME FramesInv, NEW x, Imx!Decode(x)
    PROVE  FramesInv'
<1>1. PICK n \in Nat, m \in Nat, k \in Nat : Rotation(n, m, k)
  BY DEF FramesInv
<1>2. imx_at = "decode" /\ ~Showing
  BY DEF Imx!Decode, Showing
<1>3. m = Over(n, Delay) /\ m = k
  BY <1>1, <1>2 DEF Rotation
<1>4. /\ Run(refs, Over(n, Refs), n) /\ Run(pending, k, n) /\ Run(free, n, Frames + Released(n, k))
      /\ flagged = Flagged(k) /\ disp_clr_index = (IF k = 0 THEN 0 ELSE Frame(k - 1))
      /\ Run(finished \o queue, k - queued_count, k) /\ queued_count <= k
  <2>1. Flagged(k) \cup {} = Flagged(k)
    OBVIOUS
  <2> QED
    BY <1>1, <1>2, <1>3, <2>1, Zenon DEF Rotation
<1>5. /\ Frames \in Nat /\ Frames > Refs /\ Frames > Delay + 2 /\ Refs \in Nat /\ Refs > 0
      /\ Delay \in Nat
  BY FrameCounts
<1>6. PICK o \in Nat : o = Over(n, Refs)
  BY <1>5, Counting
<1>61. /\ o <= n /\ n <= o + Refs /\ (n >= Refs => n = o + Refs) /\ (n < Refs => o = 0)
       /\ Over(n + 1, Refs) = (IF n >= Refs THEN o + 1 ELSE o)
  BY <1>5, <1>6, Counting
<1>7. PICK c \in Nat : c = Released(n, k) /\ n - c < Frames /\ n < Frames + c
  <2>1. Released(n, k) \in Nat /\ (Released(n, k) = o \/ Released(n, k) = Cleared(k))
    BY <1>6, <1>61, ReleasedCount
  <2>2. PICK c \in Nat : c = Released(n, k) /\ (c = o \/ c = Cleared(k))
    BY <2>1
  <2>3. k <= Cleared(k) + 1 /\ Cleared(k) \in Nat
    BY ClearedCount
  <2>4. n <= k + Delay
    BY <1>3, <1>5, Counting
  <2>5. n - c < Frames
    BY <1>5, <1>6, <1>61, <2>2, <2>3, <2>4
  <2> QED
    BY <1>5, <2>2, <2>5
<1>8. PICK m2 \in Nat : m2 = Over(n + 1, Delay)
  BY <1>5, Counting
<1>81. m2 = (IF n >= Delay THEN k + 1 ELSE k)
  <2>1. Over(n + 1, Delay) = (IF n >= Delay THEN Over(n, Delay) + 1 ELSE Over(n, Delay))
    BY <1>5, Counting
  <2> QED
    BY <1>3, <1>8, <2>1
<1>9. n = k + Delay \/ (n < Delay /\ k = 0)
  <2>1. (n < Delay => Over(n, Delay) = 0) /\ (n >= Delay => n = Over(n, Delay) + Delay)
    BY <1>5, Counting
  <2> QED
    BY <1>3, <1>5, <2>1
<1> DEFINE f == Head(free)
           all == Append(pending, f)
           display == Len(all) > Delay
           dropped == IF Len(refs) < Refs THEN <<>>
                      ELSE Imx!Freed(Head(refs), refs', pending', flagged')
<1>10. f = Frame(n) /\ Run(Tail(free), n + 1, Frames + c) /\ free # <<>>
  BY <1>4, <1>5, <1>7, RunTail
<1>11. Run(all, k, n + 1) /\ Len(all) = n + 1 - k
  BY <1>4, <1>10, RunAppend
<1>12. (display <=> n >= Delay) /\ display \in BOOLEAN
  BY <1>3, <1>5, <1>8, <1>81, <1>9, <1>11
<1>13. display => Head(all) = Frame(k) /\ Run(Tail(all), k + 1, n + 1)
  <2>1. display => k < n + 1
    BY <1>5, <1>9, <1>12
  <2> HIDE DEF all, display
  <2> QED
    BY <1>11, <2>1, RunTail
<1>14. /\ refs' = Imx!LastRefs(Append(refs, f))
       /\ pending' = IF display THEN Tail(all) ELSE all
       /\ flagged' = IF display THEN flagged \cup {Head(all)} ELSE flagged
       /\ shown' = IF display THEN Head(all) ELSE shown
       /\ imx_at' = IF display THEN "queue" ELSE "idle"
       /\ free' = Tail(free) \o dropped
       /\ UNCHANGED <<queue, finished, queued_count, disp_clr_index>>
  BY DEF Imx!Decode
<1> HIDE DEF all, display, f, dropped
<1>15. Run(refs', Over(n + 1, Refs), n + 1)
  <2>1. Run(Append(refs, f), o, n + 1) /\ Len(Append(refs, f)) = n + 1 - o
    BY <1>4, <1>6, <1>61, <1>10, RunAppend
  <2>2. Len(Append(refs, f)) > Refs <=> n >= Refs
    BY <1>5, <1>6, <1>61, <2>1
  <2>3. Run(Tail(Append(refs, f)), o + 1, n + 1)
    BY <1>6, <1>61, <2>1, RunTail
  <2>4. refs' = IF n >= Refs THEN Tail(Append(refs, f)) ELSE Append(refs, f)
    BY <1>14, <2>2 DEF Imx!LastRefs
  <2> QED
    BY <1>6, <1>61, <2>1, <2>3, <2>4
<1>16. Run(pending', m2, n + 1)
  BY <1>8, <1>81, <1>11, <1>12, <1>13, <1>14
<1>17. flagged' = Flagged(k) \cup (IF m2 = k THEN {} ELSE {Frame(k)})
       /\ (IF m2 = k THEN imx_at' = "idle" ELSE imx_at' = "queue" /\ shown' = Frame(k))
  <2>1. m2 = k <=> ~display
    BY <1>5, <1>8, <1>81, <1>12
  <2>2. CASE display
    BY <1>4, <1>13, <1>14, <2>1, <2>2
  <2>3. CASE ~display
    BY <1>4, <1>14, <2>1, <2>3
  <2> QED
    BY <2>2, <2>3
<1>18. Run(free', n + 1, Frames + Released(n + 1, k))
  <2>1. Len(refs) = n - o
    BY <1>4, <1>6, <1>61 DEF Run
  <2>2. CASE n < Refs
    <3>1. dropped = <<>>
      BY <1>5, <1>6, <1>61, <2>1, <2>2 DEF dropped
    <3>2. Released(n + 1, k) = 0 /\ c = 0
      <4>1. Over(n + 1, Refs) = 0 /\ o = 0
        BY <1>5, <1>6, <1>61, <2>2
      <4>2. 0 <= Cleared(k)
        BY ClearedCount
      <4> QED
        BY <1>6, <1>61, <1>7, <4>1, <4>2 DEF Released
    <3>3. Tail(free) \o <<>> = Tail(free)
      BY <1>10 DEF Run
    <3> QED
      BY <1>10, <1>14, <3>1, <3>2, <3>3
  <2>3. CASE n >= Refs
    <3>1. Head(refs) = Frame(o)
      BY <1>4, <1>5, <1>6, <1>61, <2>3, RunTail
    <3>2. dropped = Imx!Freed(Frame(o), refs', pending', flagged')
      <4>1. ~(Len(refs) < Refs)
        BY <1>5, <1>6, <1>61, <2>1, <2>3
      <4> QED
        BY <3>1, <4>1 DEF dropped
    <3>3. dropped = IF o < Cleared(k) THEN <<Frame(o)>> ELSE <<>>
      <4>1. flagged' = Flagged(k) \cup (IF m2 = k THEN {} ELSE {Frame(k)})
        BY <1>17
      <4>2. k = Over(n, Delay)
        BY <1>3
      <4>3. Imx!Freed(Frame(Over(n, Refs)), refs', pending', flagged')
              = IF Over(n, Refs) < Cleared(k) THEN <<Frame(Over(n, Refs))>> ELSE <<>>
        BY <1>8, <1>15, <1>16, <2>3, <4>1, <4>2, Drops
      <4> QED
        BY <1>6, <3>2, <4>3
    <3>4. PICK d \in Nat : d = Cleared(k)
      BY ClearedCount
    <3>5. Over(n + 1, Refs) = o + 1
      BY <1>6, <1>61, <2>3
    <3>6. CASE o < d
      <4>1. c = o /\ Released(n + 1, k) = o + 1
        BY <1>6, <1>61, <1>7, <3>4, <3>5, <3>6 DEF Released
      <4>2. Frame(Frames + c) = Frame(o)
        BY <1>5, <4>1, FrameType
      <4>3. Tail(free) \o <<Frame(o)>> = Append(Tail(free), Frame(o))
        <5>1. Tail(free) \in Seq(0 .. Frames - 1)
          BY <1>10 DEF Run
        <5>2. PICK t \in Seq(0 .. Frames - 1) : t = Tail(free)
          BY <5>1
        <5>3. t \o <<Frame(o)>> = Append(t, Frame(o))
          BY FrameType
        <5> QED
          BY <5>2, <5>3
      <4>4. Run(Append(Tail(free), Frame(Frames + c)), n + 1, Frames + c + 1)
        <5>1. n + 1 \in Nat /\ Frames + c \in Nat
          BY <1>5
        <5> QED
          BY <1>10, <5>1, RunAppend
      <4>5. Frames + c + 1 = Frames + (o + 1)
        BY <1>5, <4>1
      <4> QED
        BY <1>14, <3>3, <3>4, <3>6, <4>1, <4>2, <4>3, <4>4, <4>5
    <3>7. CASE ~(o < d)
      <4>1. c = d /\ Released(n + 1, k) = d
        BY <1>6, <1>61, <1>7, <3>4, <3>5, <3>7 DEF Released
      <4>2. Tail(free) \o <<>> = Tail(free)
        BY <1>10 DEF Run
      <4> QED
        BY <1>10, <1>14, <3>3, <3>4, <3>7, <4>1, <4>2
    <3> QED
      BY <3>6, <3>7
  <2> QED
    BY <1>5, <2>2, <2>3
<1>19. Rotation(n + 1, m2, k)'
  <2>1. CASE m2 = k
    <3>1. ~Showing' /\ imx_at' # "queue"
      BY <1>17, <2>1 DEF Showing
    <3> QED
      BY <1>4, <1>8, <1>81, <1>14, <1>15, <1>16, <1>17, <1>18, <2>1, <3>1, Zenon DEF Rotation
  <2>2. CASE m2 # k
    <3>1. Showing' /\ imx_at' = "queue" /\ m2 = k + 1 /\ m2 - 1 = k
      BY <1>8, <1>81, <1>17, <2>2 DEF Showing
    <3> QED
      BY <1>4, <1>8, <1>81, <1>14, <1>15, <1>16, <1>17, <1>18, <2>2, <3>1, Zenon DEF Rotation
  <2> QED
    BY <2>1, <2>2
<1>20. /\ finished' = finished /\ queue' = queue /\ queued_count' = queued_count
       /\ finished \in Seq(0 .. Frames - 1) /\ queue \in Seq(0 .. Frames - 1)
       /\ queued_count \in Nat /\ queued_count <= 2 /\ imx_at' # "dequeue"
  BY <1>2, <1>14, <1>17 DEF FramesInv
<1>21. n + 1 \in Nat
  OBVIOUS
<1> QED
  BY <1>19, <1>20, <1>21, Zenon DEF FramesInv

LEMMA FramesInit == Imx!Init => FramesInv
<1> SUFFICES ASSUME Imx!Init PROVE FramesInv
  OBVIOUS
<1> USE FrameCounts
<1>1. /\ free = [i \in 1 .. Frames |-> i - 1] /\ refs = <<>> /\ pending = <<>> /\ flagged = {}
      /\ queue = <<>> /\ finished = <<>> /\ queued_count = 0 /\ disp_clr_index = 0
      /\ ~Showing /\ imx_at = "setup"
  BY DEF Imx!Init, Showing
<1>2. Over(0, Delay) = 0 /\ Over(0, Refs) = 0 /\ Cleared(0) = 0 /\ Released(0, 0) = 0
  BY DEF Over, Cleared, Released
<1>3. Run(<<>>, 0, 0)
  BY DEF Run
<1>4. Run(free, 0, Frames)
  <2>1. ASSUME NEW i \in 1 .. Frames PROVE i - 1 \in 0 .. Frames - 1 /\ 0 + i - 1 = i - 1
    OBVIOUS
  <2>2. ASSUME NEW i \in 1 .. Frames PROVE free[i] = Frame(0 + i - 1)
    BY <1>1, <2>1, ModSmall DEF Frame
  <2>3. free \in Seq(0 .. Frames - 1) /\ Len(free) = Frames
    BY <1>1, <2>1
  <2>4. Frames - 0 = Frames /\ 0 <= Frames
    OBVIOUS
  <2> QED
    BY <2>2, <2>3, <2>4, Zenon DEF Run
<1>5. finished \o queue = <<>> /\ 0 - 0 = 0 /\ Frames + 0 = Frames
  BY <1>1
<1>6. Flagged(0) = {} /\ {} \cup {} = {}
  BY DEF Flagged
<1>7. 0 <= 0 /\ 0 <= 2 /\ 0 \in Nat /\ <<>> \in Seq(0 .. Frames - 1)
  OBVIOUS
<1>8. Rotation(0, 0, 0)
  BY <1>1, <1>2, <1>3, <1>4, <1>5, <1>6, <1>7 DEF Rotation
<1> QED
  BY <1>1, <1>7, <1>8, Zenon DEF FramesInv

(* Away from the display only imx_at changes.                              *)
LEMMA FramesKept ==
    ASSUME FramesInv, UNCHANGED Imx!imxFrames, ~Showing, ~Showing', imx_at' # "exited"
    PROVE  FramesInv'
<1>1. PICK n \in Nat, m \in Nat, k \in Nat : Rotation(n, m, k)
  BY DEF FramesInv
<1>2. /\ UNCHANGED <<free, refs, pending, flagged, queue, finished, queued_count,
                     disp_clr_index, shown>>
      /\ imx_at # "queue" /\ imx_at' # "queue" /\ imx_at # "dequeue" /\ imx_at' # "dequeue"
  BY DEF Imx!imxFrames, Showing
<1>3. Rotation(n, m, k)'
  BY <1>1, <1>2 DEF Rotation
<1> QED
  BY <1>2, <1>3 DEF FramesInv

LEMMA FramesQueued ==
    ASSUME FramesInv, Imx!QueueFrame, imx_at' # "exited"
    PROVE  FramesInv'
<1>1. PICK n \in Nat, m \in Nat, k \in Nat : Rotation(n, m, k)
  BY DEF FramesInv
<1>2. /\ imx_at = "queue" /\ queue' = Append(queue, shown) /\ queued_count' = queued_count + 1
      /\ imx_at' = (IF queued_count' > 2 THEN "dequeue" ELSE "clear")
      /\ UNCHANGED <<free, refs, pending, flagged, finished, disp_clr_index, shown>>
  BY DEF Imx!QueueFrame, Imx!Exit, Imx!Threshold
<1>3. Showing /\ Showing' /\ m = k + 1 /\ m - 1 = k /\ shown = Frame(k)
  <2>1. Showing /\ Showing'
    BY <1>2 DEF Showing
  <2>2. m = k + 1 /\ shown = Frame(m - 1)
    BY <1>1, <2>1 DEF Rotation
  <2> QED
    BY <2>1, <2>2
<1>4. /\ finished \in Seq(0 .. Frames - 1) /\ queue \in Seq(0 .. Frames - 1)
      /\ shown \in 0 .. Frames - 1
  BY <1>3, FrameType DEF FramesInv
<1>5. finished' \o queue' = Append(finished \o queue, Frame(k)) /\ queue' \in Seq(0 .. Frames - 1)
      /\ finished' \in Seq(0 .. Frames - 1)
  BY <1>2, <1>3, <1>4
<1>6. PICK c \in Nat : c = queued_count
  BY DEF FramesInv
<1>7. c <= 2 /\ c <= k /\ Run(finished \o queue, k - c, k)
  BY <1>1, <1>2, <1>6 DEF Rotation, FramesInv
<1>8. Run(finished' \o queue', m - (c + 1), m)
  <2>1. k - c \in Nat /\ m - (c + 1) = k - c
    BY <1>3, <1>7
  <2> QED
    BY <1>3, <1>5, <1>7, <2>1, RunAppend
<1>9. queued_count' = c + 1 /\ c + 1 \in Nat /\ c + 1 <= m /\ c + 1 <= 3 /\ (c + 1 > 2 \/ c + 1 <= 2)
  BY <1>2, <1>3, <1>6, <1>7
<1>10. imx_at' # "queue" /\ (imx_at' = "dequeue" \/ c + 1 <= 2)
  BY <1>2, <1>9
<1>11. Rotation(n, m, k)'
  BY <1>1, <1>2, <1>3, <1>8, <1>9, <1>10, Zenon DEF Rotation
<1>12. queued_count' \in Nat /\ queued_count' <= (IF imx_at' = "dequeue" THEN 3 ELSE 2)
  <2>1. CASE imx_at' = "dequeue"
    BY <1>9, <2>1, Zenon
  <2>2. CASE imx_at' # "dequeue"
    BY <1>9, <1>10, <2>2, Zenon
  <2> QED
    BY <2>1, <2>2
<1> QED
  BY <1>5, <1>11, <1>12, Zenon DEF FramesInv

LEMMA FramesDisplayed ==
    ASSUME FramesInv, Imx!DisplayNext
    PROVE  FramesInv'
<1>1. PICK n \in Nat, m \in Nat, k \in Nat : Rotation(n, m, k)
  BY DEF FramesInv
<1>2. /\ queue' = Tail(queue) /\ finished' = Append(finished, Head(queue)) /\ Len(queue) > 1
      /\ UNCHANGED <<imx_at, free, refs, pending, flagged, queued_count, disp_clr_index, shown>>
  BY DEF Imx!DisplayNext
<1>3. /\ finished' \o queue' = finished \o queue
      /\ finished' \in Seq(0 .. Frames - 1) /\ queue' \in Seq(0 .. Frames - 1)
  <2> DEFINE S == 0 .. Frames - 1
  <2>1. PICK f \in Seq(S) : f = finished
    BY DEF FramesInv
  <2>2. PICK q \in Seq(S) : q = queue
    BY DEF FramesInv
  <2>3. Len(q) > 1 /\ finished' = Append(f, Head(q)) /\ queue' = Tail(q)
    BY <1>2, <2>1, <2>2
  <2> HIDE DEF S
  <2>4. Append(f, Head(q)) \o Tail(q) = f \o q
    <3> DEFINE x == Append(f, Head(q)) \o Tail(q)
               y == f \o q
    <3>1. /\ Len(f) \in Nat /\ Len(q) \in Nat /\ Head(q) \in S /\ Tail(q) \in Seq(S)
          /\ Append(f, Head(q)) \in Seq(S) /\ Len(Append(f, Head(q))) = Len(f) + 1
          /\ Len(Tail(q)) = Len(q) - 1 /\ Head(q) = q[1]
      BY <2>3
    <3>2. x \in Seq(S) /\ y \in Seq(S) /\ Len(x) = Len(f) + Len(q) /\ Len(y) = Len(f) + Len(q)
      BY <3>1
    <3>3. ASSUME NEW i \in 1 .. Len(f) + Len(q)
          PROVE  x[i] = y[i]
      <4>1. CASE i <= Len(f)
        BY <3>1, <4>1
      <4>2. CASE i = Len(f) + 1
        BY <2>3, <3>1, <4>2
      <4>3. CASE i > Len(f) + 1
        <5>0. PICK l \in Nat : l = Len(f) + 1
          BY <3>1
        <5>1. PICK j \in Nat : i = l + j
          <6>1. i \in Int /\ i > l
            BY <3>1, <4>3, <5>0
          <6>2. i - l \in Nat /\ i = l + (i - l)
            BY <6>1
          <6> QED
            BY <6>2, Zenon
        <5>2. j \in 1 .. Len(Tail(q)) /\ j + 1 \in 1 .. Len(q) /\ i = (Len(f) + 1) + j /\ i = Len(f) + (j + 1)
          BY <3>1, <4>3, <5>0, <5>1
        <5>3. x[i] = Tail(q)[j]
          BY <3>1, <5>0, <5>1, <5>2
        <5>4. y[i] = q[j + 1]
          BY <3>1, <5>2
        <5>5. Tail(q)[j] = q[j + 1]
          BY <3>1, <5>2
        <5> QED
          BY <5>3, <5>4, <5>5
      <4> QED
        BY <3>1, <4>1, <4>2, <4>3
    <3> HIDE DEF x, y
    <3>4. x = y
      BY <3>2, <3>3
    <3> QED
      BY <3>4 DEF x, y
  <2>5. Append(f, Head(q)) \in Seq(S) /\ Tail(q) \in Seq(S)
    BY <2>3
  <2> QED
    BY <2>1, <2>2, <2>3, <2>4, <2>5 DEF S
<1>4. Rotation(n, m, k)'
  <2>1. Showing' <=> Showing
    BY <1>2 DEF Showing
  <2> QED
    BY <1>1, <1>2, <1>3, <2>1 DEF Rotation
<1> QED
  BY <1>2, <1>3, <1>4 DEF FramesInv

LEMMA FramesDequeued ==
    ASSUME FramesInv, Imx!DequeueFrame
    PROVE  FramesInv'
<1>1. PICK n \in Nat, m \in Nat, k \in Nat : Rotation(n, m, k)
  BY DEF FramesInv
<1>2. /\ imx_at = "dequeue" /\ imx_at' = "clear" /\ finished # <<>>
      /\ finished' = Tail(finished) /\ queued_count' = queued_count - 1
      /\ UNCHANGED <<queue, free, refs, pending, flagged, disp_clr_index, shown>>
  BY DEF Imx!DequeueFrame
<1>3. /\ finished' \o queue' = Tail(finished \o queue) /\ Len(finished \o queue) > 0
      /\ finished' \in Seq(0 .. Frames - 1) /\ queue' \in Seq(0 .. Frames - 1)
  <2> DEFINE S == 0 .. Frames - 1
  <2>1. PICK f \in Seq(S) : f = finished
    BY DEF FramesInv
  <2>2. PICK q \in Seq(S) : q = queue
    BY DEF FramesInv
  <2>3. f # <<>> /\ finished' = Tail(f) /\ queue' = q
    BY <1>2, <2>1, <2>2
  <2> HIDE DEF S
  <2>4. Tail(f) \o q = Tail(f \o q) /\ Len(f \o q) > 0
    BY <2>3
  <2>5. Tail(f) \in Seq(S) /\ q \in Seq(S)
    BY <2>3
  <2> QED
    BY <2>1, <2>2, <2>3, <2>4, <2>5 DEF S
<1>4. PICK c \in Nat : c = queued_count
  BY DEF FramesInv
<1>5. c <= 3 /\ c <= m /\ Run(finished \o queue, m - c, m)
  BY <1>1, <1>2, <1>4 DEF Rotation, FramesInv
<1>6. c > 0
  BY <1>3, <1>5 DEF Run
<1>7. Run(finished' \o queue', m - (c - 1), m)
  <2>1. m - c \in Nat /\ m - c < m /\ m - (c - 1) = (m - c) + 1
    BY <1>5, <1>6
  <2> QED
    BY <1>3, <1>5, <2>1, RunTail
<1>8. queued_count' = c - 1 /\ c - 1 \in Nat /\ c - 1 <= m /\ c - 1 <= 2
  BY <1>2, <1>4, <1>5, <1>6
<1>9. Showing /\ Showing' /\ imx_at' # "queue" /\ imx_at' # "dequeue"
  BY <1>2 DEF Showing
<1>10. Rotation(n, m, k)'
  BY <1>1, <1>2, <1>7, <1>8, <1>9, Zenon DEF Rotation
<1> QED
  BY <1>3, <1>8, <1>9, <1>10, Zenon DEF FramesInv

(* While none is shown, the buffer of the next frame is free.              *)
LEMMA FreeLeft ==
    ASSUME NEW n \in Nat, NEW m \in Nat, NEW k \in Nat, Rotation(n, m, k), ~Showing
    PROVE  n < Frames + Released(n, k)
<1> USE FrameCounts
<1>1. k = Over(n, Delay)
  BY DEF Rotation
<1>2. PICK o \in Nat : o = Over(n, Refs)
  BY Counting
<1>3. n <= o + Refs
  BY <1>2, Counting
<1>4. n <= k + Delay
  BY <1>1, Counting
<1>5. PICK d \in Nat : d = Cleared(k)
  BY ClearedCount
<1>6. k <= d + 1
  BY <1>5, ClearedCount
<1>7. PICK c \in Nat : c = Released(n, k)
  BY ReleasedCount
<1>8. c = o \/ c = d
  BY <1>2, <1>5, <1>7, ReleasedCount
<1>9. n < Frames + c
  BY <1>3, <1>4, <1>6, <1>8
<1> QED
  BY <1>7, <1>9

(* The frame whose flag is cleared next is free then, unless the stream    *)
(* refers to it.                                                           *)
LEMMA Clears ==
    ASSUME NEW n \in Nat, NEW m \in Nat, NEW k \in Nat, k # 1, m = k + 1, m = Over(n, Delay),
           NEW r, NEW p, NEW fl, fl = Flagged(k + 1),
           Run(r, Over(n, Refs), n), Run(p, m, n)
    PROVE  Imx!Freed(Frame(Cleared(k)), r, p, fl)
             = IF Cleared(k) < Over(n, Refs) THEN <<Frame(Cleared(k))>> ELSE <<>>
<1> DEFINE d == Cleared(k)
           o == Over(n, Refs)
<1>1. /\ d \in Nat /\ o \in Nat /\ o <= n /\ n <= o + Refs
      /\ n = m + Delay /\ (k = 0 => d = 0) /\ (k # 0 => d = k - 1)
      /\ Frames > Refs /\ Frames > Delay + 2 /\ Frames \in Nat /\ Refs \in Nat /\ Delay \in Nat
      /\ d < k + 1 /\ d < m /\ d < n
  <2>1. Frames > Refs /\ Frames > Delay + 2 /\ Frames \in Nat /\ Refs \in Nat /\ Delay \in Nat
    BY FrameCounts
  <2>2. o \in Nat /\ o <= n /\ n <= o + Refs
    BY <2>1, Counting
  <2>3. (n < Delay => m = 0) /\ (n >= Delay => n = m + Delay)
    BY <2>1, Counting
  <2>4. d \in Nat /\ (k = 0 => d = 0) /\ (k # 0 => d = k - 1)
    BY DEF Cleared
  <2> HIDE DEF d, o
  <2> QED
    BY <2>1, <2>2, <2>3, <2>4
<1>2. Flagged(k + 1) = IF k = 0 THEN {} ELSE {Frame(k)}
  <2>1. k + 1 - 1 = k /\ (k + 1 <= 1 <=> k = 0)
    OBVIOUS
  <2> QED
    BY <2>1 DEF Flagged
<1> HIDE DEF d, o
<1>21. (n - d) <= Delay + 2 /\ (n - d) < Frames
  <2>1. d \in Nat /\ (k = 0 => d = 0) /\ (k # 0 => d = k - 1)
    BY <1>1
  <2>2. d >= k - 1
    BY <2>1
  <2>3. Delay \in Nat /\ Frames \in Nat /\ Frames > Delay + 2
    BY <1>1
  <2>4. n = (k + 1) + Delay
    BY <1>1
  <2>5. (n - d) <= Delay + 2
    BY <2>1, <2>2, <2>3, <2>4
  <2> QED
    BY <2>1, <2>3, <2>5
<1>3. Frame(d) \notin fl
  <2>1. k # 0 => d # k /\ d - k < Frames /\ k - d < Frames
    BY <1>1
  <2>2. k # 0 => Frame(d) # Frame(k)
    BY <1>1, <2>1, FrameSame
  <2> QED
    BY <1>2, <2>2
<1>4. Frame(d) \notin Imx!Range(p)
  <2>1. Imx!Range(p) = {Frame(j) : j \in m .. n - 1}
    BY RunRange
  <2>2. ASSUME NEW j \in m .. n - 1 PROVE Frame(d) # Frame(j)
    <3>1. j \in Int /\ d - j < Frames /\ j - d < Frames /\ d # j
      BY <1>1, <1>21
    <3> QED
      BY <1>1, <3>1, FrameSame
  <2> QED
    BY <2>1, <2>2
<1>5. Frame(d) \in Imx!Range(r) <=> d >= o
  <2>1. Imx!Range(r) = {Frame(j) : j \in o .. n - 1}
    BY <1>1, RunRange DEF o
  <2>2. d >= o => d \in o .. n - 1
    BY <1>1
  <2>3. ASSUME NEW j \in o .. n - 1, Frame(d) = Frame(j) PROVE d >= o
    <3>1. j \in Int /\ j - d < Frames
      BY <1>1, <1>21
    <3>2. CASE d - j < Frames
      <4>1. d = j
        BY <1>1, <2>3, <3>1, <3>2, FrameSame
      <4> QED
        BY <4>1
    <3>3. CASE ~(d - j < Frames)
      BY <1>1, <3>1, <3>3
    <3> QED
      BY <3>2, <3>3
  <2> QED
    BY <2>1, <2>2, <2>3
<1>6. Frame(d) \in Imx!Range(r) \cup Imx!Range(p) \cup fl <=> ~(d < o)
  BY <1>1, <1>3, <1>4, <1>5
<1> QED
  BY <1>6 DEF Imx!Freed, d, o

(* The flag that is cleared: of the frame shown before, or too early of    *)
(* the first.                                                              *)
LEMMA FramesCleared ==
    ASSUME FramesInv, Imx!ClearFlag
    PROVE  FramesInv'
<1>1. PICK n \in Nat, m \in Nat, k \in Nat : Rotation(n, m, k)
  BY DEF FramesInv
<1>2. /\ imx_at = "clear" /\ imx_at' = "idle" /\ disp_clr_index' = shown
      /\ flagged' = flagged \ {disp_clr_index}
      /\ free' = (IF disp_clr_index \in flagged
                  THEN free \o Imx!Freed(disp_clr_index, refs, pending, flagged') ELSE free)
      /\ UNCHANGED <<refs, pending, queue, finished, queued_count, shown>>
  BY DEF Imx!ClearFlag, Imx!Clear
<1>3. Showing /\ ~Showing'
  BY <1>2 DEF Showing
<1>4. /\ m = k + 1 /\ m = Over(n, Delay) /\ shown = Frame(m - 1)
      /\ Run(refs, Over(n, Refs), n) /\ Run(pending, m, n) /\ Run(free, n, Frames + Released(n, k))
      /\ flagged = Flagged(k) \cup {Frame(m - 1)}
      /\ disp_clr_index = (IF k = 0 THEN 0 ELSE Frame(k - 1))
      /\ Run(finished \o queue, m - queued_count, m) /\ queued_count <= m
  BY <1>1, <1>2, <1>3, Zenon DEF Rotation
<1>5. /\ Frames \in Nat /\ Frames > Refs /\ Frames > Delay + 2 /\ Refs \in Nat /\ Delay \in Nat
      /\ m - 1 = k /\ k - 1 \in Int
  BY <1>4, FrameCounts
<1>6. k # 0 => Frame(k - 1) # Frame(k)
  <2>1. k # 0 => k - 1 # k /\ (k - 1) - k < Frames /\ k - (k - 1) < Frames
    BY <1>5
  <2> QED
    BY <1>5, <2>1, FrameSame
<1>7. flagged' = Flagged(m)
  <2>1. CASE k = 0
    <3>1. flagged = {Frame(0)} /\ disp_clr_index = 0 /\ Flagged(m) = {}
      <4>1. Flagged(0) = {} /\ Flagged(1) = {} /\ 0 + 1 = 1
        BY DEF Flagged
      <4> QED
        BY <1>4, <1>5, <2>1, <4>1
    <3>2. Frame(0) = 0
      BY <1>5, ModSmall, FrameCounts DEF Frame
    <3> QED
      BY <1>2, <3>1, <3>2
  <2>2. CASE k = 1
    <3>1. Flagged(k) = {} /\ Flagged(m) = {Frame(k)}
      BY <1>4, <1>5, <2>2 DEF Flagged
    <3> QED
      BY <1>2, <1>4, <1>5, <1>6, <2>2, <3>1
  <2>3. CASE k >= 2
    <3>1. Flagged(k) = {Frame(k - 1)} /\ Flagged(m) = {Frame(k)} /\ k # 0
      BY <1>4, <1>5, <2>3 DEF Flagged
    <3> QED
      BY <1>2, <1>4, <1>5, <1>6, <3>1
  <2> QED
    BY <2>1, <2>2, <2>3
<1>8. Run(free', n, Frames + Released(n, m))
  <2>1. PICK o \in Nat : o = Over(n, Refs)
    BY <1>5, Counting
  <2>2. PICK d \in Nat : d = Cleared(k)
    BY ClearedCount
  <2>3. CASE k = 1
    <3>1. disp_clr_index \notin flagged
      <4>1. Flagged(k) = {} /\ disp_clr_index = Frame(k - 1) /\ k # 0
        BY <1>4, <2>3 DEF Flagged
      <4> QED
        BY <1>4, <1>5, <1>6, <4>1
    <3>2. Released(n, m) = Released(n, k)
      <4>1. Cleared(m) = Cleared(k)
        BY <1>4, <2>3 DEF Cleared
      <4> QED
        BY <4>1 DEF Released
    <3> QED
      BY <1>2, <1>4, <3>1, <3>2
  <2>4. CASE k # 1
    <3>1. disp_clr_index = Frame(d) /\ disp_clr_index \in flagged /\ Cleared(m) = d + 1
      <4>1. CASE k = 0
        <5>1. d = 0 /\ Cleared(m) = 1 /\ disp_clr_index = 0 /\ Frame(k) = Frame(0)
          BY <1>4, <2>2, <4>1 DEF Cleared
        <5>2. Frame(0) = 0
          BY <1>5, ModSmall, FrameCounts DEF Frame
        <5> QED
          BY <1>4, <1>5, <5>1, <5>2
      <4>2. CASE k # 0
        <5>1. d = k - 1 /\ Cleared(m) = k /\ Flagged(k) = {Frame(k - 1)}
          BY <1>4, <1>5, <2>2, <2>4, <4>2 DEF Cleared, Flagged
        <5> QED
          BY <1>4, <1>5, <4>2, <5>1
      <4> QED
        BY <4>1, <4>2
    <3>2. Imx!Freed(Frame(d), refs, pending, flagged') = IF d < o THEN <<Frame(d)>> ELSE <<>>
      <4>1. flagged' = Flagged(k + 1)
        BY <1>4, <1>7
      <4> QED
        BY <1>4, <2>1, <2>2, <2>4, <4>1, Clears
    <3>3. free \in Seq(0 .. Frames - 1)
      BY <1>4 DEF Run
    <3>4. CASE d < o
      <4>1. Released(n, k) = d /\ Released(n, m) = d + 1
        BY <2>1, <2>2, <3>1, <3>4 DEF Released
      <4>2. Frame(Frames + d) = Frame(d)
        BY <1>5, FrameType
      <4>3. free' = Append(free, Frame(d))
        <5>1. PICK t \in Seq(0 .. Frames - 1) : t = free
          BY <3>3
        <5>2. t \o <<Frame(d)>> = Append(t, Frame(d))
          BY FrameType
        <5> QED
          BY <1>2, <3>1, <3>2, <3>4, <5>1, <5>2
      <4>4. Run(Append(free, Frame(Frames + d)), n, Frames + d + 1)
        <5>1. Frames + d \in Nat
          BY <1>5
        <5> QED
          BY <1>4, <4>1, <5>1, RunAppend
      <4>5. Frames + d + 1 = Frames + (d + 1)
        BY <1>5
      <4> QED
        BY <4>1, <4>2, <4>3, <4>4, <4>5
    <3>5. CASE ~(d < o)
      <4>1. Released(n, k) = o /\ Released(n, m) = o
        BY <2>1, <2>2, <3>1, <3>5 DEF Released
      <4>2. free \o <<>> = free
        BY <3>3
      <4>3. free' = free
        BY <1>2, <3>1, <3>2, <3>5, <4>2
      <4> QED
        BY <1>4, <4>1, <4>3
    <3> QED
      BY <3>4, <3>5
  <2> QED
    BY <2>3, <2>4
<1>9. m # 0 /\ Flagged(m) \cup {} = Flagged(m)
  BY <1>4
<1>10. Rotation(n, m, m)'
  BY <1>2, <1>3, <1>4, <1>7, <1>8, <1>9, Zenon DEF Rotation
<1>11. /\ finished' \in Seq(0 .. Frames - 1) /\ queue' \in Seq(0 .. Frames - 1)
       /\ queued_count' \in Nat /\ queued_count' <= 2 /\ imx_at' # "dequeue"
  BY <1>2 DEF FramesInv
<1> QED
  BY <1>10, <1>11, Zenon DEF FramesInv

LEMMA FramesNext ==
    (imx_at # "exited" => FramesInv) /\ (Imx!Next \/ UNCHANGED imx)
      => (imx_at' # "exited" => FramesInv')
<1> SUFFICES ASSUME imx_at # "exited" => FramesInv, Imx!Next \/ UNCHANGED imx,
                    imx_at' # "exited"
             PROVE  FramesInv'
  OBVIOUS
<1> USE DEF Imx!Exit
<1>1. CASE UNCHANGED <<imx_at, Imx!imxFrames>>
  <2>1. Showing' <=> Showing
    BY <1>1 DEF Showing
  <2> QED
    BY <1>1, <2>1 DEF FramesInv, Rotation, Imx!imxFrames
<1>2. CASE Imx!Setup
  BY <1>2, FramesKept DEF Imx!Setup, Showing
<1>3. ASSUME NEW u \in ImxUnits, Imx!SubmitUnit(u) PROVE FramesInv'
  BY <1>3, FramesKept DEF Imx!SubmitUnit, Showing
<1>4. CASE Imx!WriteEntry
  BY <1>1, <1>4 DEF Imx!WriteEntry
<1>5. CASE Imx!StartDecoding
  BY <1>5, FramesKept DEF Imx!StartDecoding, Showing
<1>6. CASE Imx!DecodeNothing
  BY <1>6, FramesKept DEF Imx!DecodeNothing, Showing
<1>7. ASSUME NEW n \in 1 .. filled, Imx!Decode(n) PROVE FramesInv'
  BY <1>7, FramesDecoded DEF Imx!Decode
<1>8. CASE Imx!QueueFrame
  BY <1>8, FramesQueued DEF Imx!QueueFrame
<1>9. CASE Imx!DequeueFrame
  BY <1>9, FramesDequeued DEF Imx!DequeueFrame
<1>10. CASE Imx!ClearFlag
  BY <1>10, FramesCleared DEF Imx!ClearFlag
<1>11. CASE Imx!DeviceFails
  BY <1>11 DEF Imx!DeviceFails
<1>12. CASE Imx!DisplayNext
  BY <1>12, FramesDisplayed DEF Imx!DisplayNext
<1>13. CASE Imx!Cleanup
  BY <1>13, FramesKept DEF Imx!Cleanup, Showing
<1>14. CASE UNCHANGED imx
  BY <1>1, <1>14 DEF imx, Imx!imxFrames
<1> QED
  BY <1>2, <1>3, <1>4, <1>5, <1>6, <1>7, <1>8, <1>9, <1>10, <1>11, <1>12, <1>13, <1>14
     DEF Imx!Next, Imx!Client

LEMMA FramesApart == FramesInv /\ imx_at = "decode" => free # <<>> /\ Head(free) \notin Imx!Held
<1> SUFFICES ASSUME FramesInv, imx_at = "decode" PROVE free # <<>> /\ Head(free) \notin Imx!Held
  OBVIOUS
<1> USE FrameCounts
<1>1. PICK n \in Nat, m \in Nat, k \in Nat : Rotation(n, m, k)
  BY DEF FramesInv
<1>2. ~Showing
  BY DEF Showing
<1>3. m = k /\ k = Over(n, Delay) /\ Run(free, n, Frames + Released(n, k))
      /\ Run(finished \o queue, k - queued_count, k) /\ queued_count <= k
  BY <1>1, <1>2 DEF Rotation
<1>4. PICK c \in Nat : c = Released(n, k)
  BY ReleasedCount, Counting
<1>5. n < Frames + c
  BY <1>1, <1>2, <1>4, FreeLeft
<1>6. free # <<>> /\ Head(free) = Frame(n)
  BY <1>3, <1>4, <1>5, RunTail
<1>7. PICK q \in Nat : q = queued_count
  BY DEF FramesInv
<1>8. q <= 2 /\ q <= k /\ k <= n /\ n <= k + Delay /\ k - q \in Nat
  <2>1. q <= 2 /\ q <= k
    BY <1>3, <1>7 DEF FramesInv
  <2>2. k <= n /\ n <= k + Delay
    BY <1>3, Counting
  <2> QED
    BY <2>1, <2>2
<1>9. Imx!Range(finished \o queue) = {Frame(j) : j \in k - q .. k - 1}
  BY <1>3, <1>7, <1>8, RunRange
<1>10. ASSUME NEW j \in k - q .. k - 1 PROVE Frame(n) # Frame(j)
  <2>1. j \in Int /\ n - j < Frames /\ j - n < Frames /\ n # j
    BY <1>8
  <2> QED
    BY <2>1, FrameSame
<1>11. Imx!Held \subseteq Imx!Range(finished \o queue)
  <2> DEFINE S == 0 .. Frames - 1
  <2>1. PICK f \in Seq(S) : f = finished
    BY DEF FramesInv
  <2>2. PICK w \in Seq(S) : w = queue
    BY DEF FramesInv
  <2> HIDE DEF S
  <2>3. ASSUME NEW x \in Imx!Range(f) PROVE x \in Imx!Range(f \o w)
    <3>1. PICK i \in 1 .. Len(f) : x = f[i]
      BY <2>3 DEF Imx!Range
    <3>2. i \in 1 .. Len(f \o w) /\ (f \o w)[i] = x
      BY <3>1
    <3> QED
      BY <3>2 DEF Imx!Range
  <2>4. ASSUME NEW x \in Imx!Range(w) PROVE x \in Imx!Range(f \o w)
    <3>1. PICK i \in 1 .. Len(w) : x = w[i]
      BY <2>4 DEF Imx!Range
    <3>2. Len(f) + i \in 1 .. Len(f \o w) /\ (f \o w)[Len(f) + i] = x
      BY <3>1
    <3> QED
      BY <3>2 DEF Imx!Range
  <2> QED
    BY <2>1, <2>2, <2>3, <2>4 DEF Imx!Held
<1> QED
  BY <1>6, <1>9, <1>10, <1>11

(* The two-deep queue of imx.c: although a display flag is cleared one     *)
(* frame after, and that of the first frame too early, no buffer V4L2 has  *)
(* is ever decoded into, and there is always one to decode into.           *)
THEOREM FramesKeepRotating == RenderersSpec => []FramesRotate
<1> DEFINE Inv == imx_at # "exited" => FramesInv
<1>1. RenderersInit => Inv
  BY FramesInit DEF RenderersInit
<1>2. Inv /\ [RenderersNext]_allVars => Inv'
  <2>1. RenderersNext \/ UNCHANGED allVars => Imx!Next \/ UNCHANGED imx
    BY DEF RenderersNext, ImxStep, AmlStep, PiStep, LibraryStep, allVars
  <2> QED
    BY <2>1, FramesNext
<1>3. Inv => FramesRotate
  BY FramesApart DEF FramesRotate, Imx!FramesRotate
<1> QED
  BY <1>1, <1>2, <1>3, PTL DEF RenderersSpec

==============================================================================
