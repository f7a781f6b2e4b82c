----------------------------- MODULE MuxedFile -----------------------------
(***************************************************************************)
(* media/progressive_mux.go: a fragmented video file and a fragmented      *)
(* audio file become one progressive MP4.  The samples of both are parsed  *)
(* out of their moofs, their bytes are copied chunk by chunk into one      *)
(* mdat, and a sample table per track (stts, ctts, stss, stsc, stsz,       *)
(* co64) is what a player has left to find them by.                        *)
(*                                                                         *)
(* A state is a pair of source files, read as far as they have been        *)
(* fetched; a step appends one top-level moof to one of them.  Everything  *)
(* the muxer does is a function of that pair.  A byte is the pair of its   *)
(* track and its place in the source, so that a byte which lands in the    *)
(* wrong place is seen; boxes are records, and the copied ones (hdlr,      *)
(* stsd, ...) are left out.                                                *)
(***************************************************************************)
EXTENDS Integers, Sequences, NoneValue

CONSTANTS MFMoofs,    \* the moof boxes that may come: what tfhd and truns say
          MFMoovs,    \* the moov boxes a file may begin with
          MFFrags     \* a bound: per track, the moofs of its file

(* The fields of the boxes.  A run after the first says where its samples   *)
(* are, as every run of Reddit's does (the comment of readFragmentSamples). *)
Optional(S) == S \union {None}
EntryType == [dur : Optional(Nat), size : Optional(Nat), nonsync : Optional(BOOLEAN),
              cto : Optional(Int)]
TrunType == [offset : Optional(Int), first : Optional(BOOLEAN), entries : Seq(EntryType)]
HeadType == [dur : Optional(Nat), size : Optional(Nat), nonsync : Optional(BOOLEAN)]
MoofType == [traf : BOOLEAN, cut : BOOLEAN, tfhd : Optional(HeadType), truns : Seq(TrunType)]
TrexType == [dur : Nat, size : Nat, nonsync : BOOLEAN]
MoovType == [traks : Nat, boxes : SUBSET STRING, media : Nat, movie : Nat, trex : TrexType]

ASSUME MFAssumption ==
  /\ MFMoovs \subseteq MoovType /\ MFMoofs \subseteq MoofType
  /\ \A moof \in MFMoofs : \A j \in 2 .. Len(moof.truns) : moof.truns[j].offset # None

VARIABLES mfMoov,     \* per track: the moov of its file
          mfFiles     \* per track: the moofs that follow it, in order
mfVars == <<mfMoov, mfFiles>>

MFTracks == {"video", "audio"}
MFTypeOK == mfMoov \in [MFTracks -> MFMoovs] /\ mfFiles \in [MFTracks -> Seq(MFMoofs)]

(* A loop of n turns: what it has after each of them. *)
Turns(n, base, Turn(_, _)) ==
  LET after[i \in 0 .. n] == IF i = 0 THEN base ELSE Turn(after[i - 1], i) IN after

(* Numbers added up, after each; which of them brings the sum to n; and      *)
(* sequences put end to end.                                                *)
Sums(s) == Turns(Len(s), 0, LAMBDA sum, i : sum + s[i])
Total(s) == Sums(s)[Len(s)]
Holder(s, n) == CHOOSE c \in 1 .. Len(s) : Sums(s)[c - 1] < n /\ n <= Sums(s)[c]
FlatSoFar(ss) == Turns(Len(ss), <<>>, LAMBDA all, c : all \o ss[c])
Flat(ss) == FlatSoFar(ss)[Len(ss)]

(* A field that a box leaves to the level above is None. *)
Or(field, default) == IF field = None THEN default ELSE field

(* An offset in a source: the moof it is counted from (base), and the rest. *)
InMoof(moof, n) == [moof |-> moof, n |-> n]

-----------------------------------------------------------------------------
(* Reading. *)

(* What the output needs of a file's moov: there is one track, and the      *)
(* boxes that hold its id, its two timescales and its media are there.      *)
ReadTrackInfo(t) ==
  IF mfMoov[t].traks = 1 /\ {"tkhd", "mdhd", "mvhd", "minf"} \subseteq mfMoov[t].boxes
  THEN [mediaTimescale |-> mfMoov[t].media, movieTimescale |-> mfMoov[t].movie]
  ELSE None

(* The defaults a moof's samples get: tfhd's, or else the trex of the track. *)
Defaults(t, moof) ==
  [dur   |-> Or(moof.tfhd.dur, mfMoov[t].trex.dur),
   size  |-> Or(moof.tfhd.size, mfMoov[t].trex.size),
   nonsync |-> Or(moof.tfhd.nonsync, mfMoov[t].trex.nonsync)]

(* One entry of a run: its own size, duration and flags where the run says  *)
(* they are present; the first sample's flags win over both.                *)
ReadEntry(run, i, def) ==
  LET e == run.entries[i]
  IN  [size |-> Or(e.size, def.size), dur |-> Or(e.dur, def.dur), cto |-> Or(e.cto, 0),
       sync |-> ~ IF i = 1 /\ run.first # None THEN run.first
                  ELSE Or(e.nonsync, def.nonsync)]

Sizes(samples) == [i \in 1 .. Len(samples) |-> samples[i].size]

(* A run's samples lie end to end from the data offset, or from the base. *)
ReadRun(t, moof, k, run) ==
  LET es == [i \in 1 .. Len(run.entries) |-> ReadEntry(run, i, Defaults(t, moof))]
  IN  [i \in 1 .. Len(es) |->
         [size |-> es[i].size, dur |-> es[i].dur, cto |-> es[i].cto, sync |-> es[i].sync,
          src |-> InMoof(k, Or(run.offset, 0) + Sums(Sizes(es))[i - 1])]]

ParseMoofIntoSamples(t, moof, k) ==
  Flat([j \in 1 .. Len(moof.truns) |-> ReadRun(t, moof, k, moof.truns[j])])

(* One group a moof that has a traf, also one without a sample. *)
ReadSoFar(t) ==
  Turns(Len(mfFiles[t]), <<>>, LAMBDA groups, k :
    IF mfFiles[t][k].traf THEN Append(groups, ParseMoofIntoSamples(t, mfFiles[t][k], k))
    ELSE groups)
ReadFragmentSamples(t) == ReadSoFar(t)[Len(mfFiles[t])]

-----------------------------------------------------------------------------
(* Writing the samples. *)

Header == 16                               \* the large-size mdat header

BytesOf(t, s) == [b \in 1 .. s.size |-> [track |-> t, src |-> InMoof(s.src.moof, s.src.n + b - 1)]]

(* The chunk goes to the end of what is written, which is its offset. *)
ChunkBytes(t, samples) == Flat([i \in 1 .. Len(samples) |-> BytesOf(t, samples[i])])
WriteChunk(out, t, samples) ==
  [bytes   |-> out.bytes \o ChunkBytes(t, samples),
   offsets |-> [out.offsets EXCEPT ![t] = Append(@, Header + Len(out.bytes))]]
WriteIth(frags, out, t, i) ==
  IF i \in 1 .. Len(frags[t]) THEN WriteChunk(out, t, frags[t][i]) ELSE out

(* Video's i-th chunk, then audio's, until the longer of the two is done. *)
Longest(frags) == IF Len(frags["video"]) > Len(frags["audio"]) THEN Len(frags["video"])
                  ELSE Len(frags["audio"])
WrittenSoFar(frags) ==
  Turns(Longest(frags), [bytes |-> <<>>, offsets |-> [t \in MFTracks |-> <<>>]],
        LAMBDA out, i : WriteIth(frags, WriteIth(frags, out, "video", i), "audio", i))
WriteMdat(frags) == WrittenSoFar(frags)[Longest(frags)]

-----------------------------------------------------------------------------
(* The sample tables. *)

(* Runs of one value: a count and the value.  stts over durations, ctts     *)
(* over composition offsets.                                                *)
Alike(count, value) == [count |-> count, value |-> value]
Longer(runs, v) ==
  IF runs # <<>> /\ runs[Len(runs)].value = v
  THEN [runs EXCEPT ![Len(runs)] = Alike(@.count + 1, v)]
  ELSE Append(runs, Alike(1, v))
RunsSoFar(values) == Turns(Len(values), <<>>, LAMBDA runs, i : Longer(runs, values[i]))
Runs(values) == RunsSoFar(values)[Len(values)]

Durations(samples) == [i \in 1 .. Len(samples) |-> samples[i].dur]
WriteStts(samples) == Runs(Durations(samples))

(* A table that may be left out is a set of at most one. *)
AnalyzeCtts(samples) ==
  [has |-> \E i \in 1 .. Len(samples) : samples[i].cto # 0,
   version |-> IF \E i \in 1 .. Len(samples) : samples[i].cto < 0 THEN 1 ELSE 0]
WriteCtts(samples) ==
  IF AnalyzeCtts(samples).has
  THEN {[version |-> AnalyzeCtts(samples).version,
         runs |-> Runs([i \in 1 .. Len(samples) |-> samples[i].cto])]}
  ELSE {}

(* No table means that every sample may be sought to. *)
WriteStss(samples) ==
  IF \A i \in 1 .. Len(samples) : samples[i].sync THEN {}
  ELSE {{i \in 1 .. Len(samples) : samples[i].sync}}

Entry(first, per) == [first |-> first, per |-> per]

\* Mutant: the count of the first chunk is never replaced by a later one.
StscForgets(frags) ==
  Turns(Len(frags), <<>>, LAMBDA entries, i :
    IF i = 1 \/ Len(frags[i]) # entries[1].per
    THEN Append(entries, Entry(i, Len(frags[i]))) ELSE entries)

(* A chunk gets an entry when its count is not the one before it. *)
StscSoFar(frags) ==
  Turns(Len(frags), <<>>, LAMBDA entries, i :
    IF i = 1 \/ Len(frags[i]) # entries[Len(entries)].per
    THEN Append(entries, Entry(i, Len(frags[i]))) ELSE entries)
WriteStsc(frags) == StscSoFar(frags)[Len(frags)]

WriteStsz(samples) == Sizes(samples)

TotalDuration(samples) == Total(Durations(samples))
ScaleDuration(d, from, to) == IF from = 0 \/ to = 0 \/ from = to THEN d ELSE (d * to) \div from

WriteTrak(info, frags, offsets, movie) ==
  LET samples == Flat(frags)
  IN  [mdhd |-> TotalDuration(samples),
       tkhd |-> ScaleDuration(TotalDuration(samples), info.mediaTimescale, movie),
       stts |-> WriteStts(samples), ctts |-> WriteCtts(samples), stss |-> WriteStss(samples),
       stsc |-> WriteStsc(frags), stsz |-> WriteStsz(samples), co64 |-> offsets]

(* The movie runs as long as the longer track. *)
WriteProgressiveMoov(frags, mdat) ==
  LET own   == ReadTrackInfo("video").movieTimescale
      movie == IF own = 0 THEN 1000 ELSE own
      traks == [t \in MFTracks |-> WriteTrak(ReadTrackInfo(t), frags[t], mdat.offsets[t], movie)]
  IN  [traks |-> traks,
       mvhd |-> IF traks["audio"].tkhd > traks["video"].tkhd THEN traks["audio"].tkhd
                ELSE traks["video"].tkhd]

(* No file comes of a moov that lacks a box, of a track without a fragment, *)
(* of a traf without its tfhd, or of a sample the source is cut short of.   *)
Readable(t) == \A i \in DOMAIN mfFiles[t] : mfFiles[t][i].traf => mfFiles[t][i].tfhd # None
WholeSource(t) == \A i \in DOMAIN mfFiles[t] : mfFiles[t][i].traf => ~ mfFiles[t][i].cut
Muxes == \A t \in MFTracks : /\ ReadTrackInfo(t) # None
                              /\ Readable(t) /\ WholeSource(t)
                              /\ ReadFragmentSamples(t) # <<>>

MuxFragmentedMP4 ==
  LET frags == [t \in MFTracks |-> ReadFragmentSamples(t)]
      mdat  == WriteMdat(frags)
  IN  [mdat |-> mdat.bytes, moov |-> WriteProgressiveMoov(frags, mdat)]

-----------------------------------------------------------------------------
(* A file grows by a fragment. *)
NextFragment(t, moof) ==
  /\ Len(mfFiles[t]) < MFFrags[t]
  /\ mfFiles' = [mfFiles EXCEPT ![t] = Append(@, moof)]
  /\ UNCHANGED mfMoov

MFInit == mfMoov \in [MFTracks -> MFMoovs] /\ mfFiles = [t \in MFTracks |-> <<>>]
MFNext == \E t \in MFTracks, moof \in MFMoofs : NextFragment(t, moof)
MFSpec == MFInit /\ [][MFNext]_mfVars

-----------------------------------------------------------------------------
(* What a player makes of the result, by ISO 14496-12 alone. *)

(* The samples a chunk holds: what the last entry at or before it says. *)
PerChunk(trak, c) ==
  trak.stsc[CHOOSE k \in DOMAIN trak.stsc :
              /\ trak.stsc[k].first <= c
              /\ \A l \in DOMAIN trak.stsc : trak.stsc[l].first <= c => l <= k].per

Before(trak, c) == Sums([d \in 1 .. Len(trak.co64) |-> PerChunk(trak, d)])[c - 1]
ChunkOf(trak, n) == CHOOSE c \in 1 .. Len(trak.co64) :
                      Before(trak, c) < n /\ n <= Before(trak, c + 1)

(* A sample lies behind those of its chunk that come before it.             *)
Place(trak, n) ==
  LET c == ChunkOf(trak, n)
      first == Before(trak, c)
  IN  trak.co64[c] + Total([i \in 1 .. n - 1 - first |-> trak.stsz[first + i]])
ValueIn(runs, n) == runs[Holder([k \in 1 .. Len(runs) |-> runs[k].count], n)].value

PlaysAs(file, t, n) ==
  LET trak == file.moov.traks[t]
      from == Place(trak, n) - Header
  IN  [bytes |-> SubSeq(file.mdat, from + 1, from + trak.stsz[n]),
       dur   |-> ValueIn(trak.stts, n),
       cto   |-> IF trak.ctts = {} THEN 0
                 ELSE ValueIn((CHOOSE table \in trak.ctts : TRUE).runs, n),
       sync  |-> \A table \in trak.stss : n \in table]

(* The same samples in the source: a fragment, read by the same standard,   *)
(* its first run from the moof unless it says otherwise.                    *)
SourceRun(t, k, j) ==
  LET run  == mfFiles[t][k].truns[j]
      head == mfFiles[t][k].tfhd
      trex == mfMoov[t].trex
      size == [i \in 1 .. Len(run.entries) |->
                 Or(run.entries[i].size, Or(head.size, trex.size))]
      from == IF j = 1 /\ run.offset = None THEN 0 ELSE run.offset
  IN  [i \in 1 .. Len(run.entries) |->
         [bytes |-> [b \in 1 .. size[i] |->
                       [track |-> t, src |-> InMoof(k, from + Sums(size)[i - 1] + b - 1)]],
          dur   |-> Or(run.entries[i].dur, Or(head.dur, trex.dur)),
          cto   |-> Or(run.entries[i].cto, 0),
          sync  |-> ~ (IF i = 1 /\ run.first # None THEN run.first
                       ELSE Or(run.entries[i].nonsync, Or(head.nonsync, trex.nonsync)))]]
SourceMoof(t, k) ==
  IF ~ mfFiles[t][k].traf THEN <<>>
  ELSE Flat([j \in 1 .. Len(mfFiles[t][k].truns) |-> SourceRun(t, k, j)])
SourceSamples(t) == Flat([k \in 1 .. Len(mfFiles[t]) |-> SourceMoof(t, k)])

(* A player that follows the tables of the muxed file meets every sample of *)
(* both sources, in their order, with its own bytes, duration, composition  *)
(* offset and seek mark, and the headers run as long as the longer track    *)
(* (progressive_mux.go writeMdat against writeStsc/Stsz/Co64/Stts/Ctts).    *)
(* Chunks of unequal and of zero samples are what a test file lacks.        *)
PlayerFindsEverySample ==
  Muxes => LET file == MuxFragmentedMP4
           IN  /\ \A t \in MFTracks :
                    LET want == SourceSamples(t)
                        trak == file.moov.traks[t]
                    IN  /\ Len(trak.stsz) = Len(want)
                        /\ Before(trak, Len(trak.co64) + 1) = Len(want)
                        /\ \A n \in 1 .. Len(want) : PlaysAs(file, t, n) = want[n]
               /\ \A t \in MFTracks : file.moov.mvhd >= file.moov.traks[t].tkhd
=============================================================================
