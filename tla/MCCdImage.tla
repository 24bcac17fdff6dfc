----------------------------- MODULE MCCdImage ------------------------------
(* Small discs of every kind for CdImage.                                  *)
EXTENDS CdImage

File(i)   == [op |-> "FILE", file |-> i, quoted |-> TRUE]
Bare(i)   == [op |-> "FILE", file |-> i, quoted |-> FALSE]
Track(n, f) == [op |-> "TRACK", num |-> n, format |-> f]
Index(lba)  == [op |-> "INDEX", lba |-> lba]
Rem         == [op |-> "other"]

Good(size) == [size |-> size, ok |-> TRUE]
Bad        == [size |-> 0, ok |-> FALSE]

Unit == 2448

Run(track, first, count, file, pos, step, size, offset, use) ==
  [track |-> track, first |-> first, count |-> count, file |-> file, pos |-> pos, step |-> step,
   size |-> size, offset |-> offset, use |-> use]

Flat(track, first, count, file, pos, size, offset) ==
  Run(track, first, count, file, pos, size, size, offset, "track")

Stored(track, first, count, unit, size, offset) ==
  Run(track, first, count, 1, unit * Unit, Unit, size, offset, "track")

Silence(track, first, count, size) == Run(track, first, count, 1, 0, Unit, size, 0, "gap")

Iso(name, size, bin, scan, segs) ==
  [name |-> name, kind |-> "iso", files |-> <<Good(size)>>, bin |-> bin, scan |-> scan, segs |-> segs,
   starts |-> <<0>>]

Cue(name, files, lines, segs, starts) ==
  [name |-> name, kind |-> "cue", files |-> files, lines |-> lines, segs |-> segs, starts |-> starts]

Chd(name, units, tracks, segs, starts) ==
  [name |-> name, kind |-> "chd", files |-> <<Good(units * Unit)>>, unit_bytes |-> Unit,
   tracks |-> tracks, segs |-> segs, starts |-> starts]

ChdTrack(n, format, size, at, frames, pregap, stored, postgap) ==
  [num |-> n, format |-> format, data_size |-> size, logical_offset |-> at * Unit,
   frames |-> frames, pregap |-> pregap, pregap_stored |-> stored, postgap |-> postgap]

\* Images without a cue sheet: data, raw data, raw audio, and one that is not there.
MCIsos ==
  {Iso("iso", 3 * 2048, FALSE, FALSE, <<Flat(1, 0, 3, 1, 0, 2048, 0)>>),
   Iso("raw", 3 * 2352, TRUE, TRUE, <<Flat(1, 0, 3, 1, 0, 2352, 16)>>),
   Iso("cdda", 3 * 2352, TRUE, FALSE, <<Flat(1, 0, 3, 1, 0, 2352, 0)>>),
   [Iso("away", 2048, FALSE, FALSE, <<>>) EXCEPT !.files = <<Bad>>]}

\* Cue sheets: sectors of two sizes in one file, with a start at a whole minute;
\* one file per track, with a gap before INDEX 01 of the second; a gap before the
\* first track; tracks and files the parser drops; a file without tracks; a second
\* file that is missing, or empty; two files and an unknown format.
MCCues ==
  {Cue("mixed", <<Good(4350 * 2048 + 2 * 2352)>>,
       <<File(1), Track(1, "MODE1_2048"), Index(0), Track(2, "AUDIO"), Index(4350)>>,
       <<Flat(1, 0, 4350, 1, 0, 2048, 0), Flat(2, 4350, 2, 1, 4350 * 2048, 2352, 0)>>, <<0, 4350>>),
   Cue("files", <<Good(3 * 2352), Good(4 * 2352)>>,
       <<File(1), Track(1, "MODE2_2352"), Index(0), File(2), Track(2, "AUDIO"), Rem, Index(2)>>,
       <<Flat(1, 0, 3, 1, 0, 2352, 24), Run(0, 3, 2, 2, 0, 2352, 2352, 0, "lost"),
         Flat(2, 5, 2, 2, 2 * 2352, 2352, 0)>>, <<0, 5>>),
   Cue("lead", <<Good(4 * 2352)>>, <<File(1), Track(1, "MODE1_2352"), Index(2)>>,
       <<Flat(0, 0, 2, 1, 0, 2352, 16), Flat(1, 2, 2, 1, 2 * 2352, 2352, 16)>>, <<2>>),
   Cue("quirks", <<Good(2 * 2352), Bad>>,
       <<Index(7), File(1), Bare(2), Track(1, "AUDIO"), Track(1, "MODE1_2352"), Track(0, "AUDIO"),
         Index(0), Index(1)>>,
       <<Flat(1, 0, 2, 1, 0, 2352, 16)>>, <<0>>),
   Cue("trackless", <<Good(2 * 2048), Good(2 * 2048)>>,
       <<File(1), Track(1, "MODE1_2048"), Index(0), File(2)>>,
       <<Flat(1, 0, 2, 1, 0, 2048, 0), Run(0, 2, 2, 2, 0, 2048, 2048, 0, "lost")>>, <<0>>),
   Cue("missing", <<Good(2352), Bad>>,
       <<File(1), Track(1, "AUDIO"), Index(0), File(2), Track(2, "AUDIO"), Index(0)>>, <<>>, <<>>),
   Cue("empty", <<Good(2352), Good(0)>>,
       <<File(1), Track(1, "AUDIO"), Index(0), File(2), Track(2, "AUDIO"), Index(0)>>, <<>>, <<>>),
   Cue("unknown", <<Good(2352), Good(2352)>>,
       <<File(1), Track(1, "AUDIO"), Index(0), File(2), Track(2, "UNKNOWN"), Index(0)>>, <<>>, <<>>)}

\* CHDs: a track padded to four frames, then audio, and
\* postgaps; user data alone, then a frame around it; pregaps the file does not hold
\* and ones it does, which are not judged; tracks past the end; an empty file.
MCChds ==
  {Chd("chd", 12, <<ChdTrack(1, "MODE1_2352", 2352, 0, 3, 0, TRUE, 2),
                    ChdTrack(2, "AUDIO", 2352, 4, 5, 0, FALSE, 1)>>,
       <<Stored(1, 0, 3, 0, 2352, 16), Silence(1, 3, 2, 2352),
         Stored(2, 5, 5, 4, 2352, 0), Silence(2, 10, 1, 2352)>>, <<0, 5>>),
   Chd("chd_user", 8, <<ChdTrack(1, "MODE1", 2048, 0, 2, 0, TRUE, 0),
                        ChdTrack(2, "MODE2_2352", 2352, 4, 2, 0, TRUE, 0)>>,
       <<Stored(1, 0, 2, 0, 2048, 0), Silence(1, 2, 0, 2048),
         Stored(2, 2, 2, 4, 2352, 24), Silence(2, 4, 0, 2352)>>, <<0, 2>>),
   Chd("chd_virtual", 12, <<ChdTrack(1, "MODE1_2352", 2352, 0, 3, 0, TRUE, 0),
                            ChdTrack(2, "AUDIO", 2352, 4, 5, 2, FALSE, 1)>>, <<>>, <<>>),
   Chd("chd_pregap", 8, <<ChdTrack(1, "MODE1", 2048, 0, 2, 0, TRUE, 0),
                          ChdTrack(2, "MODE2_2352", 2352, 4, 2, 1, TRUE, 0)>>, <<>>, <<>>),
   Chd("chd_short", 3, <<ChdTrack(1, "MODE1_2352", 2352, 0, 4, 0, TRUE, 0)>>, <<>>, <<>>),
   Chd("chd_empty", 0, <<>>, <<>>, <<>>)}

MCDiscs   == MCIsos \cup MCCues \cup MCChds

\* Read sizes: the user data of a frame, a whole frame, and one that fits neither.
MCLengths == {2048, 2340, 2352}

\* The sectors worth reading: both ends of every run, and the one past the last;
\* all those of a CHD with pregaps.
MCSectors(d) ==
  IF d.kind = "chd" /\ ~NoPregaps(d) THEN 0..ChdFirsts(d)[Len(d.tracks) + 1]
  ELSE UNION {LET g == d.segs[i] IN {g.first, g.first + g.count - 1, g.first + g.count} : i \in DOMAIN d.segs}
         \cap Nat
=============================================================================
