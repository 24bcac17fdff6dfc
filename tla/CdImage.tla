------------------------------ MODULE CdImage -------------------------------
(***************************************************************************)
(* Disc images: the cue parser (cuefile.c), the three ways of opening an   *)
(* image, sector addressing with the cached stream positions, and closing  *)
(* (retro_cdimage.c), under the calls libretro.c makes of them.            *)
(*                                                                         *)
(* Positions and sizes are bytes, sectors are frames, as in the program.   *)
(* What a read brings is where it came from: disc, file and byte.  The     *)
(* CHD decoder is external: it asks for the bytes it is told to produce.   *)
(***************************************************************************)
EXTENDS Integers, Sequences, FiniteSetsExt

CONSTANTS Discs,           \* disc images on the host, see Disc below
          Lengths,         \* read sizes the drive is set to
          Sectors(_),      \* sectors the drive reads of a disc
          CUE_MAX_TRACKS, CUE_MAX_FILES

Formats == {"MODE1_2048", "MODE1_2352", "MODE2_2352", "AUDIO", "UNKNOWN"}

\* A disc on the host.  kind: its extension; files: the files it names, with
\* what opening finds.  segs is the disc as it was mastered: runs of frames, the
\* byte each begins at, the bytes from one frame to the next, the size of a frame
\* and where its user data begins; track is the track it belongs to, counted as
\* they come, or 0.  "lost" runs lie before INDEX 01 of a later file or in a file
\* without tracks, "gap" runs are silence a CHD adds.  starts: where each track
\* number begins.
Seg  == [first : Nat, count : Nat, file : Nat, pos : Nat, step : Nat, size : Nat, offset : Nat,
         use : {"track", "lost", "gap"}, track : Nat]

Line(d, l) ==
  CASE l.op = "FILE"  -> l.file \in DOMAIN d.files /\ l.quoted \in BOOLEAN
    [] l.op = "TRACK" -> l.num \in Nat /\ l.format \in Formats
    [] l.op = "INDEX" -> l.lba \in Nat
    [] OTHER -> TRUE

ChdTracks == [num : Nat, format : STRING, data_size : Nat, logical_offset : Nat, frames : Nat,
              pregap : Nat, pregap_stored : BOOLEAN, postgap : Nat]

ASSUME DiscsAssumption ==
  \A d \in Discs :
    /\ d.kind \in {"iso", "cue", "chd"}
    /\ d.files \in Seq([size : Nat, ok : BOOLEAN]) /\ d.segs \in Seq(Seg)
    /\ d.kind # "cue" => d.files # <<>>
    /\ d.kind = "iso" => d.bin \in BOOLEAN /\ d.scan \in BOOLEAN
    /\ d.kind = "cue" => Len(d.lines) \in Nat /\ \A i \in 1..Len(d.lines) : Line(d, d.lines[i])
    /\ d.kind = "chd" => d.tracks \in Seq(ChdTracks) /\ d.unit_bytes \in Nat
ASSUME NamesAssumption == \A d, e \in Discs : d.name = e.name => d = e
ASSUME LimitsAssumption == CUE_MAX_TRACKS \in Nat /\ CUE_MAX_FILES \in Nat
ASSUME ReadsAssumption == Lengths \subseteq Nat /\ \A d \in Discs : Sectors(d) \subseteq Nat

\* No stream; a read that brought nothing, and one that brought silence.
None  == <<>>
NoSrc == [disc |-> "none", file |-> 0, at |-> 0]
Zeros == [disc |-> "zeros", file |-> 0, at |-> 0]

VARIABLES CDIMAGE,  \* the image in use
          fds,      \* what is open: handle -> disc, file and real position
          buf       \* the last sector read

vars == <<CDIMAGE, fds, buf>>

\* cdimage_t, with the CHD state in it: its stream, its decoder and its map.  A
\* handle is <<generation, file>>; file 0 is the decoder, which has no position.
Closed ==
  [fp |-> None, fp_pos |-> -1, chd |-> None, chd_pos |-> -1, decoder |-> None, map |-> <<>>,
   sector_size |-> 0, sector_offset |-> 0, logical_blocks |-> 0, files |-> <<>>,
   tracks |-> <<>>]

NoRead == [disc |-> "none", sector |-> 0, len |-> 0, rv |-> -1, src |-> NoSrc, quiet |-> TRUE]

MinOf(a, b) == IF a <= b THEN a ELSE b

-----------------------------------------------------------------------------
(* Cue sheets.  A line is a FILE, a TRACK, an INDEX 01 or anything else.   *)

\* pending is tracks[num_tracks], there while current_track names it.
CueLine(cue, l) ==
  CASE l.op = "FILE" /\ l.quoted /\ Len(cue.files) < CUE_MAX_FILES ->
         [cue EXCEPT !.files = Append(@, l.file)]
    [] l.op = "TRACK" /\ l.num \in 1..CUE_MAX_TRACKS /\ Len(cue.tracks) < CUE_MAX_TRACKS ->
         [cue EXCEPT !.pending = <<[num |-> l.num, format |-> l.format,
                                    file |-> IF cue.files = <<>> THEN 1 ELSE Len(cue.files)]>>]
    [] l.op = "INDEX" /\ cue.pending # <<>> ->
         [cue EXCEPT !.tracks = Append(@, [num |-> cue.pending[1].num, file |-> cue.pending[1].file,
                                           format |-> cue.pending[1].format, lba |-> l.lba]),
                     !.pending = <<>>]
    [] OTHER -> cue

cue_get(d) ==
  LET after[i \in 0..Len(d.lines)] ==
        IF i = 0 THEN [files |-> <<>>, tracks |-> <<>>, pending |-> <<>>]
        ELSE CueLine(after[i - 1], d.lines[i])
  IN  after[Len(d.lines)]

cdimage_mode_for_cue_format(f)   == IF f = "MODE1_2048" THEN 2048 ELSE 2352
cdimage_offset_for_cue_format(f) == CASE f = "MODE1_2352" -> 16 [] f = "MODE2_2352" -> 24 [] OTHER -> 0

-----------------------------------------------------------------------------
(* Closing.                                                                *)

Without(f, S) == [h \in DOMAIN f \ S |-> f[h]]

\* Mutant: the decoder is forgotten.
state_free_keeps_decoder(state) == {state.source} \ {None}

\* The handles of a CHD state that are closed, or freed.
cdimage_chd_state_free(state) == {state.source, state.decoder} \ {None}

\* The handles that retro_cdimage_close closes: a CHD's, and those of a cue sheet's
\* files, or fp.
retro_cdimage_close(img) ==
  cdimage_chd_state_free([source |-> img.chd, decoder |-> img.decoder]) \cup
    ((IF img.files # <<>> THEN {img.files[i].fp : i \in DOMAIN img.files} ELSE {img.fp}) \ {None})

-----------------------------------------------------------------------------
(* Opening.  g is the generation of the handles; the result is the image   *)
(* and what is open when the opening returns.                              *)

Stream(d, i, at) == [disc |-> d.name, file |-> i, at |-> at, size |-> d.files[i].size]

\* Mutant: sector sizes of a file are all the track's own.
offsets_by_own_mode(ts) ==
  [i \in DOMAIN ts |-> ts[i].lba * cdimage_mode_for_cue_format(ts[i].format)]

\* A track's offset in its file follows from the one before it in that file,
\* whose sectors may have another size.
CueOffsets(ts) ==
  LET Before(i) == {j \in 1..(i - 1) : ts[j].file = ts[i].file}
      Mode(i) == cdimage_mode_for_cue_format(ts[i].format)
      off[i \in DOMAIN ts] ==
        LET p == Max(Before(i))
        IN  IF Before(i) # {} /\ ts[i].lba >= ts[p].lba
            THEN off[p] + (ts[i].lba - ts[p].lba) * Mode(p)
            ELSE ts[i].lba * Mode(i)
  IN  off

\* Mutant: all frames of a file have the size of its last track's.
frames_of_one_size(ts, off, f, size, sector_size) ==
  LET own == {i \in DOMAIN ts : ts[i].file = f}
  IN  size \div IF own = {} THEN sector_size ELSE cdimage_mode_for_cue_format(ts[Max(own)].format)

\* Frames of file f: up to its last track, and what follows that.
CueFrames(ts, off, f, size, sector_size) ==
  LET own == {i \in DOMAIN ts : ts[i].file = f}
      t == Max(own)
  IN  IF own = {} THEN size \div sector_size
      ELSE IF size > off[t]
      THEN ts[t].lba + (size - off[t]) \div cdimage_mode_for_cue_format(ts[t].format)
      ELSE 0

\* The sector each file of a sheet begins at, and after them the disc's length.
CueBases(d) ==
  LET ts == cue_get(d).tracks
      fs == cue_get(d).files
      Frames(f) == CueFrames(ts, CueOffsets(ts), f, d.files[fs[f]].size,
                             cdimage_mode_for_cue_format(ts[1].format))
      base[f \in 1..(Len(fs) + 1)] == IF f = 1 THEN 0 ELSE base[f - 1] + Frames(f - 1)
  IN  base

CueStart(d, i) == CueBases(d)[cue_get(d).tracks[i].file] + cue_get(d).tracks[i].lba

\* The table of a sheet's tracks.
CueTracks(d) ==
  LET ts == cue_get(d).tracks
      next == [i \in DOMAIN ts |-> IF i = Len(ts) THEN CueBases(d)[Len(cue_get(d).files) + 1]
                                  ELSE CueStart(d, i + 1)]
  IN  [i \in DOMAIN ts |->
        [num |-> ts[i].num, file |-> ts[i].file, audio |-> ts[i].format = "AUDIO",
         start_lba |-> CueStart(d, i),
         frames |-> IF next[i] > CueStart(d, i) THEN next[i] - CueStart(d, i) ELSE 0,
         file_offset |-> CueOffsets(ts)[i], mode |-> cdimage_mode_for_cue_format(ts[i].format),
         offset |-> cdimage_offset_for_cue_format(ts[i].format)]]

\* Opening file i of disc d under handle h: an empty file is closed again.
cdimage_open_cue_file(d, h, i) ==
  LET file == d.files[i]
      open == IF file.ok THEN [x \in {h} |-> Stream(d, i, 0)] ELSE <<>>
  IN  IF file.ok /\ file.size > 0 THEN [rv |-> file.size, fds |-> open]
      ELSE [rv |-> -1, fds |-> Without(open, {h})]

\* The files of a sheet are opened in turn, up to the first that fails.
CueFiles(d, g) ==
  LET fs == cue_get(d).files
      file == [f \in DOMAIN fs |-> cdimage_open_cue_file(d, <<g, f>>, fs[f])]
      tried  == {f \in DOMAIN fs : \A e \in 1..(f - 1) : file[e].rv # -1}
      opened == {f \in tried : file[f].rv # -1}
  IN  [img |-> [Closed EXCEPT !.fp = IF 1 \in opened THEN <<g, 1>> ELSE None,
                              !.files = [f \in opened |-> [fp |-> <<g, f>>, pos |-> -1]]],
       fds |-> [h \in UNION {DOMAIN file[f].fds : f \in tried} |-> file[h[2]].fds[h]]]

\* Mutant: a sheet that fails returns without closing the files it has opened.
cue_error_leaks(o) == [img |-> Closed, fds |-> o.fds]

\* A sheet that fails: a file that does not open, a track of no file or no format.
cue_error(o) == [img |-> Closed, fds |-> Without(o.fds, retro_cdimage_close(o.img))]

retro_cdimage_open_cue(d, g) ==
  LET ts == cue_get(d).tracks
      fs == cue_get(d).files
      o  == CueFiles(d, g)
      known == \A i \in DOMAIN ts : ts[i].file \in DOMAIN fs /\ ts[i].format # "UNKNOWN"
  IN  IF ts = <<>> \/ fs = <<>> THEN [img |-> Closed, fds |-> <<>>]
      ELSE IF DOMAIN o.img.files # DOMAIN fs \/ ~known THEN cue_error(o)
      ELSE [o EXCEPT !.img.sector_size = cdimage_mode_for_cue_format(ts[1].format),
                     !.img.sector_offset = cdimage_offset_for_cue_format(ts[1].format),
                     !.img.logical_blocks = CueBases(d)[Len(fs) + 1], !.img.tracks = CueTracks(d)]

\* An ISO or a BIN: one track, its sector size guessed from the file's size, and
\* from the first sectors of a BIN (scan: one of them holds data).
retro_cdimage_open_iso(d, g) ==
  LET size == d.files[1].size
      raw  == size % 2048 # 0 /\ size % 2352 = 0
      audio == raw /\ d.bin /\ ~d.scan
      mode == IF raw THEN 2352 ELSE 2048
      offset == IF raw /\ ~audio THEN 16 ELSE 0
  IN  IF ~d.files[1].ok THEN [img |-> Closed, fds |-> <<>>]
      ELSE [img |-> [Closed EXCEPT
              !.fp = <<g, 1>>, !.sector_size = mode, !.sector_offset = offset,
              !.logical_blocks = size \div mode,
              !.tracks = <<[num |-> 1, file |-> 1, audio |-> audio, start_lba |-> 0,
                            frames |-> size \div mode, file_offset |-> 0, mode |-> mode,
                            offset |-> offset]>>],
            fds |-> [h \in {<<g, 1>>} |-> Stream(d, 1, 0)]]

\* Source frames a CHD track skips, and the frames it presents.  rchd.h has it the
\* other way: a pregap occupies frames of the file when pregap_stored is not zero.
ChdSkipped(t) == IF t.pregap_stored THEN 0 ELSE t.pregap
ChdFrames(t)  == IF t.frames > ChdSkipped(t) THEN t.frames - ChdSkipped(t) ELSE 0

\* Where in the file the frames of a CHD track begin.
ChdSource(d, t) == t.logical_offset + ChdSkipped(t) * d.unit_bytes

\* The sector each track of a CHD begins at, and after them the disc's length.
ChdFirsts(d) ==
  LET Span(t) == t.pregap + ChdFrames(t) + t.postgap
      first[i \in 1..(Len(d.tracks) + 1)] == IF i = 1 THEN 0 ELSE first[i - 1] + Span(d.tracks[i - 1])
  IN  first

\* The spans of a CHD's tracks, and the table of them.
ChdMap(d) ==
  [i \in DOMAIN d.tracks |->
    [source_offset |-> ChdSource(d, d.tracks[i]), span_start_lba |-> ChdFirsts(d)[i],
     span_end_lba |-> ChdFirsts(d)[i + 1]]]

ChdTable(d) ==
  LET raw(t) == t.format \in {"MODE1_2352", "MODE2_2352"}
  IN  [i \in DOMAIN d.tracks |->
        [num |-> d.tracks[i].num, file |-> 1, audio |-> d.tracks[i].format = "AUDIO",
         start_lba |-> ChdFirsts(d)[i] + d.tracks[i].pregap,
         frames |-> ChdFrames(d.tracks[i]), file_offset |-> 0,
         mode |-> IF raw(d.tracks[i]) THEN 2352 ELSE d.tracks[i].data_size,
         offset |-> cdimage_offset_for_cue_format(d.tracks[i].format)]]

\* The errors of a CHD: its state is freed, with what it has acquired so far.
chd_error(o, state) == [img |-> Closed, fds |-> Without(o, cdimage_chd_state_free(state))]

\* probe: the first sector could be read.
retro_cdimage_open_chd(d, g, probe) ==
  LET n == Len(d.tracks)
      file == d.files[1]
      state == [source  |-> IF file.ok THEN <<g, 1>> ELSE None,
                decoder |-> IF file.ok /\ file.size > 0 THEN <<g, 0>> ELSE None]
      open == [h \in {state.source, state.decoder} \ {None} |-> Stream(d, 1, 0)]
      fits == \A i \in 1..n :
                ChdSource(d, d.tracks[i]) + ChdFrames(d.tracks[i]) * d.unit_bytes <= file.size
      sized == \A i \in 1..n : d.tracks[i].data_size # 0
  IN  IF state.decoder = None \/ n = 0 \/ n > CUE_MAX_TRACKS \/ ~sized \/ ~fits \/ ~probe
      THEN chd_error(open, state)
      ELSE [img |-> [Closed EXCEPT
              !.chd = <<g, 1>>, !.decoder = <<g, 0>>, !.chd_pos = 0,
              !.logical_blocks = ChdFirsts(d)[n + 1], !.map = ChdMap(d), !.tracks = ChdTable(d)],
            fds |-> open]

retro_cdimage_open(d, g, probe) ==
  CASE d.kind = "iso" -> retro_cdimage_open_iso(d, g)
    [] d.kind = "cue" -> retro_cdimage_open_cue(d, g)
    [] d.kind = "chd" -> retro_cdimage_open_chd(d, g, probe)

-----------------------------------------------------------------------------
(* The disc as mastered, against its sheet, its tracks or its length.      *)

\* An image without a sheet is frames of one size, and its length tells which.
MasteredIso(d) ==
  LET g == d.segs[1]
      size == d.files[1].size
  IN  /\ Len(d.segs) = 1 /\ g.file = 1 /\ g.pos = 0 /\ g.step = g.size /\ g.use = "track"
      /\ g.size = (IF size % 2048 = 0 THEN 2048 ELSE 2352) /\ g.count * g.size = size
      /\ g.offset = IF g.size = 2048 \/ (d.bin /\ ~d.scan) THEN 0 ELSE 16
      /\ d.starts = <<0>>

EndOf(g) == g.pos + g.count * g.step

\* The sheet's files follow each other on the disc, in full.
FilesInOrder(d, files) ==
  /\ \A f \in DOMAIN files : files[f] = f
  /\ d.segs # <<>> /\ d.segs[1].file = 1 /\ d.segs[1].pos = 0
  /\ \A i \in DOMAIN d.segs : d.segs[i].count > 0 /\ d.segs[i].step = d.segs[i].size
  /\ \A i \in 1..(Len(d.segs) - 1) :
       LET g == d.segs[i]
           h == d.segs[i + 1]
       IN  \/ h.file = g.file /\ h.pos = EndOf(g)
           \/ h.file = g.file + 1 /\ h.pos = 0 /\ EndOf(g) = d.files[g.file].size
  /\ LET g == d.segs[Len(d.segs)] IN g.file = Len(files) /\ EndOf(g) = d.files[g.file].size

\* Each track is a run, and they come in the sheet's order.
TracksInOrder(d, ts) ==
  /\ DOMAIN d.starts = {ts[k].num : k \in DOMAIN ts}
  /\ \A k \in DOMAIN ts : \E i \in DOMAIN d.segs : d.segs[i].track = k
  /\ \A i, j \in DOMAIN d.segs : i < j /\ d.segs[j].track # 0 => d.segs[i].track < d.segs[j].track

\* A track's run has frames of its format, and its INDEX 01 counts from the start
\* of its file.
TrackRun(d, ts, i) ==
  LET g == d.segs[i]
      t == ts[g.track]
  IN  /\ g.track \in DOMAIN ts /\ g.file = t.file /\ g.use = "track"
      /\ g.size = cdimage_mode_for_cue_format(t.format)
      /\ g.offset = cdimage_offset_for_cue_format(t.format) /\ d.starts[t.num] = g.first
      /\ \A h \in DOMAIN d.segs :
           d.segs[h].file = g.file /\ d.segs[h].pos = 0 => g.first = d.segs[h].first + t.lba

\* What is no track is the head of a file; only one file's is ever read.
HeadRun(d, ts, files, i) ==
  LET g == d.segs[i]
  IN  /\ g.pos = 0
      /\ g.size = IF i < Len(d.segs) /\ d.segs[i + 1].file = g.file THEN d.segs[i + 1].size
                  ELSE cdimage_mode_for_cue_format(ts[1].format)
      /\ IF Len(files) = 1
         THEN g.use = "track" /\ g.offset = cdimage_offset_for_cue_format(ts[1].format)
         ELSE g.use = "lost"

MasteredCue(d) ==
  LET cue == cue_get(d)
  IN  /\ FilesInOrder(d, cue.files) /\ TracksInOrder(d, cue.tracks)
      /\ \A i \in DOMAIN d.segs : IF d.segs[i].track # 0 THEN TrackRun(d, cue.tracks, i)
                                  ELSE HeadRun(d, cue.tracks, cue.files, i)

\* A CHD without pregaps.  What one with a pregap holds the code reads against
\* rchd.h (see ChdSkipped): where its tracks lie is left open.
NoPregaps(d) == d.kind = "chd" => \A k \in DOMAIN d.tracks : d.tracks[k].pregap = 0

\* Each track is its frames and its postgap; only the frames are stored.
MasteredChd(d) ==
  /\ Len(d.segs) = 2 * Len(d.tracks)
  /\ DOMAIN d.starts = {d.tracks[k].num : k \in DOMAIN d.tracks}
  /\ \A k \in DOMAIN d.tracks :
       LET t == d.tracks[k]
           size == IF t.format \in {"MODE1_2352", "MODE2_2352"} THEN 2352 ELSE t.data_size
           data == d.segs[2 * k - 1]
           post == d.segs[2 * k]
       IN  /\ data.use = "track" /\ data.file = 1 /\ data.size = size /\ size <= d.unit_bytes
           /\ data.offset = cdimage_offset_for_cue_format(t.format)
           /\ data.count = t.frames /\ data.pos = t.logical_offset /\ data.step = d.unit_bytes
           /\ post.use = "gap" /\ post.count = t.postgap /\ post.size = size
           /\ d.starts[t.num] = data.first

\* The runs follow each other on the disc.
Mastered(d) ==
  /\ \A i \in DOMAIN d.segs :
       d.segs[i].first = IF i = 1 THEN 0 ELSE d.segs[i - 1].first + d.segs[i - 1].count
  /\ CASE d.kind = "iso" -> MasteredIso(d)
       [] d.kind = "cue" -> MasteredCue(d)
       [] d.kind = "chd" -> MasteredChd(d)

\* The discs that open are mastered so, a CHD with pregaps excepted.
ASSUME MasteredAssumption ==
  \A d \in Discs :
    (\E g \in {0, 1}, probe \in BOOLEAN : retro_cdimage_open(d, g, probe).img # Closed) /\ NoPregaps(d)
      => Mastered(d)

-----------------------------------------------------------------------------
(* Reading.  io says how the host answers: seek may fail, and a read may   *)
(* bring all, some or none of what it is asked for.                        *)

Io == [seek : BOOLEAN, read : {"all", "some", "none"}]

\* What a read of len bytes at the stream's real position brings.
Got(s, len, io) ==
  LET n == MinOf(len, IF s.size > s.at THEN s.size - s.at ELSE 0)
  IN  CASE io.read = "all" -> n [] io.read = "some" -> (n + 1) \div 2 [] OTHER -> 0

\* Mutant: a failed read leaves the cached position as it was sought.
read_at_keeps(img, h, pos, len, io) ==
  LET i == {j \in DOMAIN img.files : img.files[j].fp = h}
      cached == IF i = {} THEN img.fp_pos ELSE img.files[Max(i)].pos
      Set(p) == IF i = {} THEN [img EXCEPT !.fp_pos = p] ELSE [img EXCEPT !.files[Max(i)].pos = p]
      s == IF cached = pos THEN fds[h] ELSE [fds[h] EXCEPT !.at = pos]
      n == Got(s, len, io)
  IN  [img |-> Set(pos + n), rv |-> n, src |-> [disc |-> s.disc, file |-> s.file, at |-> s.at],
       fds |-> [fds EXCEPT ![h] = [s EXCEPT !.at = IF n > 0 THEN @ + n ELSE 0]]]

\* A stream that fails to seek or to read may stand anywhere: at its start, here.
cdimage_read_at(img, h, pos, len, io) ==
  LET i == {j \in DOMAIN img.files : img.files[j].fp = h}
      cached == IF i = {} THEN img.fp_pos ELSE img.files[Max(i)].pos
      Set(p) == IF i = {} THEN [img EXCEPT !.fp_pos = p] ELSE [img EXCEPT !.files[Max(i)].pos = p]
      s == IF cached = pos THEN fds[h] ELSE [fds[h] EXCEPT !.at = pos]
      n == Got(s, len, io)
  IN  IF cached # pos /\ ~io.seek
      THEN [img |-> Set(-1), rv |-> -1, src |-> NoSrc, fds |-> [fds EXCEPT ![h].at = 0]]
      ELSE [img |-> Set(IF n > 0 THEN pos + n ELSE -1), rv |-> n,
            src |-> [disc |-> s.disc, file |-> s.file, at |-> s.at],
            fds |-> [fds EXCEPT ![h] = [s EXCEPT !.at = IF n > 0 THEN @ + n ELSE 0]]]

\* Reads in pieces until all is there or the host fails, for the decoder.
cdimage_chd_read_exact(img, pos, len, io) ==
  LET h == img.chd
      s == IF img.chd_pos = pos THEN fds[h] ELSE [fds[h] EXCEPT !.at = pos]
  IN  IF (img.chd_pos # pos /\ ~io.seek) \/ io.read = "none" \/ s.at + len > s.size
      THEN [img |-> [img EXCEPT !.chd_pos = -1], rv |-> -1, src |-> NoSrc,
            fds |-> [fds EXCEPT ![h].at = 0]]
      ELSE [img |-> [img EXCEPT !.chd_pos = pos + len], rv |-> len,
            src |-> [disc |-> s.disc, file |-> s.file, at |-> s.at],
            fds |-> [fds EXCEPT ![h] = [s EXCEPT !.at = @ + len]]]

Refused(img) == [img |-> img, rv |-> -1, src |-> NoSrc, fds |-> fds]

cdimage_chd_read_sector(img, sector, len, io) ==
  LET spans == {i \in DOMAIN img.map : sector \in img.map[i].span_start_lba..(img.map[i].span_end_lba - 1)}
      i == Min(spans)
      t == img.tracks[i]
      n == MinOf(len, t.mode)
      unit == (CHOOSE d \in Discs : d.name = fds[img.chd].disc).unit_bytes
  IN  IF sector >= img.logical_blocks \/ spans = {} THEN Refused(img)
      ELSE IF sector < t.start_lba \/ sector - t.start_lba >= t.frames
      THEN [img |-> img, rv |-> n, src |-> Zeros, fds |-> fds]
      ELSE cdimage_chd_read_exact(img,
             img.map[i].source_offset + (sector - t.start_lba) * unit
               + (IF len < t.mode THEN t.offset ELSE 0), n, io)

\* -1, or the track whose INDEX 01 comes last at or before the sector; of a CHD,
\* the track whose frames it is among.
retro_cdimage_get_track_for_sector(img, sector) ==
  LET Holds(i) == /\ sector >= img.tracks[i].start_lba
                  /\ IF img.chd # None THEN sector - img.tracks[i].start_lba < img.tracks[i].frames
                     ELSE i < Len(img.tracks) => sector < img.tracks[i + 1].start_lba
      found == {i \in DOMAIN img.tracks : Holds(i)}
  IN  IF found = {} THEN -1 ELSE Min(found)

\* Without a track: the image as a whole, in sectors of its first track's size.
retro_cdimage_read(img, sector, len, io) ==
  cdimage_read_at(img, img.fp,
    sector * img.sector_size + (IF len >= img.sector_size THEN 0 ELSE img.sector_offset),
    MinOf(len, img.sector_size), io)

retro_cdimage_read_sector(img, sector, len, io) ==
  LET track == retro_cdimage_get_track_for_sector(img, sector)
      t == img.tracks[track]
  IN  CASE img.chd # None -> cdimage_chd_read_sector(img, sector, len, io)
        [] img.chd = None /\ img.fp = None -> Refused(img)
        [] img.chd = None /\ img.fp # None /\ track = -1 ->
             IF Len(img.files) > 1 THEN Refused(img) ELSE retro_cdimage_read(img, sector, len, io)
        [] OTHER -> cdimage_read_at(img,
                      IF img.files = <<>> THEN img.fp ELSE img.files[t.file].fp,
                      t.file_offset + (sector - t.start_lba) * t.mode
                        + (IF len >= t.mode THEN 0 ELSE t.offset),
                      MinOf(len, t.mode), io)

\* One TOC entry per track number: its type and its start as minutes, seconds, frames.
retro_cdimage_get_toc(img) ==
  LET at == [n \in {img.tracks[i].num : i \in DOMAIN img.tracks} |->
               Max({i \in DOMAIN img.tracks : img.tracks[i].num = n})]
      Msf(lba) == [m |-> (lba + 150) \div 4500, s |-> ((lba + 150) % 4500) \div 75,
                   f |-> ((lba + 150) % 4500) % 75]
  IN  [n \in DOMAIN at |-> [audio |-> img.tracks[at[n]].audio, msf |-> Msf(img.tracks[at[n]].start_lba)]]

-----------------------------------------------------------------------------
(* libretro.c                                                              *)

\* A generation no open stream has.
Fresh == IF \E h \in DOMAIN fds : h[1] = 0 THEN 1 ELSE 0

\* What is open, and what an opening has left open.
Join(f, g) == [h \in DOMAIN f \cup DOMAIN g |-> IF h \in DOMAIN g THEN g[h] ELSE f[h]]

\* An image that does not open is not closed; a core that cannot be initialised (ok)
\* closes the one that did.
retro_load_game(d) ==
  /\ CDIMAGE = Closed
  /\ \E probe, ok \in BOOLEAN :
       LET r == retro_cdimage_open(d, Fresh, probe)
           now == Join(fds, r.fds)
       IN  IF ok \/ r.img = Closed THEN CDIMAGE' = r.img /\ fds' = now
           ELSE CDIMAGE' = Closed /\ fds' = Without(now, retro_cdimage_close(r.img))
  /\ buf' = NoRead

retro_unload_game ==
  /\ CDIMAGE # Closed
  /\ CDIMAGE' = Closed /\ fds' = Without(fds, retro_cdimage_close(CDIMAGE))
  /\ buf' = NoRead

\* Mutant: the running image is closed before the new one is known to open.
launch_closes_first(d) ==
  /\ CDIMAGE # Closed
  /\ \E probe \in BOOLEAN :
       LET r == retro_cdimage_open(d, Fresh, probe)
       IN  /\ CDIMAGE' = IF r.img = Closed THEN CDIMAGE ELSE r.img
           /\ fds' = Join(Without(fds, retro_cdimage_close(CDIMAGE)), r.fds)
  /\ buf' = NoRead

\* The new image is opened beside the running one, which a failure keeps.
cdimage_ode_launch(d) ==
  /\ CDIMAGE # Closed
  /\ \E probe \in BOOLEAN :
       LET r == retro_cdimage_open(d, Fresh, probe)
       IN  IF r.img = Closed THEN CDIMAGE' = CDIMAGE /\ fds' = Join(fds, r.fds)
           ELSE /\ CDIMAGE' = r.img
                /\ fds' = Join(Without(fds, retro_cdimage_close(CDIMAGE)), r.fds)
  /\ buf' = NoRead

\* The disc in use, for the properties.
Running == CHOOSE d \in Discs : \E h \in DOMAIN fds : fds[h].disc = d.name

\* The drive's read.  rv and src are for the properties: the program discards the
\* result, and the guest sees the zeros the drive has filled its buffer with where
\* nothing came.  quiet: the host did all it was asked.
cdimage_read_sector ==
  /\ CDIMAGE # Closed
  /\ \E sector \in Sectors(Running), len \in Lengths, io \in Io :
       LET r == retro_cdimage_read_sector(CDIMAGE, sector, len, io)
       IN  /\ CDIMAGE' = r.img /\ fds' = r.fds
           /\ buf' = [disc |-> Running.name, sector |-> sector, len |-> len, rv |-> r.rv,
                      src |-> r.src, quiet |-> io.seek /\ io.read = "all"]

Init == CDIMAGE = Closed /\ fds = <<>> /\ buf = NoRead

Next == \/ \E d \in Discs : retro_load_game(d) \/ cdimage_ode_launch(d)
        \/ retro_unload_game \/ cdimage_read_sector

Spec == Init /\ [][Next]_vars

-----------------------------------------------------------------------------
\* The frame of sector s as it was mastered: its run, and the byte it begins at.
SegOf(d, s) == CHOOSE i \in DOMAIN d.segs : s \in d.segs[i].first..(d.segs[i].first + d.segs[i].count - 1)
FrameOf(d, s) == LET g == d.segs[SegOf(d, s)] IN [g EXCEPT !.pos = @ + (s - g.first) * g.step]
OnDisc(d, s)  == \E i \in DOMAIN d.segs : s \in d.segs[i].first..(d.segs[i].first + d.segs[i].count - 1)

\* A read of len bytes asks for the whole frame, or for what fits behind its header.
Fits(f, len) == len >= f.size \/ len + f.offset <= f.size

\* What is open is what the image in use names, each stream and decoder: a sheet
\* whose second file is missing or empty or whose format is unknown closes what it
\* opened before (retro_cdimage_close in retro_cdimage_open_cue), a CHD that is
\* empty, too short or whose first sector cannot be read frees its state (label
\* error), a core that does not start closes its image, and cdimage_ode_launch
\* closes the old image when, and only when, the new one has opened.
StreamsOwned ==
  DOMAIN fds = ({CDIMAGE.fp, CDIMAGE.chd, CDIMAGE.decoder}
                 \cup {CDIMAGE.files[i].fp : i \in DOMAIN CDIMAGE.files}) \ {None}

\* The track table and the block count (retro_cdimage_open_*) are the mastered
\* disc: its length, and for each track number its start on the disc through
\* the TOC's minutes, seconds and frames.  CHDs with pregaps are excepted.
LayoutTrue ==
  CDIMAGE # Closed /\ NoPregaps(Running) =>
    LET toc == retro_cdimage_get_toc(CDIMAGE)
        last == Running.segs[Len(Running.segs)]
    IN  /\ CDIMAGE.logical_blocks = last.first + last.count
        /\ DOMAIN toc = DOMAIN Running.starts
        /\ \A n \in DOMAIN toc :
             (toc[n].msf.m * 60 + toc[n].msf.s) * 75 + toc[n].msf.f - 150 = Running.starts[n]

\* The disc last read.
ReadDisc == CHOOSE d \in Discs : d.name = buf.disc

\* What a read delivers begins at the sector's own frame, or at its user data when
\* less than a frame is asked for, and by a length that fits the frame it does not
\* reach beyond it; or it is the silence of a CHD's postgap.  So it is whatever
\* seeks and reads failed or fell short before (the cached positions of
\* cdimage_read_at and cdimage_chd_read_exact).  CHDs with pregaps are excepted.
ReadsItsFrame ==
  buf.rv > 0 /\ NoPregaps(ReadDisc) =>
    LET f == FrameOf(ReadDisc, buf.sector)
        start == IF buf.len < f.size THEN f.offset ELSE 0
    IN  /\ OnDisc(ReadDisc, buf.sector)
        /\ buf.rv <= MinOf(buf.len, f.size)
        /\ IF f.use = "gap" THEN buf.src = Zeros
           ELSE /\ buf.src = [disc |-> buf.disc, file |-> f.file, at |-> f.pos + start]
                /\ Fits(f, buf.len) => start + buf.rv <= f.size

\* When the host does all it is asked, every sector of the disc is read in full
\* by a size that fits its frame, but the gap before INDEX 01 of a later file and
\* what lies past the disc's end, which read as nothing.  CHDs with pregaps are
\* excepted.
ReadsInFull ==
  buf.quiet /\ buf.disc # "none" /\ NoPregaps(ReadDisc) =>
    LET f == FrameOf(ReadDisc, buf.sector)
    IN  IF OnDisc(ReadDisc, buf.sector) /\ f.use # "lost"
        THEN Fits(f, buf.len) => buf.rv = MinOf(buf.len, f.size)
        ELSE buf.rv <= 0
=============================================================================
