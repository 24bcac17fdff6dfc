----------------------------- MODULE SaveState -----------------------------
(***************************************************************************)
(* Save states: retro_serialize and retro_unserialize of libretro.c over   *)
(* the loaders of opera_3do.c.  A file is a sequence of chunks, one per    *)
(* part of the machine, loaded and committed one after the other; the load *)
(* stops at the first chunk that does not decode.  Current formats are     *)
(* dry-run first; everything else is loaded over a backup.                 *)
(*                                                                         *)
(* A part's contents are one value.  What no current file holds (the ROMs, *)
(* the peripheral bus, the legacy-bus flag, the ODE session) is modelled   *)
(* next to the parts, because the loaders write it too.                    *)
(***************************************************************************)
EXTENDS Integers, Sequences, Functions

CONSTANTS Values,      \* contents of a part
          Configs,     \* memory configurations: DRAM and VRAM, in MB
          SessionCfg,  \* the one the session was started with
          FileConfigs  \* those that files may name

ASSUME ValuesAssumption  == Values \subseteq Nat /\ 0 \in Values
ASSUME ConfigsAssumption == Configs \subseteq [dram : Nat, vram : Nat] /\ SessionCfg \in Configs

VARIABLES m,     \* the running machine
          slot,  \* the frontend's last good save, or NoFile
          call   \* history: the last save or load, and the machine a failed load met

vars == <<m, slot, call>>

Parts == {"runtime", "prng", "arm", "clio", "dsp", "madam", "ram", "nvram",
          "sport", "vdlp", "clock", "xbus", "cdrom"}

\* The chunks of a file, in the order they are loaded.  "rom" stands for ROM1
\* and ROM2: the MEM chunk of V1..V3 holds them, the MEM2 chunk of V4 does not.
Order(version) ==
  CASE version = "V1" -> <<"arm", "clio", "dsp", "madam", "ram", "rom", "nvram",
                           "sport", "vdlp", "xbus", "cdrom">>
    [] version = "V2" -> <<"runtime", "arm", "clio", "dsp", "madam", "ram", "rom",
                           "nvram", "sport", "vdlp", "clock", "xbus", "cdrom">>
    [] version = "V3" -> <<"runtime", "prng", "arm", "clio", "dsp", "madam", "ram",
                           "rom", "nvram", "sport", "vdlp", "clock", "xbus", "cdrom">>
    [] version = "V4" -> <<"runtime", "prng", "arm", "clio", "dsp", "madam", "ram",
                           "nvram", "sport", "vdlp", "clock", "xbus", "cdrom">>
    [] OTHER -> <<>>

\* bad: the first chunk that does not decode.  old_cd: the CDRM chunk has one
\* of its two old layouts.  tail: bytes follow the last chunk.
File(version, parts, cfg, rom, bad, old_cd, tail) ==
  [version |-> version, parts |-> parts, cfg |-> cfg, rom |-> rom,
   bad |-> bad, old_cd |-> old_cd, tail |-> tail]

NoFile == File("none", [p \in Parts |-> 0], SessionCfg, 0, "none", FALSE, FALSE)

\* The machine of a new session, its parts holding v.
Machine(v) ==
  [parts |-> [p \in Parts |-> v], cfg |-> SessionCfg, rom |-> 0, pbus |-> 0,
   legacy |-> FALSE, ode |-> FALSE]

\* The RAM a state stores decides its size.
opera_mem_state_ram_bytes(cfg) == cfg.dram + 4 * cfg.vram

-----------------------------------------------------------------------------
\* The memory chunk is refused when its configuration is not one the core has.
opera_mem_is_valid_cfg(cfg) == cfg \in Configs

Decodes(f, chunk) == chunk # f.bad /\ (chunk = "ram" => opera_mem_is_valid_cfg(f.cfg))

Chunks(f) == Range(Order(f.version))

\* The chunks a load of f commits: all before the first that does not decode.
Committed(f) ==
  LET o == Order(f.version)
  IN  {o[i] : i \in {k \in DOMAIN o : \A j \in 1..k : Decodes(f, o[j])}}

Complete(f) == \A c \in Chunks(f) : Decodes(f, c)

\* Every chunk decodes and nothing follows the last.
Whole(f) == Complete(f) /\ ~f.tail

\* Mutant: the memory chunk leaves the configuration alone.
load_keeps_cfg(d, f) ==
  LET done == Committed(f)
  IN  [d EXCEPT
         !.parts = [p \in Parts |-> IF p \in done THEN f.parts[p] ELSE d.parts[p]],
         !.rom = IF "rom" \in done THEN f.rom ELSE @,
         !.ode = @ /\ "cdrom" \notin done]

\* d with the chunks of f that decode.  The CDRM chunk is loaded into a drive
\* that was reset, whether or not it then decodes, and drops the ODE session.
LoadSteps(d, f) ==
  LET done == Committed(f)
  IN  [d EXCEPT
         !.parts = [p \in Parts |-> IF p \in done THEN f.parts[p]
                                    ELSE IF p = "cdrom" /\ "xbus" \in done THEN 0
                                    ELSE d.parts[p]],
         !.cfg = IF "nvram" \in done THEN f.cfg ELSE @,
         !.rom = IF "rom" \in done THEN f.rom ELSE @,
         !.ode = @ /\ "cdrom" \notin done]

opera_3do_reset_runtime_state(d) ==
  [d EXCEPT !.parts["runtime"] = 0, !.parts["clock"] = 0, !.parts["sport"] = 0,
            !.pbus = 0, !.legacy = FALSE]

\* A load's outcome: whether it took the whole file, and the machine after it.
opera_3do_state_load_v1(d, f) ==
  LET e == LoadSteps(opera_3do_reset_runtime_state(d), f)
  IN  IF ~Complete(f) THEN [ok |-> FALSE, d |-> e]
      ELSE [ok |-> Whole(f), d |-> [e EXCEPT !.legacy = TRUE]]

\* Mutant: the dry run accepts the old CDRM layouts and bytes past the end.
chunked_skips_end(d, f, validating) ==
  LET good == IF validating THEN Complete(f) ELSE Whole(f)
  IN  IF validating THEN [ok |-> good, d |-> d]
      ELSE [ok |-> good, d |-> LoadSteps(d, f)]

\* Validating, every chunk is decoded and none is committed; the old CDRM
\* layouts are refused.
opera_3do_state_load_chunked(d, f, validating) ==
  LET e    == IF validating THEN d ELSE LoadSteps(d, f)
      good == Whole(f) /\ ~(validating /\ f.old_cd)
  IN  IF ~good \/ validating THEN [ok |-> good, d |-> e]
      ELSE [ok |-> TRUE, d |-> [e EXCEPT !.pbus = 0, !.legacy = FALSE]]

opera_3do_state_validate(d, f) ==
  f.version \in {"V3", "V4"} /\ opera_3do_state_load_chunked(d, f, TRUE).ok

opera_3do_state_load(d, f) ==
  CASE f.version = "V1" -> opera_3do_state_load_v1(d, f)
    [] f.version \in {"V2", "V3", "V4"} -> opera_3do_state_load_chunked(d, f, FALSE)
    [] OTHER -> [ok |-> FALSE, d |-> d]

\* What opera_3do_state_save writes; there is none while ODE is in use.
opera_3do_state_save(d) == File("V4", d.parts, d.cfg, 0, "none", FALSE, FALSE)

-----------------------------------------------------------------------------
\* The frontend's buffer has the size it was told at the start.
retro_serialize ==
  LET ok == ~m.ode /\ opera_mem_state_ram_bytes(m.cfg)
                        = opera_mem_state_ram_bytes(SessionCfg)
  IN  /\ slot' = IF ok THEN opera_3do_state_save(m) ELSE slot
      /\ call' = [op |-> IF ok THEN "saved" ELSE "unsaved", before |-> Machine(0)]
      /\ UNCHANGED m

\* Mutant: the load that failed is not undone.
unserialize_without_restore(d, f) ==
  IF ~opera_3do_state_validate(d, f) /\ d.ode THEN [ok |-> FALSE, d |-> d]
  ELSE opera_3do_state_load(d, f)

\* A file that validates is loaded; any other is loaded over a backup, which
\* is loaded in turn when that fails.  Without a backup it is not loaded.
Unserialize(d, f) ==
  LET first  == opera_3do_state_load(d, f)
      backup == opera_3do_state_save(d)
      direct == opera_3do_state_validate(d, f)
  IN  IF ~direct /\ d.ode THEN [ok |-> FALSE, d |-> d]
      ELSE IF direct \/ first.ok THEN first
      ELSE [ok |-> FALSE, d |-> opera_3do_state_load(first.d, backup).d]

retro_unserialize(f) ==
  LET r == Unserialize(m, f)
  IN  /\ m' = r.d
      /\ call' = IF r.ok THEN [op |-> "loaded", before |-> Machine(0)]
                 ELSE [op |-> "failed", before |-> m]
      /\ UNCHANGED slot

Idle == [op |-> "none", before |-> Machine(0)]

\* The machine runs: its parts and the peripheral bus change.
RunFrame(v) ==
  /\ m' = [m EXCEPT !.parts = [p \in Parts |-> v], !.pbus = v]
  /\ call' = Idle
  /\ UNCHANGED slot

\* The guest issues an ODE command.
UseOde ==
  /\ m' = [m EXCEPT !.ode = TRUE]
  /\ call' = Idle
  /\ UNCHANGED slot

\* Files from elsewhere: any version, other ROMs or memory, cut, damaged or
\* with an old drive chunk.  Only V1 splits the memory chunk, and only it and
\* V2, V3 hold ROMs.
ForeignFiles ==
  {f \in {File(ver, [p \in Parts |-> 1], cfg, r, bad, old, tail) :
            ver \in {"V1", "V2", "V3", "V4", "other"}, cfg \in FileConfigs, r \in {0, 1},
            bad \in {"none", "arm", "rom", "vdlp", "cdrom"},
            old \in BOOLEAN, tail \in BOOLEAN} :
     /\ f.bad = "rom" => f.version = "V1"
     /\ f.version \in {"V4", "other"} => f.rom = 0
     /\ f.version \in {"V1", "other"} => ~f.old_cd
     /\ f.bad # "none" => ~f.tail
     /\ f.cfg \notin Configs => f.bad = "none" /\ f.rom = 0 /\ ~f.tail}

Loadable == ForeignFiles \cup ({slot} \ {NoFile})

Init ==
  /\ m = Machine(0)
  /\ slot = NoFile
  /\ call = Idle

Next ==
  \/ retro_serialize
  \/ \E f \in Loadable : retro_unserialize(f)
  \/ \E v \in Values : RunFrame(v)
  \/ UseOde

Spec == Init /\ [][Next]_vars

-----------------------------------------------------------------------------
Failed == call.op = "failed"

\* A load that fails anywhere, in any format, leaves every part that a save
\* state holds as it was, and the memory configuration with it: the dry run
\* commits nothing, and the backup is taken before the first part is.
FailedLoadKeepsParts ==
  Failed => m.parts = call.before.parts /\ m.cfg = call.before.cfg

\* A load that is reported to have worked is the whole file: every chunk the
\* format has is in the machine, and no part is left from before except the
\* generators, which V1 and V2 files lack, and what a reset gives.  Accesses to
\* absent devices are tolerated only in a machine that came from a V1 file.
LoadedIsTheFile ==
  \A f \in Loadable :
    LET r == Unserialize(m, f)
        c == Chunks(f)
    IN  r.ok =>
          /\ \A p \in Parts :
               r.d.parts[p] = IF p \in c THEN f.parts[p]
                              ELSE IF p = "prng" THEN m.parts[p]
                              ELSE 0
          /\ r.d.cfg = f.cfg /\ ~r.d.ode
          /\ r.d.legacy <=> f.version = "V1"

\* "a state that validates is one the load accepts in full" (retro_unserialize):
\* for every file and every machine it could be loaded into.
ValidatedLoads ==
  \A f \in Loadable :
    opera_3do_state_validate(m, f) => opera_3do_state_load(m, f).ok

=============================================================================
