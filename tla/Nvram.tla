------------------------------- MODULE Nvram -------------------------------
(***************************************************************************)
(* NVRAM files: opera_lr_nvram.c and its callers in libretro.c.  The image *)
(* is read when a game starts and after every reset of the core, and       *)
(* written when the game ends, before a reset and before an ODE launch     *)
(* switches to another game.  A write goes to a temporary file that is     *)
(* then renamed; the process may die between any two steps.                *)
(*                                                                         *)
(* An image is two halves, the first with the label, so that a file can be *)
(* cut and a buffer mixed.  A store is where the options send an image: the*)
(* shared file or the game's own; another nvram_version is another store.  *)
(* A half remembers the store its session was loaded from.                 *)
(***************************************************************************)
EXTENDS Integers, Sequences

CONSTANTS Games,          \* game paths
          Gens,           \* images a session's guest may write
          OldFiles,       \* lengths of the files the fallback directories hold; 3 = none
          Environments    \* the installations: see env

ASSUME GamesAssumption == "shared" \notin Games /\ "none" \notin Games
ASSUME GensAssumption == Gens \subseteq Nat /\ 0 \notin Gens
ASSUME OldFilesAssumption == OldFiles \subseteq 0..3
ASSUME EnvironmentsAssumption ==
  Environments \subseteq [games : SUBSET Games, options : SUBSET BOOLEAN,
                          rename_fails : BOOLEAN]

VARIABLES store,      \* the file of each store, under opera/
          tmp,        \* its ".tmp" sibling
          old,        \* its fallbacks in the save and the system directory
          env,        \* fixed: the games played, the values the user ever gives
                      \* nvram_storage (TRUE: shared), whether a rename may fail
          ses,        \* the session
          committed   \* history: what was last renamed into each store

nvramVars == <<store, tmp, old, env, ses, committed>>

Stores == Games \cup {"shared"}
Half(home, n) == [home |-> home, n |-> n]
Zero == Half("none", 0)
Formatted == Half("none", 1)
Blank == <<Zero, Zero>>

ImageFile(data) == [there |-> TRUE, data |-> data]
Absent == [there |-> FALSE, data |-> <<>>]

StoreOf(shared, game) == IF shared THEN "shared" ELSE game

-----------------------------------------------------------------------------
\* What was read stays in the buffer even when it was too little.
nvram_load(buf, f) ==
  [ok  |-> f.there /\ Len(f.data) = 2,
   buf |-> [i \in 1..2 |-> IF i <= Len(f.data) THEN f.data[i] ELSE buf[i]]]

\* The store, then the fallbacks, until one loads.
opera_lr_nvram_load_store(k, buf) ==
  LET a == nvram_load(buf, store[k])
      b == nvram_load(a.buf, old[k][1])
      c == nvram_load(b.buf, old[k][2])
  IN  IF a.ok THEN a.buf ELSE IF b.ok THEN b.buf ELSE c.buf

opera_nvram_initialized(buf) == buf[1] # Zero
opera_nvram_init == <<Formatted, Formatted>>

opera_lr_nvram_load(k, buf) ==
  LET b == opera_lr_nvram_load_store(k, buf)
  IN  IF opera_nvram_initialized(b) THEN b ELSE opera_nvram_init

\* The session that _init_core and opera_lr_nvram_load give: a zeroed buffer,
\* then the image of the store the options name.
Started(shared, game) ==
  [pc |-> "run", game |-> game, shared |-> shared,
   buf |-> opera_lr_nvram_load(StoreOf(shared, game), Blank),
   home |-> StoreOf(shared, game), next |-> game, then |-> "none", ok |-> FALSE]

Off == [pc |-> "off", game |-> "none", shared |-> FALSE, buf |-> <<>>,
        home |-> "none", next |-> "none", then |-> "none", ok |-> FALSE]

\* Where opera_lr_nvram_save writes.
Target == StoreOf(ses.shared, ses.game)

-----------------------------------------------------------------------------
retro_load_game(game, shared) ==
  /\ ses.pc = "off"
  /\ ses' = Started(shared, game)
  /\ UNCHANGED <<store, tmp, old, env, committed>>

\* The guest saves: both halves change.
GuestSaves(n) ==
  /\ ses.pc = "run"
  /\ ses' = [ses EXCEPT !.buf = <<Half(ses.home, n), Half(ses.home, n)>>]
  /\ UNCHANGED <<store, tmp, old, env, committed>>

\* process_opts_if_updated with another nvram_storage.
opera_lr_opts_set_nvram_shared(shared) ==
  /\ ses.pc = "run"
  /\ ses' = [ses EXCEPT !.shared = shared]
  /\ UNCHANGED <<store, tmp, old, env, committed>>

BeginSave(then, next) ==
  /\ ses' = [ses EXCEPT !.pc = "write", !.then = then, !.next = next, !.ok = FALSE]
  /\ UNCHANGED <<store, tmp, old, env, committed>>

retro_reset == ses.pc = "run" /\ BeginSave("reset", ses.game)

retro_unload_game == ses.pc \in {"run", "dead"} /\ BeginSave("unload", ses.game)

\* Mutant: the path is switched before the image is saved.
launch_switches_first(game) ==
  /\ ses.pc = "run"
  /\ ses' = [ses EXCEPT !.pc = "write", !.then = "launch", !.game = game,
                        !.next = game, !.ok = FALSE]
  /\ UNCHANGED <<store, tmp, old, env, committed>>

\* The image opened; the old game's NVRAM is saved under its own path.
cdimage_ode_launch(game) == ses.pc = "run" /\ BeginSave("launch", game)

-----------------------------------------------------------------------------
(***************************************************************************)
(* nvram_save, step by step.                                               *)
(***************************************************************************)

\* n halves of the image in memory; a reset that failed has freed it.
Written(n) == IF ses.buf = <<>> THEN <<>> ELSE SubSeq(ses.buf, 1, n)

\* Mutant: the file is written in place.
write_in_place(n) ==
  /\ ses.pc = "write"
  /\ store' = [store EXCEPT ![Target] = ImageFile(Written(n))]
  /\ ses' = [ses EXCEPT !.pc = "saved", !.ok = (Len(Written(n)) = 2)]
  /\ committed' = IF Len(Written(n)) = 2 THEN [committed EXCEPT ![Target] = ses.buf]
                  ELSE committed
  /\ UNCHANGED <<tmp, old, env>>

\* Only a file written in full goes on to be renamed.
nvram_save_write(n) ==
  /\ ses.pc = "write"
  /\ tmp' = [tmp EXCEPT ![Target] = ImageFile(Written(n))]
  /\ ses' = [ses EXCEPT !.pc = IF Len(Written(n)) = 2 THEN "rename" ELSE "saved"]
  /\ UNCHANGED <<store, old, env, committed>>

Renamed ==
  /\ store' = [store EXCEPT ![Target] = tmp[Target]]
  /\ tmp' = [tmp EXCEPT ![Target] = Absent]
  /\ committed' = [committed EXCEPT ![Target] = tmp[Target].data]
  /\ ses' = [ses EXCEPT !.pc = "saved", !.ok = TRUE]
  /\ UNCHANGED <<old, env>>

nvram_save_rename ==
  /\ ses.pc = "rename"
  /\ \/ Renamed
     \/ /\ env.rename_fails
        /\ ses' = [ses EXCEPT !.pc = "delete"]
        /\ UNCHANGED <<store, tmp, old, env, committed>>

nvram_save_delete ==
  /\ ses.pc = "delete"
  /\ store' = [store EXCEPT ![Target] = Absent]
  /\ ses' = [ses EXCEPT !.pc = "rename2"]
  /\ UNCHANGED <<tmp, old, env, committed>>

nvram_save_rename2 ==
  /\ ses.pc = "rename2"
  /\ \/ Renamed
     \/ /\ ses' = [ses EXCEPT !.pc = "saved"]
        /\ UNCHANGED <<store, tmp, old, env, committed>>

\* The caller goes on whether or not the save worked.  _init_core reads the
\* options again and may fail, which frees the memory.
retro_reset_core(shared) ==
  /\ ses.pc = "saved" /\ ses.then \in {"reset", "launch"}
  /\ \/ ses' = Started(shared, ses.next)
     \/ ses' = [ses EXCEPT !.pc = "dead", !.buf = <<>>, !.game = ses.next,
                           !.shared = FALSE]
  /\ UNCHANGED <<store, tmp, old, env, committed>>

retro_unload_game_end ==
  /\ ses.pc = "saved" /\ ses.then = "unload"
  /\ ses' = Off
  /\ UNCHANGED <<store, tmp, old, env, committed>>

\* The process dies, in the middle of a write too.
Crash(n) ==
  /\ ses.pc # "off"
  /\ ses' = Off
  /\ tmp' = IF ses.pc = "write" THEN [tmp EXCEPT ![Target] = ImageFile(Written(n))] ELSE tmp
  /\ UNCHANGED <<store, old, env, committed>>

-----------------------------------------------------------------------------
NvramInit ==
  /\ store = [k \in Stores |-> Absent]
  /\ tmp = [k \in Stores |-> Absent]
  /\ \E a, b \in OldFiles :
       LET OldFile(k, len) ==
             IF len = 3 THEN Absent ELSE ImageFile([i \in 1..len |-> Half(k, 0)])
       IN  old = [k \in Stores |-> <<OldFile(k, a), OldFile(k, b)>>]
  /\ env \in Environments
  /\ ses = Off
  /\ committed = [k \in Stores |-> <<>>]

NvramNext ==
  \/ \E g \in env.games, s \in env.options : retro_load_game(g, s)
  \/ \E n \in Gens : GuestSaves(n)
  \/ \E s \in env.options : opera_lr_opts_set_nvram_shared(s)
  \/ retro_reset
  \/ retro_unload_game
  \/ \E g \in env.games : cdimage_ode_launch(g)
  \/ \E n \in 0..2 : nvram_save_write(n)
  \/ nvram_save_rename
  \/ nvram_save_delete
  \/ nvram_save_rename2
  \/ \E s \in env.options : retro_reset_core(s)
  \/ retro_unload_game_end
  \/ \E n \in 0..1 : Crash(n)

NvramSpec == NvramInit /\ [][NvramNext]_nvramVars

-----------------------------------------------------------------------------
HoldsItsOwn(k) ==
  \A i \in DOMAIN store[k].data : store[k].data[i].home \in {k, "none"}

\* While the options stay, a store holds only what was loaded from it: no reset,
\* launch or failed reset sends a game's image to another game's file.
SaveGoesHome == (\E o \in BOOLEAN : env.options = {o}) => \A k \in Stores : HoldsItsOwn(k)

\* A store never holds a cut image, and where rename replaces its target it
\* always holds its last complete save: through failed writes, resets that fail,
\* changed options, and the death of the process anywhere (nvram_save).
SavedSurvives ==
  \A k \in Stores :
    /\ store[k].there => Len(store[k].data) = 2
    /\ ~env.rename_fails /\ committed[k] # <<>> => store[k] = ImageFile(committed[k])
=============================================================================
