------------------------- MODULE PersistenceProofs --------------------------
(***************************************************************************)
(* Proofs about what outlives a session, Nvram and SaveState.              *)
(*                                                                         *)
(* NVRAM files: no store ever holds a cut image, the last complete save    *)
(* survives, and an image only goes to the store it was loaded from, for   *)
(* any number of games, images, fallback files and installations.          *)
(*                                                                         *)
(* Save states: a load that fails keeps the machine, a load that works is  *)
(* the whole file, and a file that validates loads, for any contents of    *)
(* the parts and any memory configurations.                                *)
(***************************************************************************)
EXTENDS Nvram, SaveState, SequenceTheorems, TLAPS

-----------------------------------------------------------------------------
(***************************************************************************)
(* NVRAM files.                                                            *)
(***************************************************************************)
Halves  == [home : Stores \cup {"none"}, n : Nat]
ImageFiles   == [there : BOOLEAN, data : Seq(Halves)]
Buffers == [1..2 -> Halves]
Saving  == {"rename", "delete", "rename2"}

\* The types, with what a session's step says of its fields: a session that is
\* on names a game, and the buffer is there unless a reset failed.
NvramTypeInv ==
  /\ env \in [games : SUBSET Games, options : SUBSET BOOLEAN, rename_fails : BOOLEAN]
  /\ store \in [Stores -> ImageFiles] /\ tmp \in [Stores -> ImageFiles]
  /\ committed \in [Stores -> Seq(Halves)]
  /\ old \in [Stores -> [1..2 -> ImageFiles]]
  /\ ses \in [pc : {"off", "run", "write", "saved", "dead"} \cup Saving,
              game : Games \cup {"none"}, shared : BOOLEAN, buf : Buffers \cup {<<>>},
              home : Stores \cup {"none"}, next : Games \cup {"none"},
              then : {"none", "reset", "launch", "unload"}, ok : BOOLEAN]
  /\ ses.pc # "off" => ses.game \in Games /\ ses.next \in Games
  /\ ses.pc = "run" => ses.buf \in Buffers

\* What is about to be renamed is a whole image, and the old file is deleted
\* only where a rename failed.
TmpInv ==
  /\ ses.pc \in Saving => tmp[Target].there /\ Len(tmp[Target].data) = 2
  /\ ses.pc \in {"delete", "rename2"} => env.rename_fails

\* Every half of s is of store k or of none.
Own(s, k) == \A i \in DOMAIN s : s[i].home \in {k, "none"}

\* While the options stay, so does the session's store, and all that was or
\* will be read from or written to a store is its own.
HomeInv ==
  (\E o \in BOOLEAN : env.options = {o}) =>
    /\ \A k \in Stores : Own(store[k].data, k) /\ Own(tmp[k].data, k)
    /\ \A k \in Stores, j \in 1..2 : Own(old[k][j].data, k)
    /\ ses.pc # "off" /\ ses.buf # <<>> =>
         /\ env.options = {ses.shared} /\ ses.home = Target
         /\ Own(ses.buf, Target)

NvramIInv == NvramTypeInv /\ SavedSurvives /\ TmpInv /\ HomeInv

-----------------------------------------------------------------------------
(* Reading.                                                                *)

\* The stores.
LEMMA StoreFacts ==
  ASSUME NEW s \in BOOLEAN, NEW g \in Games
  PROVE  StoreOf(s, g) \in Stores /\ StoreOf(s, g) # "none"
BY GamesAssumption DEF StoreOf, Stores

\* A half of a game's image, and the two that belong to none.
LEMMA HalfFacts ==
  /\ \A h \in Stores \cup {"none"}, n \in Nat : Half(h, n) \in Halves /\ Half(h, n).home = h
  /\ Zero \in Halves /\ Formatted \in Halves /\ Zero.home = "none" /\ Formatted.home = "none"
BY DEF Half, Halves, Zero, Formatted

\* A buffer is a sequence of two halves.
LEMMA BufferFacts ==
  ASSUME NEW b \in Buffers
  PROVE  b \in Seq(Halves) /\ Len(b) = 2 /\ b # <<>>
<1>1. b \in Seq(Halves)
  <2>1. 2 \in Nat /\ b \in [1..2 -> Halves]
    BY DEF Buffers
  <2>2. QED
    BY <2>1, SeqDef
<1>2. DOMAIN b = 1..2
  BY DEF Buffers
<1>3. Len(b) = 2
  BY <1>1, <1>2, LenProperties
<1>4. ASSUME b = <<>> PROVE FALSE
  <2>1. Len(<<>>) = 0
    OBVIOUS
  <2>2. QED
    BY <1>3, <1>4, <2>1
<1>5. QED
  BY <1>1, <1>3, <1>4

\* A read leaves a buffer, of the file's halves and of what was in it.
LEMMA ReadFacts ==
  ASSUME NEW buf \in Buffers, NEW f \in ImageFiles, NEW k
  PROVE  /\ nvram_load(buf, f).buf \in Buffers
         /\ Own(buf, k) /\ Own(f.data, k) => Own(nvram_load(buf, f).buf, k)
<1>1. f.data \in Seq(Halves) /\ DOMAIN f.data = 1..Len(f.data) /\ Len(f.data) \in Nat
  BY DEF ImageFiles
<1>2. \A i \in 1..2 : i <= Len(f.data) => i \in DOMAIN f.data /\ f.data[i] \in Halves
  BY <1>1
<1>3. nvram_load(buf, f).buf = [i \in 1..2 |-> IF i <= Len(f.data) THEN f.data[i] ELSE buf[i]]
  BY DEF nvram_load
<1>4. nvram_load(buf, f).buf \in Buffers
  BY <1>2, <1>3 DEF Buffers
<1>5. ASSUME Own(buf, k), Own(f.data, k)
      PROVE  Own(nvram_load(buf, f).buf, k)
  BY <1>2, <1>3, <1>5 DEF Own, Buffers
<1>6. QED
  BY <1>4, <1>5

\* Loading gives a buffer, and one of the store's own when its files are.
LEMMA LoadedFacts ==
  ASSUME NvramTypeInv, NEW k \in Stores
  PROVE  /\ opera_lr_nvram_load(k, Blank) \in Buffers
         /\ Own(store[k].data, k) /\ (\A j \in 1..2 : Own(old[k][j].data, k)) =>
              Own(opera_lr_nvram_load(k, Blank), k)
<1> DEFINE a == nvram_load(Blank, store[k]).buf
           b == nvram_load(a, old[k][1]).buf
           c == nvram_load(b, old[k][2]).buf
<1>1. Blank \in Buffers /\ Own(Blank, k) /\ opera_nvram_init \in Buffers /\ Own(opera_nvram_init, k)
  BY HalfFacts DEF Blank, Buffers, Own, opera_nvram_init
<1>2. store[k] \in ImageFiles /\ old[k][1] \in ImageFiles /\ old[k][2] \in ImageFiles
  BY DEF NvramTypeInv
<1>3. a \in Buffers /\ b \in Buffers /\ c \in Buffers
  BY <1>1, <1>2, ReadFacts
<1>4. ASSUME Own(store[k].data, k), \A j \in 1..2 : Own(old[k][j].data, k)
      PROVE  Own(a, k) /\ Own(b, k) /\ Own(c, k)
  <2>1. Own(a, k)
    BY <1>1, <1>2, <1>4, ReadFacts
  <2>2. Own(b, k)
    BY <1>2, <1>3, <1>4, <2>1, ReadFacts
  <2>3. QED
    BY <1>2, <1>3, <1>4, <2>1, <2>2, ReadFacts
<1>5. opera_lr_nvram_load(k, Blank) \in {a, b, c, opera_nvram_init}
  BY DEF opera_lr_nvram_load, opera_lr_nvram_load_store
<1>6. QED
  BY <1>1, <1>3, <1>4, <1>5

\* A session as it starts.
LEMMA StartedFacts ==
  ASSUME NvramIInv, NEW s \in env.options, NEW g \in Games,
         ses' = Started(s, g), UNCHANGED <<store, tmp, old, env, committed>>
  PROVE  NvramIInv'
<1>1. s \in BOOLEAN
  BY DEF NvramIInv, NvramTypeInv
<1> DEFINE k == StoreOf(s, g)
           b == opera_lr_nvram_load(k, Blank)
<1>2. k \in Stores
  BY <1>1, StoreFacts
<1>3. b \in Buffers /\ (Own(store[k].data, k) /\ (\A j \in 1..2 : Own(old[k][j].data, k)) => Own(b, k))
  BY <1>2, LoadedFacts DEF NvramIInv
<1>4. ses' = [pc |-> "run", game |-> g, shared |-> s, buf |-> b, home |-> k, next |-> g,
              then |-> "none", ok |-> FALSE]
  BY DEF Started
<1> HIDE DEF b
<1>5. NvramTypeInv'
  BY <1>1, <1>2, <1>3, <1>4 DEF NvramIInv, NvramTypeInv, Saving
<1>6. SavedSurvives'
  BY DEF NvramIInv, SavedSurvives
<1>7. TmpInv'
  BY <1>4 DEF TmpInv, Saving
<1>8. HomeInv'
  <2>1. Target' = k
    BY <1>4 DEF Target
  <2>2. QED
    BY <1>2, <1>3, <1>4, <2>1 DEF NvramIInv, HomeInv
<1>9. QED
  BY <1>5, <1>6, <1>7, <1>8 DEF NvramIInv

-----------------------------------------------------------------------------
(* Steps that leave the disk alone.                                        *)

\* The guest writes, the options change, a save begins, the session ends.
LEMMA SessionSteps ==
  ASSUME NvramIInv, UNCHANGED <<store, tmp, old, env, committed>>,
         \/ \E n \in Gens : GuestSaves(n)
         \/ \E s \in env.options : opera_lr_opts_set_nvram_shared(s)
         \/ retro_reset \/ retro_unload_game
         \/ \E g \in env.games : cdimage_ode_launch(g)
         \/ retro_unload_game_end
  PROVE  NvramIInv'
<1>1. SavedSurvives'
  BY DEF NvramIInv, SavedSurvives
<1>2. CASE \E n \in Gens : GuestSaves(n)
  <2> PICK n \in Gens : GuestSaves(n)
    BY <1>2
  <2>1. Half(ses.home, n) \in Halves /\ Half(ses.home, n).home = ses.home
    BY HalfFacts, GensAssumption DEF NvramIInv, NvramTypeInv
  <2> DEFINE b == <<Half(ses.home, n), Half(ses.home, n)>>
  <2>2. b \in Buffers /\ DOMAIN b = 1..2 /\ \A i \in 1..2 : b[i].home = ses.home
    BY <2>1 DEF Buffers
  <2>3. ses' = [ses EXCEPT !.buf = b] /\ ses.pc = "run"
    BY DEF GuestSaves
  <2> HIDE DEF b
  <2>4. NvramTypeInv'
    BY <2>2, <2>3 DEF NvramIInv, NvramTypeInv, Saving
  <2>5. Target' = Target
    BY <2>3 DEF Target, NvramIInv, NvramTypeInv
  <2>6. TmpInv'
    BY <2>3, <2>5 DEF NvramIInv, NvramTypeInv, TmpInv, Saving
  <2>7. ses.buf # <<>>
    BY <2>3, BufferFacts DEF NvramIInv, NvramTypeInv
  <2>8. HomeInv'
    BY <2>2, <2>3, <2>5, <2>7 DEF NvramIInv, NvramTypeInv, HomeInv, Own
  <2>9. QED
    BY <1>1, <2>4, <2>6, <2>8 DEF NvramIInv
<1>3. CASE \E s \in env.options : opera_lr_opts_set_nvram_shared(s)
  <2> PICK s \in env.options : opera_lr_opts_set_nvram_shared(s)
    BY <1>3
  <2>1. ses' = [ses EXCEPT !.shared = s] /\ ses.pc = "run" /\ s \in BOOLEAN
    BY DEF opera_lr_opts_set_nvram_shared, NvramIInv, NvramTypeInv
  <2>2. NvramTypeInv'
    BY <2>1 DEF NvramIInv, NvramTypeInv, Saving
  <2>3. TmpInv'
    BY <2>1 DEF NvramIInv, NvramTypeInv, TmpInv, Saving
  <2>4. HomeInv'
    <3> SUFFICES ASSUME \E o \in BOOLEAN : env.options = {o}
                 PROVE  HomeInv'
      BY DEF HomeInv
    <3>1. ses.buf # <<>> /\ ses.pc # "off"
      BY <2>1, BufferFacts DEF NvramIInv, NvramTypeInv
    <3>2. s = ses.shared
      BY <3>1 DEF NvramIInv, HomeInv
    <3>3. ses' = ses
      BY <2>1, <3>2 DEF NvramIInv, NvramTypeInv
    <3>4. QED
      BY <3>3 DEF NvramIInv, HomeInv, Target
  <2>5. QED
    BY <1>1, <2>2, <2>3, <2>4 DEF NvramIInv
<1>4. CASE retro_reset \/ retro_unload_game \/ \E g \in env.games : cdimage_ode_launch(g)
  <2>1. PICK then \in {"reset", "launch", "unload"}, next \in Games :
          /\ ses' = [ses EXCEPT !.pc = "write", !.then = then, !.next = next, !.ok = FALSE]
          /\ ses.pc \in {"run", "dead"}
    <3>1. CASE retro_reset \/ retro_unload_game
      <4>1. ses.game \in Games
        BY <3>1 DEF retro_reset, retro_unload_game, NvramIInv, NvramTypeInv
      <4>2. QED
        BY <3>1, <4>1 DEF retro_reset, retro_unload_game, BeginSave
    <3>2. CASE \E g \in env.games : cdimage_ode_launch(g)
      BY <3>2 DEF cdimage_ode_launch, BeginSave, NvramIInv, NvramTypeInv
    <3>3. QED
      BY <1>4, <3>1, <3>2
  <2>2. NvramTypeInv'
    BY <2>1 DEF NvramIInv, NvramTypeInv, Saving
  <2>3. Target' = Target /\ ses'.pc = "write" /\ ses'.buf = ses.buf /\ ses'.shared = ses.shared
        /\ ses'.home = ses.home
    BY <2>1 DEF Target, NvramIInv, NvramTypeInv
  <2>4. TmpInv'
    BY <2>3 DEF TmpInv, Saving
  <2>5. HomeInv'
    BY <2>1, <2>3 DEF NvramIInv, HomeInv
  <2>6. QED
    BY <1>1, <2>2, <2>4, <2>5 DEF NvramIInv
<1>5. CASE retro_unload_game_end
  <2>1. ses' = Off
    BY <1>5 DEF retro_unload_game_end
  <2>2. QED
    BY <1>1, <2>1 DEF NvramIInv, NvramTypeInv, TmpInv, HomeInv, Off, Saving
<1>6. QED
  BY <1>2, <1>3, <1>4, <1>5

\* The caller goes on: a new session, or a core without memory.
LEMMA ResetCore ==
  ASSUME NvramIInv, NEW s \in env.options, retro_reset_core(s)
  PROVE  NvramIInv'
<1>1. ses.pc = "saved" /\ ses.next \in Games /\ UNCHANGED <<store, tmp, old, env, committed>>
  BY DEF NvramIInv, NvramTypeInv, retro_reset_core
<1>2. CASE ses' = Started(s, ses.next)
  BY <1>1, <1>2, StartedFacts
<1>3. CASE ses' = [ses EXCEPT !.pc = "dead", !.buf = <<>>, !.game = ses.next, !.shared = FALSE]
  <2>1. NvramTypeInv'
    BY <1>1, <1>3 DEF NvramIInv, NvramTypeInv, Saving
  <2>2. ses'.pc = "dead" /\ ses'.buf = <<>>
    BY <1>3 DEF NvramIInv, NvramTypeInv
  <2>3. QED
    BY <1>1, <2>1, <2>2 DEF NvramIInv, TmpInv, HomeInv, SavedSurvives, Saving
<1>4. QED
  BY <1>2, <1>3 DEF retro_reset_core

-----------------------------------------------------------------------------
(* Steps of a save.                                                        *)

\* What is written is the beginning of the buffer.
LEMMA WrittenFacts ==
  ASSUME NvramIInv, ses.pc # "off", NEW n \in 0..2
  PROVE  /\ Written(n) \in Seq(Halves) /\ Target \in Stores
         /\ (\E o \in BOOLEAN : env.options = {o}) => Own(Written(n), Target)
<1>1. Target \in Stores
  BY StoreFacts DEF Target, NvramIInv, NvramTypeInv
<1>2. CASE ses.buf = <<>>
  BY <1>1, <1>2 DEF Written, Own
<1>3. CASE ses.buf # <<>>
  <2>1. ses.buf \in Buffers
    BY <1>3 DEF NvramIInv, NvramTypeInv
  <2>2. ses.buf \in Seq(Halves) /\ Len(ses.buf) = 2 /\ \A i \in 1..n : ses.buf[i] \in Halves
    BY <2>1, BufferFacts DEF Buffers
  <2>3. Written(n) = [i \in 1..n |-> ses.buf[i]]
    BY <1>3, <2>2 DEF Written
  <2>4. Written(n) \in Seq(Halves)
    BY <2>2, <2>3
  <2>5. ASSUME \E o \in BOOLEAN : env.options = {o} PROVE Own(Written(n), Target)
    <3>1. Own(ses.buf, Target)
      BY <1>3, <2>5 DEF NvramIInv, HomeInv
    <3>2. QED
      BY <2>1, <2>3, <3>1 DEF Own, Buffers
  <2>6. QED
    BY <1>1, <2>4, <2>5
<1>4. QED
  BY <1>2, <1>3

\* A step that writes a temporary file of the session's store.
LEMMA TmpWritten ==
  ASSUME NvramIInv, ses.pc # "off", NEW n \in 0..2,
         tmp' = [tmp EXCEPT ![Target] = ImageFile(Written(n))]
  PROVE  /\ tmp' \in [Stores -> ImageFiles] /\ tmp'[Target] = ImageFile(Written(n))
         /\ (\E o \in BOOLEAN : env.options = {o}) => \A k \in Stores : Own(tmp'[k].data, k)
<1> DEFINE w == Written(n)
<1>1. w \in Seq(Halves) /\ Target \in Stores
      /\ ((\E o \in BOOLEAN : env.options = {o}) => Own(w, Target))
  BY WrittenFacts
<1> HIDE DEF w
<1>2. ImageFile(w) \in ImageFiles /\ ImageFile(w).data = w
  BY <1>1 DEF ImageFile, ImageFiles
<1>3. QED
  BY <1>1, <1>2 DEF NvramIInv, NvramTypeInv, HomeInv, w

\* The temporary file is written, in part or whole.
LEMMA SaveWrite ==
  ASSUME NvramIInv, NEW n \in 0..2, nvram_save_write(n)
  PROVE  NvramIInv'
<1>1. /\ ses.pc = "write" /\ tmp' = [tmp EXCEPT ![Target] = ImageFile(Written(n))]
      /\ ses' = [ses EXCEPT !.pc = IF Len(Written(n)) = 2 THEN "rename" ELSE "saved"]
      /\ UNCHANGED <<store, old, env, committed>>
  BY DEF nvram_save_write
<1>2. /\ tmp' \in [Stores -> ImageFiles] /\ tmp'[Target] = ImageFile(Written(n))
      /\ ((\E o \in BOOLEAN : env.options = {o}) => \A k \in Stores : Own(tmp'[k].data, k))
  BY <1>1, TmpWritten
<1>3. NvramTypeInv'
  BY <1>1, <1>2 DEF NvramIInv, NvramTypeInv, Saving
<1>4. Target' = Target /\ ses'.buf = ses.buf /\ ses'.shared = ses.shared /\ ses'.home = ses.home
  BY <1>1 DEF NvramIInv, NvramTypeInv, Target
<1>5. TmpInv'
  <2>1. ses'.pc = IF Len(Written(n)) = 2 THEN "rename" ELSE "saved"
    BY <1>1 DEF NvramIInv, NvramTypeInv
  <2>2. QED
    BY <1>2, <1>4, <2>1 DEF TmpInv, Saving, ImageFile
<1>6. HomeInv'
  BY <1>1, <1>2, <1>4 DEF NvramIInv, HomeInv
<1>7. SavedSurvives'
  BY <1>1 DEF NvramIInv, SavedSurvives
<1>8. QED
  BY <1>3, <1>5, <1>6, <1>7 DEF NvramIInv

\* A rename that works.
LEMMA SaveRenamed ==
  ASSUME NvramIInv, ses.pc \in Saving, Renamed
  PROVE  NvramIInv'
<1>1. Target \in Stores
  BY StoreFacts DEF Target, NvramIInv, NvramTypeInv, Saving
<1>2. /\ store' = [store EXCEPT ![Target] = tmp[Target]]
      /\ tmp' = [tmp EXCEPT ![Target] = Absent]
      /\ committed' = [committed EXCEPT ![Target] = tmp[Target].data]
      /\ ses' = [ses EXCEPT !.pc = "saved", !.ok = TRUE]
      /\ UNCHANGED <<old, env>>
  BY DEF Renamed
<1>3. tmp[Target] \in ImageFiles /\ tmp[Target].there /\ Len(tmp[Target].data) = 2
      /\ Absent \in ImageFiles /\ Absent.data = <<>>
  BY <1>1 DEF NvramIInv, NvramTypeInv, TmpInv, Absent, ImageFiles
<1>4. NvramTypeInv'
  BY <1>1, <1>2, <1>3 DEF NvramIInv, NvramTypeInv, Saving, ImageFiles
<1>5. SavedSurvives'
  <2>1. tmp[Target] = ImageFile(tmp[Target].data)
    BY <1>3 DEF ImageFiles, ImageFile
  <2>2. ASSUME NEW k \in Stores
        PROVE  /\ store'[k].there => Len(store'[k].data) = 2
               /\ ~env.rename_fails /\ committed'[k] # <<>> => store'[k] = ImageFile(committed'[k])
    <3>1. CASE k = Target
      BY <1>1, <1>2, <1>3, <2>1, <3>1 DEF NvramIInv, NvramTypeInv
    <3>2. CASE k # Target
      BY <1>1, <1>2, <3>2 DEF NvramIInv, NvramTypeInv, SavedSurvives
    <3>3. QED
      BY <3>1, <3>2
  <2>3. QED
    BY <1>2, <2>2 DEF SavedSurvives
<1>6. TmpInv'
  BY <1>2 DEF NvramIInv, NvramTypeInv, TmpInv, Saving
<1>7. HomeInv'
  <2>1. Target' = Target /\ ses'.buf = ses.buf /\ ses'.shared = ses.shared /\ ses'.home = ses.home
    BY <1>2 DEF NvramIInv, NvramTypeInv, Target
  <2>2. ASSUME \E o \in BOOLEAN : env.options = {o}, NEW k \in Stores
        PROVE  Own(store'[k].data, k) /\ Own(tmp'[k].data, k)
    BY <1>1, <1>2, <1>3, <2>2 DEF NvramIInv, NvramTypeInv, HomeInv, Own
  <2>3. QED
    BY <1>2, <2>1, <2>2 DEF NvramIInv, HomeInv, Saving
<1>8. QED
  BY <1>4, <1>5, <1>6, <1>7 DEF NvramIInv

\* A rename that fails, and the second one.
LEMMA SaveRefused ==
  ASSUME NvramIInv, UNCHANGED <<store, tmp, old, env, committed>>,
         \/ ses.pc = "rename" /\ env.rename_fails /\ ses' = [ses EXCEPT !.pc = "delete"]
         \/ ses.pc = "rename2" /\ ses' = [ses EXCEPT !.pc = "saved"]
  PROVE  NvramIInv'
<1>1. NvramTypeInv'
  BY DEF NvramIInv, NvramTypeInv, Saving
<1>2. Target' = Target /\ ses'.buf = ses.buf /\ ses'.shared = ses.shared /\ ses'.home = ses.home
      /\ ses.pc \in Saving /\ ses'.pc \in {"delete", "saved"}
      /\ (ses'.pc = "delete" => env.rename_fails)
  BY DEF NvramIInv, NvramTypeInv, Target, Saving
<1>3. TmpInv'
  BY <1>2 DEF NvramIInv, TmpInv, Saving
<1>4. HomeInv'
  BY <1>2 DEF NvramIInv, HomeInv, Saving
<1>5. QED
  BY <1>1, <1>3, <1>4 DEF NvramIInv, SavedSurvives

\* The old file goes; this happens only where renames fail.
LEMMA SaveDelete ==
  ASSUME NvramIInv, nvram_save_delete
  PROVE  NvramIInv'
<1>1. Target \in Stores /\ env.rename_fails
  BY StoreFacts DEF nvram_save_delete, Target, NvramIInv, NvramTypeInv, TmpInv
<1>2. /\ ses.pc = "delete" /\ store' = [store EXCEPT ![Target] = Absent]
      /\ ses' = [ses EXCEPT !.pc = "rename2"] /\ UNCHANGED <<tmp, old, env, committed>>
  BY DEF nvram_save_delete
<1>3. Absent \in ImageFiles /\ ~Absent.there /\ Absent.data = <<>>
  BY DEF Absent, ImageFiles
<1>4. NvramTypeInv'
  BY <1>1, <1>2, <1>3 DEF NvramIInv, NvramTypeInv, Saving
<1>5. SavedSurvives'
  BY <1>1, <1>2, <1>3 DEF NvramIInv, NvramTypeInv, SavedSurvives
<1>6. Target' = Target /\ ses'.buf = ses.buf /\ ses'.shared = ses.shared /\ ses'.home = ses.home
  BY <1>2 DEF NvramIInv, NvramTypeInv, Target
<1>7. TmpInv'
  BY <1>1, <1>2, <1>6 DEF NvramIInv, NvramTypeInv, TmpInv, Saving
<1>8. HomeInv'
  <2>1. ASSUME \E o \in BOOLEAN : env.options = {o}, NEW k \in Stores
        PROVE  Own(store'[k].data, k)
    BY <1>1, <1>2, <1>3, <2>1 DEF NvramIInv, NvramTypeInv, HomeInv, Own
  <2>2. QED
    BY <1>2, <1>6, <2>1 DEF NvramIInv, HomeInv
<1>9. QED
  BY <1>4, <1>5, <1>7, <1>8 DEF NvramIInv

\* The process dies at any step, in the middle of a write too.
LEMMA Crashes ==
  ASSUME NvramIInv, NEW n \in 0..1, Crash(n)
  PROVE  NvramIInv'
<1>1. ses' = Off /\ ses.pc # "off" /\ UNCHANGED <<store, old, env, committed>>
  BY DEF Crash
<1>2. /\ tmp' \in [Stores -> ImageFiles]
      /\ (\E o \in BOOLEAN : env.options = {o}) => \A k \in Stores : Own(tmp'[k].data, k)
  <2>1. CASE ses.pc = "write"
    <3>1. n \in 0..2 /\ tmp' = [tmp EXCEPT ![Target] = ImageFile(Written(n))]
      BY <2>1 DEF Crash
    <3>2. QED
      BY <1>1, <3>1, TmpWritten
  <2>2. CASE ses.pc # "write"
    BY <2>2 DEF Crash, NvramIInv, NvramTypeInv, HomeInv
  <2>3. QED
    BY <2>1, <2>2
<1>3. QED
  BY <1>1, <1>2 DEF NvramIInv, NvramTypeInv, TmpInv, HomeInv, SavedSurvives, Off, Saving

-----------------------------------------------------------------------------
\* A fresh installation, with whatever the fallback directories hold.
LEMMA NvramInitIInv == NvramInit => NvramIInv
<1> SUFFICES ASSUME NvramInit PROVE NvramIInv
  OBVIOUS
<1>1. Absent \in ImageFiles /\ ~Absent.there /\ Absent.data = <<>>
  BY DEF Absent, ImageFiles
<1> DEFINE OldFile(k, len) == IF len = 3 THEN Absent ELSE ImageFile([i \in 1..len |-> Half(k, 0)])
<1>2. PICK a, b \in OldFiles : old = [k \in Stores |-> <<OldFile(k, a), OldFile(k, b)>>]
  BY DEF NvramInit
<1>3. ASSUME NEW k \in Stores, NEW len \in OldFiles
      PROVE  OldFile(k, len) \in ImageFiles /\ Own(OldFile(k, len).data, k)
  <2>1. CASE len = 3
    BY <1>1, <2>1 DEF Own
  <2>2. CASE len # 3
    <3>1. len \in 0..2 /\ Half(k, 0) \in Halves /\ Half(k, 0).home = k
      BY <2>2, OldFilesAssumption, HalfFacts
    <3> DEFINE d == [i \in 1..len |-> Half(k, 0)]
    <3>2. d \in Seq(Halves) /\ Own(d, k)
      BY <3>1 DEF Own
    <3> HIDE DEF d
    <3>3. ImageFile(d) \in ImageFiles /\ ImageFile(d).data = d
      BY <3>2 DEF ImageFile, ImageFiles
    <3>4. QED
      BY <2>2, <3>2, <3>3 DEF d
  <2>3. QED
    BY <2>1, <2>2
<1> HIDE DEF OldFile
<1>4. old \in [Stores -> [1..2 -> ImageFiles]] /\ \A k \in Stores, j \in 1..2 : Own(old[k][j].data, k)
  BY <1>2, <1>3
<1>5. /\ store = [k \in Stores |-> Absent] /\ tmp = [k \in Stores |-> Absent]
      /\ env \in [games : SUBSET Games, options : SUBSET BOOLEAN, rename_fails : BOOLEAN]
      /\ ses = Off /\ committed = [k \in Stores |-> <<>>]
  BY EnvironmentsAssumption DEF NvramInit
<1>6. NvramTypeInv
  <2>1. store \in [Stores -> ImageFiles] /\ tmp \in [Stores -> ImageFiles]
    BY <1>1, <1>5
  <2>2. committed \in [Stores -> Seq(Halves)]
    BY <1>5
  <2>3. QED
    BY <1>4, <1>5, <2>1, <2>2 DEF NvramTypeInv, Off, Saving
<1>7. SavedSurvives
  BY <1>1, <1>5 DEF SavedSurvives
<1>8. HomeInv
  BY <1>1, <1>4, <1>5 DEF HomeInv, Own, Off
<1>9. QED
  BY <1>5, <1>6, <1>7, <1>8 DEF NvramIInv, TmpInv, Off, Saving

\* Every step keeps the invariant.
LEMMA NvramNextIInv == NvramIInv /\ [NvramNext]_nvramVars => NvramIInv'
<1> SUFFICES ASSUME NvramIInv, [NvramNext]_nvramVars PROVE NvramIInv'
  OBVIOUS
<1>1. ASSUME NEW g \in env.games, NEW s \in env.options, retro_load_game(g, s) PROVE NvramIInv'
  <2>1. g \in Games
    BY DEF NvramIInv, NvramTypeInv
  <2>2. QED
    BY <1>1, <2>1, StartedFacts DEF retro_load_game
<1>2. CASE \/ \E n \in Gens : GuestSaves(n)
           \/ \E s \in env.options : opera_lr_opts_set_nvram_shared(s)
           \/ retro_reset \/ retro_unload_game
           \/ \E g \in env.games : cdimage_ode_launch(g)
           \/ retro_unload_game_end
  <2>1. UNCHANGED <<store, tmp, old, env, committed>>
    BY <1>2 DEF GuestSaves, opera_lr_opts_set_nvram_shared, retro_reset, retro_unload_game,
                cdimage_ode_launch, BeginSave, retro_unload_game_end
  <2>2. QED
    BY <1>2, <2>1, SessionSteps
<1>3. CASE \E n \in 0..2 : nvram_save_write(n)
  BY <1>3, SaveWrite
<1>4. CASE nvram_save_rename
  BY <1>4, SaveRenamed, SaveRefused DEF nvram_save_rename, Saving
<1>5. CASE nvram_save_delete
  BY <1>5, SaveDelete
<1>6. CASE nvram_save_rename2
  BY <1>6, SaveRenamed, SaveRefused DEF nvram_save_rename2, Saving
<1>7. CASE \E s \in env.options : retro_reset_core(s)
  BY <1>7, ResetCore
<1>8. CASE \E n \in 0..1 : Crash(n)
  BY <1>8, Crashes
<1>9. CASE UNCHANGED nvramVars
  BY <1>9 DEF nvramVars, NvramIInv, NvramTypeInv, SavedSurvives, TmpInv, HomeInv, Target
<1>10. QED
  BY <1>1, <1>2, <1>3, <1>4, <1>5, <1>6, <1>7, <1>8, <1>9 DEF NvramNext

\* The invariant holds in every state of every behaviour.
LEMMA NvramInvariance == NvramSpec => []NvramIInv
BY NvramInitIInv, NvramNextIInv, PTL DEF NvramSpec

\* No store holds a cut image, and where rename replaces its target the last
\* complete save is what a store holds: for any games, fallback files and
\* installations, with the process dying anywhere (nvram_save).
THEOREM SaveSurvives == NvramSpec => []SavedSurvives
<1>1. NvramIInv => SavedSurvives
  BY DEF NvramIInv
<1>2. QED
  BY <1>1, NvramInvariance, PTL

\* While the storage option stays as it is, no reset, launch or failed reset
\* sends a game's image to another game's file (opera_lr_nvram_save's callers).
THEOREM SavesGoHome == NvramSpec => []SaveGoesHome
<1>1. NvramIInv => SaveGoesHome
  BY DEF NvramIInv, HomeInv, Own, SaveGoesHome, HoldsItsOwn
<1>2. QED
  BY <1>1, NvramInvariance, PTL

-----------------------------------------------------------------------------
(***************************************************************************)
(* Save states.                                                            *)
(***************************************************************************)
Versions == {"V1", "V2", "V3", "V4"}

Machines == [parts : [Parts -> Nat], cfg : Configs, rom : Nat, pbus : Nat,
             legacy : BOOLEAN, ode : BOOLEAN]

\* A file, as far as its fields go; any chunk may be bad and any configuration named.
Files == [version : Versions \cup {"none", "other"}, parts : [Parts -> Nat],
          cfg : Configs \cup FileConfigs, rom : Nat,
          bad : Parts \cup {"none", "rom"}, old_cd : BOOLEAN, tail : BOOLEAN]

\* A file as opera_3do_state_save writes it.
Saves == {f \in Files : /\ f.version = "V4" /\ f.cfg \in Configs /\ f.bad = "none"
                        /\ ~f.old_cd /\ ~f.tail}

TypeInv ==
  /\ m \in Machines
  /\ slot \in Saves \cup {NoFile}
  /\ call \in [op : {"none", "saved", "unsaved", "loaded", "failed"}, before : Machines]

IInv == TypeInv /\ FailedLoadKeepsParts

-----------------------------------------------------------------------------
(* The chunks of a file.                                                   *)

\* The parts a format holds: V1 lacks the runtime, the clock and the
\* generators, V2 the generators; V4 has every part and no ROM.
LEMMA ChunkFacts ==
  /\ Range(Order("V1")) = (Parts \ {"runtime", "prng", "clock"}) \cup {"rom"}
  /\ Range(Order("V2")) = (Parts \ {"prng"}) \cup {"rom"}
  /\ Range(Order("V3")) = Parts \cup {"rom"}
  /\ Range(Order("V4")) = Parts
  /\ Range(Order("none")) = {} /\ Range(Order("other")) = {}
<1>1. Range(Order("V1")) = (Parts \ {"runtime", "prng", "clock"}) \cup {"rom"}
  BY DEF Range, Order, Parts
<1>2. Range(Order("V2")) = (Parts \ {"prng"}) \cup {"rom"}
  BY DEF Range, Order, Parts
<1>3. Range(Order("V3")) = Parts \cup {"rom"}
  BY DEF Range, Order, Parts
<1>4. Range(Order("V4")) = Parts
  BY DEF Range, Order, Parts
<1>5. Range(Order("none")) = {} /\ Range(Order("other")) = {}
  BY DEF Range, Order
<1>6. QED
  BY <1>1, <1>2, <1>3, <1>4, <1>5

\* The index set of an order is an interval from 1.
LEMMA OrderDomain ==
  ASSUME NEW v \in Versions \cup {"none", "other"}
  PROVE  \E n \in Nat : DOMAIN Order(v) = 1..n
<1>1. CASE v = "V1"
  BY <1>1 DEF Order
<1>2. CASE v = "V2"
  BY <1>2 DEF Order
<1>3. CASE v = "V3"
  BY <1>3 DEF Order
<1>4. CASE v = "V4"
  BY <1>4 DEF Order
<1>5. CASE v \in {"none", "other"}
  BY <1>5 DEF Order
<1>6. QED
  BY <1>1, <1>2, <1>3, <1>4, <1>5 DEF Versions

\* Only chunks that decode are committed, and all of them when all decode.
LEMMA CommittedFacts ==
  ASSUME NEW f \in Files
  PROVE  /\ Committed(f) \subseteq Chunks(f)
         /\ \A c \in Committed(f) : Decodes(f, c)
         /\ Complete(f) => Committed(f) = Chunks(f)
<1> DEFINE o == Order(f.version)
<1>1. PICK n \in Nat : DOMAIN o = 1..n
  BY OrderDomain DEF Files
<1>2. Committed(f) = {o[i] : i \in {k \in 1..n : \A j \in 1..k : Decodes(f, o[j])}}
  BY <1>1 DEF Committed
<1>3. Chunks(f) = {o[i] : i \in 1..n}
  BY <1>1 DEF Chunks, Range
<1> HIDE DEF o
<1>4. Committed(f) \subseteq Chunks(f)
  BY <1>2, <1>3
<1>5. \A c \in Committed(f) : Decodes(f, c)
  BY <1>2
<1>6. Complete(f) => Committed(f) = Chunks(f)
  <2> SUFFICES ASSUME Complete(f), NEW i \in 1..n
               PROVE  \A j \in 1..i : Decodes(f, o[j])
    BY <1>2, <1>3
  <2>1. \A j \in 1..i : o[j] \in Chunks(f)
    BY <1>3
  <2>2. QED
    BY <2>1 DEF Complete
<1>7. QED
  BY <1>4, <1>5, <1>6

\* The configuration is taken after the RAM chunk decoded: it is a valid one.
LEMMA NvramAfterRam ==
  ASSUME NEW f \in Files, "nvram" \in Committed(f)
  PROVE  f.cfg \in Configs
<1> DEFINE o == Order(f.version)
<1>1. PICK i \in DOMAIN o : o[i] = "nvram" /\ \A j \in 1..i : Decodes(f, o[j])
  BY DEF Committed
<1>2. \E j \in 1..i : o[j] = "ram"
  <2>1. CASE f.version = "V1"
    <3>1. i = 7 /\ o[5] = "ram"
      BY <1>1, <2>1 DEF Order
    <3>2. QED
      BY <3>1
  <2>2. CASE f.version = "V2"
    <3>1. i = 8 /\ o[6] = "ram"
      BY <1>1, <2>2 DEF Order
    <3>2. QED
      BY <3>1
  <2>3. CASE f.version = "V3"
    <3>1. i = 9 /\ o[7] = "ram"
      BY <1>1, <2>3 DEF Order
    <3>2. QED
      BY <3>1
  <2>4. CASE f.version = "V4"
    <3>1. i = 8 /\ o[7] = "ram"
      BY <1>1, <2>4 DEF Order
    <3>2. QED
      BY <3>1
  <2>5. CASE f.version \in {"none", "other"}
    BY <1>1, <2>5 DEF Order
  <2>6. QED
    BY <2>1, <2>2, <2>3, <2>4, <2>5 DEF Files, Versions
<1>3. QED
  BY <1>1, <1>2 DEF Decodes, opera_mem_is_valid_cfg

-----------------------------------------------------------------------------
(* Loads.                                                                  *)

\* What the chunks of f leave in a machine: a machine, with a valid configuration.
LEMMA LoadStepsFacts ==
  ASSUME NEW d \in Machines, NEW f \in Files
  PROVE  /\ LoadSteps(d, f) \in Machines
         /\ LoadSteps(d, f).legacy = d.legacy
         /\ Complete(f) /\ f.version \in Versions =>
              /\ \A p \in Parts : LoadSteps(d, f).parts[p] = IF p \in Chunks(f) THEN f.parts[p]
                                                            ELSE d.parts[p]
              /\ LoadSteps(d, f).cfg = f.cfg /\ ~LoadSteps(d, f).ode
<1> DEFINE done == Committed(f)
           ps   == [p \in Parts |-> IF p \in done THEN f.parts[p]
                                    ELSE IF p = "cdrom" /\ "xbus" \in done THEN 0
                                    ELSE d.parts[p]]
           e    == LoadSteps(d, f)
<1>1. e = [d EXCEPT !.parts = ps, !.cfg = IF "nvram" \in done THEN f.cfg ELSE d.cfg,
                    !.rom = IF "rom" \in done THEN f.rom ELSE d.rom,
                    !.ode = d.ode /\ "cdrom" \notin done]
  BY DEF LoadSteps, Machines
<1>2. ps \in [Parts -> Nat]
  BY DEF Files, Machines
<1>3. (IF "nvram" \in done THEN f.cfg ELSE d.cfg) \in Configs
  BY NvramAfterRam DEF Machines
<1>4. /\ e.parts = ps /\ e.cfg = (IF "nvram" \in done THEN f.cfg ELSE d.cfg)
      /\ e.ode = (d.ode /\ "cdrom" \notin done) /\ e.legacy = d.legacy
  BY <1>1 DEF Machines
<1>5. e \in Machines
  BY <1>1, <1>2, <1>3 DEF Machines, Files
<1>6. ASSUME Complete(f), f.version \in Versions
      PROVE  /\ \A p \in Parts : e.parts[p] = IF p \in Chunks(f) THEN f.parts[p] ELSE d.parts[p]
             /\ e.cfg = f.cfg /\ ~e.ode
  <2>1. done = Chunks(f)
    BY <1>6, CommittedFacts
  <2>2. {"nvram", "cdrom"} \subseteq Chunks(f)
    BY <1>6, ChunkFacts DEF Chunks, Versions, Parts
  <2>3. QED
    BY <1>4, <2>1, <2>2
<1>7. QED
  BY <1>4, <1>5, <1>6

\* A reset of the runtime state.
LEMMA ResetFacts ==
  ASSUME NEW d \in Machines
  PROVE  LET e == opera_3do_reset_runtime_state(d)
         IN  /\ e \in Machines
             /\ e.parts["runtime"] = 0 /\ e.parts["clock"] = 0
             /\ e.parts["prng"] = d.parts["prng"]
<1> DEFINE ps == [d.parts EXCEPT !["runtime"] = 0, !["clock"] = 0, !["sport"] = 0]
           e  == opera_3do_reset_runtime_state(d)
<1>1. e = [d EXCEPT !.parts = ps, !.pbus = 0, !.legacy = FALSE]
  BY DEF opera_3do_reset_runtime_state, Machines
<1>2. ps \in [Parts -> Nat] /\ ps["runtime"] = 0 /\ ps["clock"] = 0 /\ ps["prng"] = d.parts["prng"]
  BY DEF Machines, Parts
<1> HIDE DEF ps
<1>3. e = [parts |-> ps, cfg |-> d.cfg, rom |-> d.rom, pbus |-> 0, legacy |-> FALSE, ode |-> d.ode]
  BY <1>1 DEF Machines
<1>4. e \in Machines /\ e.parts = ps
  BY <1>2, <1>3 DEF Machines
<1>5. QED
  BY <1>2, <1>4

\* A load of any file gives a machine; one that works is the whole file.
LEMMA LoadFacts ==
  ASSUME NEW d \in Machines, NEW f \in Files
  PROVE  LET r == opera_3do_state_load(d, f)
         IN  /\ r.d \in Machines /\ r.ok \in BOOLEAN
             /\ f.version \in Versions => (r.ok <=> Whole(f))
             /\ f.version \notin Versions => ~r.ok /\ r.d = d
             /\ r.ok =>
                  /\ \A p \in Parts : r.d.parts[p] = IF p \in Chunks(f) THEN f.parts[p]
                                                    ELSE IF p = "prng" THEN d.parts[p]
                                                    ELSE 0
                  /\ r.d.cfg = f.cfg /\ ~r.d.ode
                  /\ r.d.legacy <=> f.version = "V1"
<1> DEFINE r == opera_3do_state_load(d, f)
           g == opera_3do_reset_runtime_state(d)
<1>1. CASE f.version = "V1"
  <2>1. g \in Machines /\ g.parts["runtime"] = 0 /\ g.parts["clock"] = 0
        /\ g.parts["prng"] = d.parts["prng"]
    BY ResetFacts
  <2> DEFINE e == LoadSteps(g, f)
  <2>2. /\ e \in Machines
        /\ Complete(f) =>
              /\ \A p \in Parts : e.parts[p] = IF p \in Chunks(f) THEN f.parts[p] ELSE g.parts[p]
              /\ e.cfg = f.cfg /\ ~e.ode
    BY <1>1, <2>1, LoadStepsFacts DEF Versions
  <2>3. r = IF ~Complete(f) THEN [ok |-> FALSE, d |-> e]
            ELSE [ok |-> Whole(f), d |-> [e EXCEPT !.legacy = TRUE]]
    BY <1>1 DEF opera_3do_state_load, opera_3do_state_load_v1
  <2>4. Whole(f) \in BOOLEAN /\ (Whole(f) => Complete(f))
    BY DEF Whole, Complete
  <2> HIDE DEF e, g
  <2>5. [e EXCEPT !.legacy = TRUE] \in Machines /\ [e EXCEPT !.legacy = TRUE].parts = e.parts
        /\ [e EXCEPT !.legacy = TRUE].cfg = e.cfg /\ [e EXCEPT !.legacy = TRUE].ode = e.ode
        /\ [e EXCEPT !.legacy = TRUE].legacy
    BY <2>2 DEF Machines
  <2>6. \A p \in Parts \ Chunks(f) : p \in {"runtime", "clock", "prng"}
    BY <1>1, ChunkFacts DEF Chunks
  <2>7. r.d \in Machines /\ r.ok \in BOOLEAN /\ (r.ok <=> Whole(f))
    <3>1. CASE ~Complete(f)
      BY <2>2, <2>3, <2>4, <3>1
    <3>2. CASE Complete(f) /\ Whole(f)
      <4>1. r.ok = Whole(f) /\ r.d = [e EXCEPT !.legacy = TRUE]
        BY <2>3, <3>2
      <4>2. QED
        BY <2>4, <2>5, <3>2, <4>1
    <3>3. CASE Complete(f) /\ ~Whole(f)
      <4>1. r.ok = Whole(f) /\ r.d = [e EXCEPT !.legacy = TRUE]
        BY <2>3, <3>3
      <4>2. QED
        BY <2>4, <2>5, <3>3, <4>1
    <3>4. QED
      BY <3>1, <3>2, <3>3
  <2>8. ASSUME r.ok
        PROVE  /\ \A p \in Parts : r.d.parts[p] = IF p \in Chunks(f) THEN f.parts[p]
                                                 ELSE IF p = "prng" THEN d.parts[p]
                                                 ELSE 0
               /\ r.d.cfg = f.cfg /\ ~r.d.ode /\ r.d.legacy
    <3>1. Complete(f) /\ r.d = [e EXCEPT !.legacy = TRUE]
      BY <2>3, <2>4, <2>8
    <3>2. QED
      BY <2>1, <2>2, <2>5, <2>6, <3>1
  <2>9. QED
    BY <1>1, <2>7, <2>8 DEF Versions
<1>2. CASE f.version \in {"V2", "V3", "V4"}
  <2> DEFINE e == LoadSteps(d, f)
  <2>1. /\ e \in Machines
        /\ Complete(f) =>
              /\ \A p \in Parts : e.parts[p] = IF p \in Chunks(f) THEN f.parts[p] ELSE d.parts[p]
              /\ e.cfg = f.cfg /\ ~e.ode
    BY <1>2, LoadStepsFacts DEF Versions
  <2>2. r = IF ~Whole(f) THEN [ok |-> Whole(f), d |-> e]
            ELSE [ok |-> TRUE, d |-> [e EXCEPT !.pbus = 0, !.legacy = FALSE]]
    BY <1>2 DEF opera_3do_state_load, opera_3do_state_load_chunked, Whole
  <2>3. Whole(f) \in BOOLEAN /\ (Whole(f) => Complete(f))
    BY DEF Whole, Complete
  <2> HIDE DEF e
  <2> DEFINE h == [e EXCEPT !.pbus = 0, !.legacy = FALSE]
  <2>4. h \in Machines /\ h.parts = e.parts /\ h.cfg = e.cfg /\ h.ode = e.ode /\ ~h.legacy
    BY <2>1 DEF Machines
  <2> HIDE DEF h
  <2>5. \A p \in Parts \ Chunks(f) : p = "prng"
    BY <1>2, ChunkFacts DEF Chunks
  <2>6. r.d \in Machines /\ r.ok \in BOOLEAN /\ (r.ok <=> Whole(f))
    <3>1. CASE ~Whole(f)
      BY <2>1, <2>2, <2>3, <3>1
    <3>2. CASE Whole(f)
      <4>1. r.ok = TRUE /\ r.d = h
        BY <2>2, <3>2 DEF h
      <4>2. QED
        BY <2>4, <3>2, <4>1
    <3>3. QED
      BY <3>1, <3>2
  <2>7. ASSUME r.ok
        PROVE  /\ \A p \in Parts : r.d.parts[p] = IF p \in Chunks(f) THEN f.parts[p]
                                                 ELSE IF p = "prng" THEN d.parts[p]
                                                 ELSE 0
               /\ r.d.cfg = f.cfg /\ ~r.d.ode /\ ~r.d.legacy
    <3>1. Complete(f) /\ r.d = h
      BY <2>2, <2>3, <2>7 DEF h
    <3>2. QED
      BY <2>1, <2>4, <2>5, <3>1
  <2>8. QED
    BY <1>2, <2>6, <2>7 DEF Versions
<1>3. CASE f.version \in {"none", "other"}
  <2>1. r = [ok |-> FALSE, d |-> d]
    BY <1>3 DEF opera_3do_state_load
  <2>2. QED
    BY <1>3, <2>1 DEF Versions
<1>4. QED
  BY <1>1, <1>2, <1>3 DEF Files, Versions

\* A save of any machine is a whole file with all its parts, and loads as it is.
LEMMA SaveFacts ==
  ASSUME NEW d \in Machines
  PROVE  LET f == opera_3do_state_save(d)
         IN  /\ f \in Saves /\ Whole(f) /\ f.parts = d.parts /\ f.cfg = d.cfg
<1> DEFINE f == opera_3do_state_save(d)
<1>1. f = [version |-> "V4", parts |-> d.parts, cfg |-> d.cfg, rom |-> 0, bad |-> "none",
           old_cd |-> FALSE, tail |-> FALSE]
  BY DEF opera_3do_state_save, File
<1>2. f \in Saves
  BY <1>1 DEF Saves, Files, Machines, Versions
<1>3. \A c \in Parts : Decodes(f, c)
  BY <1>1 DEF Decodes, opera_mem_is_valid_cfg, Machines, Parts
<1>4. Chunks(f) = Parts
  BY <1>1, ChunkFacts DEF Chunks
<1>5. Whole(f)
  <2>1. ~f.tail
    BY <1>1
  <2>2. QED
    BY <1>3, <1>4, <2>1 DEF Whole, Complete
<1>6. f.parts = d.parts /\ f.cfg = d.cfg
  BY <1>1
<1>7. QED
  BY <1>2, <1>5, <1>6

\* The backup brings back what it was taken from, whatever the failed load left.
LEMMA RestoreFacts ==
  ASSUME NEW d \in Machines, NEW e \in Machines
  PROVE  LET r == opera_3do_state_load(e, opera_3do_state_save(d))
         IN  r.d \in Machines /\ r.d.parts = d.parts /\ r.d.cfg = d.cfg
<1> DEFINE f == opera_3do_state_save(d)
           r == opera_3do_state_load(e, f)
<1>1. f \in Files /\ f.version = "V4" /\ Whole(f) /\ f.parts = d.parts /\ f.cfg = d.cfg
  BY SaveFacts DEF Saves
<1>2. Chunks(f) = Parts
  BY <1>1, ChunkFacts DEF Chunks
<1> HIDE DEF f
<1>3. /\ r.d \in Machines /\ r.d.cfg = f.cfg
      /\ \A p \in Parts : r.d.parts[p] = IF p \in Chunks(f) THEN f.parts[p]
                                        ELSE IF p = "prng" THEN e.parts[p]
                                        ELSE 0
  BY <1>1, LoadFacts DEF Versions
<1> HIDE DEF r
<1>4. r.d.parts = d.parts
  <2>1. r.d.parts \in [Parts -> Nat] /\ d.parts \in [Parts -> Nat]
    BY <1>3 DEF Machines
  <2>2. \A p \in Parts : r.d.parts[p] = d.parts[p]
    BY <1>1, <1>2, <1>3
  <2>3. QED
    BY <2>1, <2>2
<1>5. QED
  BY <1>1, <1>3, <1>4 DEF f, r

\* A state that validates is whole, and has one of the two current formats.
LEMMA ValidateFacts ==
  ASSUME NEW d, NEW f, opera_3do_state_validate(d, f)
  PROVE  f.version \in Versions /\ Whole(f)
BY DEF opera_3do_state_validate, opera_3do_state_load_chunked, Versions

\* A load through the frontend: it is reported as it went, and leaves either
\* the file or the machine's own parts.
LEMMA UnserializeFacts ==
  ASSUME NEW d \in Machines, NEW f \in Files
  PROVE  LET r == Unserialize(d, f)
         IN  /\ r.d \in Machines /\ r.ok \in BOOLEAN
             /\ r.ok => r = opera_3do_state_load(d, f) /\ opera_3do_state_load(d, f).ok
             /\ ~r.ok => r.d.parts = d.parts /\ r.d.cfg = d.cfg
<1> DEFINE first  == opera_3do_state_load(d, f)
           backup == opera_3do_state_save(d)
           direct == opera_3do_state_validate(d, f)
           r      == Unserialize(d, f)
<1>1. r = IF ~direct /\ d.ode THEN [ok |-> FALSE, d |-> d]
          ELSE IF direct \/ first.ok THEN first
          ELSE [ok |-> FALSE, d |-> opera_3do_state_load(first.d, backup).d]
  BY DEF Unserialize
<1>2. first.d \in Machines /\ first.ok \in BOOLEAN
  BY LoadFacts
<1>3. direct => first.ok
  BY ValidateFacts, LoadFacts
<1>4. /\ opera_3do_state_load(first.d, backup).d \in Machines
      /\ opera_3do_state_load(first.d, backup).d.parts = d.parts
      /\ opera_3do_state_load(first.d, backup).d.cfg = d.cfg
  BY <1>2, RestoreFacts
<1> HIDE DEF first, backup, direct
<1>5. CASE ~direct /\ d.ode
  BY <1>1, <1>5
<1>6. CASE ~(~direct /\ d.ode) /\ (direct \/ first.ok)
  BY <1>1, <1>2, <1>3, <1>6 DEF first
<1>7. CASE ~(~direct /\ d.ode) /\ ~(direct \/ first.ok)
  BY <1>1, <1>4, <1>7
<1>8. QED
  BY <1>5, <1>6, <1>7

-----------------------------------------------------------------------------
(* The invariant.                                                          *)

\* Whatever the frontend may load is a file.
LEMMA LoadableFacts ==
  ASSUME TypeInv
  PROVE  Loadable \subseteq Files
<1>1. ForeignFiles \subseteq Files
  <2> SUFFICES ASSUME NEW f \in ForeignFiles PROVE f \in Files
    OBVIOUS
  <2>1. PICK ver \in {"V1", "V2", "V3", "V4", "other"}, cfg \in FileConfigs, r \in {0, 1},
             bad \in {"none", "arm", "rom", "vdlp", "cdrom"},
             old_cd \in BOOLEAN, tail \in BOOLEAN :
               f = File(ver, [p \in Parts |-> 1], cfg, r, bad, old_cd, tail)
    BY DEF ForeignFiles
  <2>2. [p \in Parts |-> 1] \in [Parts -> Nat]
    OBVIOUS
  <2>3. QED
    BY <2>1, <2>2 DEF Files, File, Versions, Parts
<1>2. {slot} \ {NoFile} \subseteq Files
  BY DEF TypeInv, Saves
<1>3. QED
  BY <1>1, <1>2 DEF Loadable

\* A new machine is a machine.
LEMMA MachineFacts ==
  ASSUME NEW v \in Nat
  PROVE  Machine(v) \in Machines
BY ConfigsAssumption DEF Machine, Machines

\* The session starts with the invariant.
LEMMA InitIInv == Init => IInv
BY MachineFacts DEF Init, IInv, TypeInv, Idle, FailedLoadKeepsParts, Failed

\* Every step keeps the invariant.
LEMMA NextIInv == IInv /\ [Next]_vars => IInv'
<1> SUFFICES ASSUME IInv, [Next]_vars PROVE IInv'
  OBVIOUS
<1>0. m \in Machines /\ Machine(0) \in Machines
      /\ Idle \in [op : {"none", "saved", "unsaved", "loaded", "failed"}, before : Machines]
      /\ Idle.op = "none"
  BY MachineFacts DEF IInv, TypeInv, Idle
<1>1. CASE retro_serialize
  <2> DEFINE ok == ~m.ode /\ opera_mem_state_ram_bytes(m.cfg)
                                = opera_mem_state_ram_bytes(SessionCfg)
  <2>1. /\ slot' = IF ok THEN opera_3do_state_save(m) ELSE slot
        /\ call' = [op |-> IF ok THEN "saved" ELSE "unsaved", before |-> Machine(0)]
        /\ m' = m
    BY <1>1 DEF retro_serialize
  <2>2. opera_3do_state_save(m) \in Saves
    BY <1>0, SaveFacts
  <2> HIDE DEF ok
  <2>3. call' \in [op : {"none", "saved", "unsaved", "loaded", "failed"}, before : Machines]
        /\ call'.op # "failed"
    BY <1>0, <2>1
  <2>4. QED
    BY <2>1, <2>2, <2>3 DEF IInv, TypeInv, FailedLoadKeepsParts, Failed
<1>2. ASSUME NEW f \in Loadable, retro_unserialize(f) PROVE IInv'
  <2> DEFINE r == Unserialize(m, f)
  <2>1. f \in Files
    BY LoadableFacts DEF IInv
  <2>2. /\ r.d \in Machines /\ r.ok \in BOOLEAN
        /\ ~r.ok => r.d.parts = m.parts /\ r.d.cfg = m.cfg
    BY <1>0, <2>1, UnserializeFacts
  <2>3. /\ m' = r.d /\ slot' = slot
        /\ call' = IF r.ok THEN [op |-> "loaded", before |-> Machine(0)]
                   ELSE [op |-> "failed", before |-> m]
    BY <1>2 DEF retro_unserialize
  <2> HIDE DEF r
  <2>4. call' \in [op : {"none", "saved", "unsaved", "loaded", "failed"}, before : Machines]
    BY <1>0, <2>2, <2>3
  <2>5. FailedLoadKeepsParts'
    BY <2>2, <2>3 DEF FailedLoadKeepsParts, Failed
  <2>6. QED
    BY <2>2, <2>3, <2>4, <2>5 DEF IInv, TypeInv
<1>3. ASSUME NEW v \in Values, RunFrame(v) PROVE IInv'
  <2>1. [p \in Parts |-> v] \in [Parts -> Nat] /\ v \in Nat
    BY ValuesAssumption
  <2>2. m' \in Machines
    BY <1>0, <1>3, <2>1 DEF RunFrame, Machines
  <2>3. QED
    BY <1>0, <1>3, <2>2 DEF RunFrame, IInv, TypeInv, FailedLoadKeepsParts, Failed
<1>4. CASE UseOde
  <2>1. m' \in Machines
    BY <1>0, <1>4 DEF UseOde, Machines
  <2>2. QED
    BY <1>0, <1>4, <2>1 DEF UseOde, IInv, TypeInv, FailedLoadKeepsParts, Failed
<1>5. CASE UNCHANGED vars
  BY <1>5 DEF vars, IInv, TypeInv, FailedLoadKeepsParts, Failed
<1>6. QED
  BY <1>1, <1>2, <1>3, <1>4, <1>5 DEF Next

\* The invariant holds in every state of every behaviour.
LEMMA Invariance == Spec => []IInv
BY InitIInv, NextIInv, PTL DEF Spec

\* A load that fails at any chunk, in any format, into any machine, leaves every
\* part a save state holds and the configuration as they were: a file that
\* validates does not fail, and any other one is loaded over a backup, which
\* loads in full whatever the failed load left (retro_unserialize).
THEOREM FailedLoadKeeps == Spec => []FailedLoadKeepsParts
<1>1. IInv => FailedLoadKeepsParts
  BY DEF IInv
<1>2. QED
  BY <1>1, Invariance, PTL

\* A load that is reported to have worked is the whole file, for every machine,
\* file and configuration (opera_3do_state_load).
THEOREM LoadedIsWhole == Spec => []LoadedIsTheFile
<1>1. IInv => LoadedIsTheFile
  <2> SUFFICES ASSUME IInv, NEW f \in Loadable, Unserialize(m, f).ok
               PROVE  LET r == Unserialize(m, f)
                          c == Chunks(f)
                      IN  /\ \A p \in Parts :
                               r.d.parts[p] = IF p \in c THEN f.parts[p]
                                              ELSE IF p = "prng" THEN m.parts[p]
                                              ELSE 0
                          /\ r.d.cfg = f.cfg /\ ~r.d.ode
                          /\ r.d.legacy <=> f.version = "V1"
    BY DEF LoadedIsTheFile
  <2>1. f \in Files /\ m \in Machines
    BY LoadableFacts DEF IInv, TypeInv
  <2>2. Unserialize(m, f) = opera_3do_state_load(m, f) /\ opera_3do_state_load(m, f).ok
    BY <2>1, UnserializeFacts
  <2>3. QED
    BY <2>1, <2>2, LoadFacts
<1>2. QED
  BY <1>1, Invariance, PTL

\* A state that validates is one the load accepts in full, for every machine it
\* could be loaded into (opera_3do_state_validate, retro_unserialize).
THEOREM ValidatedIsLoaded == Spec => []ValidatedLoads
<1>1. IInv => ValidatedLoads
  <2> SUFFICES ASSUME IInv, NEW f \in Loadable, opera_3do_state_validate(m, f)
               PROVE  opera_3do_state_load(m, f).ok
    BY DEF ValidatedLoads
  <2>1. f \in Files /\ m \in Machines
    BY LoadableFacts DEF IInv, TypeInv
  <2>2. QED
    BY <2>1, ValidateFacts, LoadFacts
<1>2. QED
  BY <1>1, Invariance, PTL
=============================================================================
