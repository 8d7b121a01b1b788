------------------------- MODULE ConfigStore_proofs -------------------------
(***************************************************************************)
(* Proofs about ConfigStore, for configurations of any number of parts,    *)
(* any place of the mark before the last part, any files and any packets.  *)
(*                                                                         *)
(* The argument: whatever an action does, the sector changes in one of     *)
(* four ways: not at all, to all of what was to be saved, to the front of  *)
(* it, or its own front is cleared (StoreStep).  From this follow the      *)
(* types and what a marked sector holds.  Resets, addresses and restores   *)
(* have an inductive invariant each: FinalInv, KeptInv, UploadInv.         *)
(***************************************************************************)
EXTENDS ConfigStore, TLAPS

Configs == [Part -> Valid \cup {Zero, Junk, Erased}]

\* TypeOK as a list.
LEMMA Typed ==
    TypeOK <=>
       /\ on \in BOOLEAN /\ cache \in Configs /\ sector \in Configs /\ saved \in Configs
       /\ nv \in [mac : Macs \cup {DefaultMac, SpareMac, Unset, NoMac}, serial : BOOLEAN]
       /\ result \in {-1, 0, 1} /\ page \in {"none", "silent", "restored", "failed"}
       /\ upload \in [file : Files \cup {<<>>}, sent : Nat, alone : BOOLEAN]
       /\ upload.sent =< Size(upload.file)
       /\ given \in Macs \cup {Unset} /\ wiped \in BOOLEAN /\ sound \in BOOLEAN
  BY DEF TypeOK, Configs

-----------------------------------------------------------------------------
(* Saving                                                                  *)

\* The first k parts of c on erased flash.
Front(c, k) == [p \in Part |-> IF p =< k THEN c[p] ELSE Erased]

\* Configuration c with its first k parts cleared.
Cleared(c, k) == [p \in Part |-> IF p =< k THEN Zero ELSE c[p]]

\* The names of contents are names of different contents.
LEMMA Contents ==
    /\ Default \in Valid /\ Default \notin Settings
    /\ Zero \notin Valid /\ Junk \notin Valid /\ Erased \notin Valid
    /\ Zero \notin Settings /\ Junk \notin Settings /\ Erased \notin Settings
    /\ Zero /= Erased
  BY ConfigAssumption DEF Valid, Default, Zero, Junk, Erased, Scrap

\* The mark is a part like others, neither the first nor the last.
LEMMA Places ==
    /\ N \in Nat /\ MarkPart \in Part /\ MarkPart /= 1 /\ MarkPart /= LogPart
    /\ LogPart \in Part /\ 1 \in Part /\ N > 2
  BY ConfigAssumption DEF Part, LogPart

\* What is written to erased flash is the front of the configuration.
LEMMA WriteToBlank ==
    ASSUME NEW c \in Configs, NEW k \in Nat
    PROVE  Write(Blank, c, k) = Front(c, k)
  BY DEF Write, Blank, Content, Program, Front

\* A save stores the whole configuration.
LEMMA SaveStores ==
    ASSUME NEW c \in Configs, Save(c)
    PROVE  sector' = c /\ saved' = c
<1>1. Write(Blank, c, N) = Front(c, N)
  BY WriteToBlank, Places
<1>2. Front(c, N) = c
  BY DEF Front, Part, Configs
<1> QED BY <1>1, <1>2 DEF Save

\* A save that is cut off stores a front.
LEMMA CutSaveStores ==
    ASSUME NEW c \in Configs, SaveBreaks(c)
    PROVE  saved' = c /\ \E k \in 0 .. N - 1 : sector' = Front(c, k)
<1>1. PICK k \in 0 .. N - 1 : sector' = Write(Blank, c, k)
  BY DEF SaveBreaks
<1>2. sector' = Front(c, k)
  BY <1>1, WriteToBlank, Places
<1> QED BY <1>2 DEF SaveBreaks

\* Zeros can be written over anything.
LEMMA ClearsClear ==
    ASSUME NEW k \in Part, Clears(k)
    PROVE  sector' = Cleared(sector, k)
  BY DEF Clears, Write, Content, Program, Cleared

\* Fronts and cleared configurations are configurations.
LEMMA FrontsAreConfigs ==
    ASSUME NEW c \in Configs, NEW k \in Int
    PROVE  Front(c, k) \in Configs /\ Cleared(c, k) \in Configs
  BY DEF Front, Cleared, Configs

\* All defaults is a configuration, and so is nothing.
LEMMA UniformConfigs ==
    /\ Content(Default) \in Configs /\ Content(Zero) \in Configs /\ Blank \in Configs
  BY Contents DEF Content, Configs, Blank

\* What a log entry leaves.
LEMMA LoggedIsConfig ==
    ASSUME NEW c \in Configs, NEW s \in Settings, NEW p \in Part
    PROVE  [c EXCEPT ![p] = s] \in Configs
  BY DEF Configs, Valid

-----------------------------------------------------------------------------
(* Receiving                                                               *)

\* Files are sequences of parts, and so is none.
LEMMA FilesAreSequences ==
    ASSUME NEW f \in Files \cup {<<>>}
    PROVE  f \in Seq(Valid \cup {Zero, Junk})
<1>1. CASE f = <<>>
  BY <1>1
<1>2. CASE f \in Files
  <2>1. Files \subseteq Seq(Valid \cup {Zero, Junk})
    BY ConfigAssumption, Zenon
  <2> QED BY <1>2, <2>1, Zenon
<1> QED BY <1>1, <1>2

\* What is sent is no erased flash.
LEMMA SentTypes ==
    ASSUME NEW f \in Files \cup {<<>>}, NEW p \in Part
    PROVE  Sent(f, p) \in Valid \cup {Zero, Junk}
<1>1. f \in Seq(Valid \cup {Zero, Junk})
  BY FilesAreSequences
<1>2. CASE p =< Len(f)
  BY <1>1, <1>2, p \in 1 .. Len(f), Places DEF Sent, Part
<1>3. CASE ~(p =< Len(f))
  BY <1>3 DEF Sent
<1> QED BY <1>2, <1>3

\* The length of a file, and of what is sent for it.
LEMMA FileSizes ==
    ASSUME NEW f \in Files \cup {<<>>}
    PROVE  Len(f) \in Nat /\ Size(f) \in Nat /\ Size(f) > Len(f) /\ Size(<<>>) > 0
<1>1. f \in Seq(Valid \cup {Zero, Junk})
  BY FilesAreSequences
<1>2. TrailerLen \in Nat /\ TrailerLen > 0
  BY ConfigAssumption
<1> QED BY <1>1, <1>2 DEF Size

\* Parts of a file turn a configuration into a configuration.
LEMMA CfgSetTypes ==
    ASSUME NEW c \in Configs, NEW f \in Files \cup {<<>>}, NEW s \in Int, NEW n \in Int
    PROVE  CfgSet(c, f, s, n) \in Configs
  BY SentTypes DEF CfgSet, Configs

\* A first piece leaves a configuration in the cache.
LEMMA FirstPieceTypes ==
    ASSUME cache \in Configs, result \in {-1, 0, 1}, NEW f \in Files, NEW n \in Int,
           FirstPiece(f, n)
    PROVE  cache' \in Configs /\ result' \in {-1, 0} /\ page' \in {"silent", "failed"}
  BY CfgSetTypes, CfgSet(cache, f, 0, n) \in Configs DEF FirstPiece

\* A later piece leaves a configuration in the cache.
LEMMA RestoredTypes ==
    ASSUME TypeOK, NEW n \in Nat
    PROVE  Restored(n) \in Configs /\ ResultNow(n) \in {-1, 0, 1}
<1>1. cache \in Configs /\ upload.file \in Files \cup {<<>>} /\ upload.sent \in Nat
      /\ result \in {-1, 0, 1}
  BY Typed
<1>2. CfgSet(cache, upload.file, upload.sent, n) \in Configs
  BY <1>1, CfgSetTypes
<1> QED BY <1>1, <1>2 DEF Restored, ResultNow

\* Packets are not empty.
LEMMA Chunks == \A n \in 1 .. MaxChunk : n \in Nat /\ n > 0 /\ n < N
  BY ConfigAssumption

-----------------------------------------------------------------------------
(* What an action does to the cache and the sector                         *)

\* No action leaves anything but a configuration in the cache.
LEMMA CacheTyped ==
    ASSUME TypeOK, [Next]_vars
    PROVE  cache' \in Configs
<1>1. cache \in Configs /\ sector \in Configs /\ upload.file \in Files \cup {<<>>}
      /\ upload.sent \in Nat /\ result \in {-1, 0, 1}
  BY Typed
<1>2. CASE Start
  BY <1>1, <1>2, UniformConfigs DEF Start, StartsWith
<1>3. CASE Runs
  <2>1. CASE \E p \in Part \ {1, MarkPart, LogPart}, s \in Settings : Set(p, s)
    <3>1. PICK p \in Part, s \in Settings : cache' = [cache EXCEPT ![p] = s]
      BY <2>1 DEF Set
    <3> QED BY <1>1, <3>1, LoggedIsConfig
  <2>2. CASE SavePage \/ \E m \in Macs : SetMac(m)
    BY <1>1, <2>2 DEF SavePage, SetMac
  <2>3. CASE \E s \in Settings : LogEntry(s)
    BY <1>1, <2>3, LoggedIsConfig, Places DEF LogEntry, Logged
  <2>4. CASE (\E s \in Settings : RebootPage(s)) \/ LoaderMode \/ Reset
    BY <2>4, UniformConfigs DEF RebootPage, LoaderMode, Reset, Off
  <2> QED BY <1>3, <2>1, <2>2, <2>3, <2>4 DEF Runs
<1>4. CASE Receive
  <2>1. CASE \E f \in Files, n \in 1 .. MaxChunk : RestoreBegins(f, n)
    BY <1>1, <2>1, FirstPieceTypes, Chunks DEF RestoreBegins
  <2>2. CASE \E f \in Files : ShortRestore(f)
    BY <1>1, <2>2, FirstPieceTypes, FileSizes DEF ShortRestore
  <2>3. CASE \E n \in 1 .. MaxChunk : Piece(n)
    BY <2>3, RestoredTypes, Chunks DEF Piece
  <2>4. CASE Drop
    BY <1>1, <2>4 DEF Drop
  <2> QED BY <1>4, <2>1, <2>2, <2>3, <2>4 DEF Receive
<1>5. CASE Breaks
  BY <1>1, <1>5, UniformConfigs
     DEF Breaks, PowerFails, StartBreaks, SetMacBreaks, ResetBreaks, SavingBreaks, Off
<1>6. CASE UNCHANGED vars
  BY <1>1, <1>6 DEF vars
<1> QED BY <1>2, <1>3, <1>4, <1>5, <1>6 DEF Next

\* The four ways in which the sector changes.
Kept == UNCHANGED <<sector, saved>>
Stored == \E c \in Configs : sector' = c /\ saved' = c
Cut == \E c \in Configs, k \in 0 .. N - 1 : sector' = Front(c, k) /\ saved' = c
FrontCleared == \E k \in Part : sector' = Cleared(sector, k) /\ UNCHANGED saved

\* Every action changes the sector in one of them.
LEMMA StoreStep ==
    ASSUME TypeOK, [Next]_vars
    PROVE  Kept \/ Stored \/ Cut \/ FrontCleared
<1>1. cache \in Configs /\ cache' \in Configs /\ Content(Default) \in Configs
  BY Typed, CacheTyped, UniformConfigs
<1>2. CASE Start
  BY <1>1, <1>2, SaveStores DEF Start, StartsWith, Kept, Stored
<1>3. CASE Runs
  <2>1. CASE (\E p \in Part \ {1, MarkPart, LogPart}, s \in Settings : Set(p, s))
             \/ \E m \in Macs : SetMac(m)
    BY <2>1 DEF Set, SetMac, flashVars, Kept
  <2>2. CASE SavePage \/ LoaderMode \/ Reset
    BY <1>1, <2>2, SaveStores DEF SavePage, LoaderMode, Reset, Stored
  <2>3. CASE \E s \in Settings : LogEntry(s)
    BY <1>1, <2>3, SaveStores DEF LogEntry, Stored, Kept
  <2>4. CASE \E s \in Settings : RebootPage(s)
    BY <1>1, <2>4, SaveStores, LoggedIsConfig, Places DEF RebootPage, Logged, Stored, Kept
  <2> QED BY <1>3, <2>1, <2>2, <2>3, <2>4 DEF Runs
<1>4. CASE Receive
  <2>1. CASE (\E f \in Files, n \in 1 .. MaxChunk : RestoreBegins(f, n))
             \/ (\E f \in Files : ShortRestore(f)) \/ Drop
    BY <2>1 DEF RestoreBegins, ShortRestore, Drop, flashVars, Kept
  <2>2. CASE \E n \in 1 .. MaxChunk : Piece(n)
    BY <1>1, <2>2, SaveStores DEF Piece, Stored, Kept
  <2> QED BY <1>4, <2>1, <2>2 DEF Receive
<1>5. CASE Breaks
  <2>1. CASE PowerFails \/ SetMacBreaks
    BY <2>1 DEF PowerFails, SetMacBreaks, flashVars, Kept
  <2>2. CASE StartBreaks
    BY <1>1, <2>2, SaveStores, CutSaveStores
       DEF StartBreaks, InitBreaks, IdentifyBreaks, Kept, Stored, Cut
  <2>3. CASE ResetBreaks
    BY <1>1, <2>3, CutSaveStores, ClearsClear DEF ResetBreaks, FrontCleared, Cut
  <2>4. CASE SavingBreaks
    <3>1. CASE SaveBreaks(cache)
      BY <1>1, <3>1, CutSaveStores DEF Cut
    <3>2. CASE \E s \in Settings : SaveBreaks(Logged(s))
      BY <1>1, <3>2, CutSaveStores, LoggedIsConfig, Places DEF Logged, Cut
    <3>3. CASE \E n \in 1 .. MaxChunk : SaveBreaks(Restored(n))
      BY <3>3, CutSaveStores, RestoredTypes, Chunks DEF Cut
    <3> QED BY <2>4, <3>1, <3>2, <3>3 DEF SavingBreaks
  <2> QED BY <1>5, <2>1, <2>2, <2>3, <2>4 DEF Breaks
<1>6. CASE UNCHANGED vars
  BY <1>6 DEF vars, flashVars, Kept
<1> QED BY <1>2, <1>3, <1>4, <1>5, <1>6 DEF Next

-----------------------------------------------------------------------------
(* Types                                                                   *)

\* Of what a restore keeps.
RestoreTyped ==
    /\ result \in {-1, 0, 1} /\ page \in {"none", "silent", "restored", "failed"}
    /\ upload \in [file : Files \cup {<<>>}, sent : Nat, alone : BOOLEAN]
    /\ upload.sent =< Size(upload.file)

\* Of the address and of the history.
AddressTyped ==
    /\ nv \in [mac : Macs \cup {DefaultMac, SpareMac, Unset, NoMac}, serial : BOOLEAN]
    /\ given \in Macs \cup {Unset} /\ wiped \in BOOLEAN /\ sound \in BOOLEAN /\ on \in BOOLEAN

\* No upload.
LEMMA NoUploadTyped ==
    NoUpload \in [file : Files \cup {<<>>}, sent : Nat, alone : BOOLEAN]
    /\ NoUpload.sent =< Size(NoUpload.file)
  BY FileSizes DEF NoUpload

\* What a step beside an upload and a restart leave of it.
LEMMA BesideTyped ==
    ASSUME TypeOK, Beside \/ Off
    PROVE  RestoreTyped'
<1>1. RestoreTyped
  BY Typed DEF RestoreTyped
<1>2. CASE Beside
  BY <1>1, <1>2, NoUploadTyped DEF Beside, RestoreTyped
<1>3. CASE Off
  BY <1>3, NoUploadTyped DEF Off, RestoreTyped
<1> QED BY <1>2, <1>3

\* Every step keeps the types of the restore.
LEMMA RestoreStep ==
    ASSUME TypeOK, [Next]_vars
    PROVE  RestoreTyped'
<1>1. RestoreTyped /\ cache \in Configs
  BY Typed DEF RestoreTyped
<1>2. CASE UNCHANGED restoreVars
  BY <1>1, <1>2 DEF restoreVars, RestoreTyped
<1>3. CASE Runs
  BY <1>3, BesideTyped
     DEF Runs, Set, SavePage, LogEntry, SetMac, RebootPage, LoaderMode, Reset
<1>4. CASE Receive
  <2>1. ASSUME NEW f \in Files, NEW n \in 1 .. MaxChunk, RestoreBegins(f, n)
        PROVE  RestoreTyped'
    <3>1. n \in Nat /\ Size(f) \in Nat
      BY Chunks, FileSizes
    <3>2. result' \in {-1, 0} /\ page' \in {"silent", "failed"}
      BY <1>1, <2>1, <3>1, FirstPieceTypes DEF RestoreBegins, RestoreTyped
    <3> QED BY <2>1, <3>1, <3>2 DEF RestoreBegins, RestoreTyped
  <2>2. ASSUME NEW f \in Files, ShortRestore(f)
        PROVE  RestoreTyped'
    <3>1. result' \in {-1, 0} /\ page' \in {"silent", "failed"}
      BY <1>1, <2>2, FileSizes, FirstPieceTypes DEF ShortRestore, RestoreTyped
    <3> QED BY <1>1, <2>2, <3>1, NoUploadTyped DEF ShortRestore, RestoreTyped
  <2>3. ASSUME NEW n \in 1 .. MaxChunk, Piece(n)
        PROVE  RestoreTyped'
    <3>1. n \in Nat /\ result' \in {-1, 0, 1}
      BY <2>3, Chunks, RestoredTypes DEF Piece
    <3>2. page' \in {"silent", "restored", "failed"}
      BY <2>3 DEF Piece
    <3> QED BY <1>1, <2>3, <3>1, <3>2 DEF Piece, RestoreTyped
  <2>4. CASE Drop
    BY <1>1, <2>4, NoUploadTyped DEF Drop, RestoreTyped
  <2> QED BY <1>4, <2>1, <2>2, <2>3, <2>4 DEF Receive
<1>5. CASE Start \/ StartBreaks
  BY <1>2, <1>5 DEF Start, StartBreaks
<1>6. CASE PowerFails \/ SetMacBreaks \/ ResetBreaks \/ SavingBreaks
  BY <1>6, BesideTyped DEF PowerFails, SetMacBreaks, ResetBreaks, SavingBreaks
<1>7. CASE UNCHANGED vars
  BY <1>2, <1>7 DEF vars
<1> QED BY <1>3, <1>4, <1>5, <1>6, <1>7 DEF Next, Breaks

\* Every step keeps the types of the address and of the history.
LEMMA AddressStep ==
    ASSUME TypeOK, [Next]_vars
    PROVE  AddressTyped'
<1>1. AddressTyped
  BY Typed DEF AddressTyped
<1>2. \A x : Identified(x) \in Macs \cup {Unset}
  BY ConfigAssumption DEF Identified
<1>lost. NvLost \in [mac : Macs \cup {DefaultMac, SpareMac, Unset, NoMac}, serial : BOOLEAN]
  BY DEF NvLost
<1>3. CASE Start
  BY <1>1, <1>2, <1>3 DEF AddressTyped, Start, StartsWith
<1>4. CASE Runs
  BY <1>1, <1>4
     DEF AddressTyped, Runs, Set, SavePage, LogEntry, SetMac, RebootPage, LoaderMode, Reset,
         ResetMac, flashVars, Off
<1>5. CASE Receive
  <2>1. nv' = nv /\ given' = given /\ on' = on
    BY <1>5 DEF Receive, RestoreBegins, ShortRestore, Piece, Drop, flashVars
  <2>2. wiped' \in BOOLEAN /\ sound' \in BOOLEAN
    <3>1. wiped \in BOOLEAN /\ sound \in BOOLEAN
      BY <1>1 DEF AddressTyped
    <3> QED BY <1>5, <3>1, Zenon DEF Receive, RestoreBegins, ShortRestore, Piece, Drop, Touched
  <2> QED BY <1>1, <2>1, <2>2 DEF AddressTyped
<1>6. CASE StartBreaks
  <2>1. nv' = NvLost \/ nv' = [nv EXCEPT !.mac = DefaultMac] \/ nv' = [nv EXCEPT !.mac = SpareMac]
    BY <1>6, Zenon DEF StartBreaks, InitBreaks, IdentifyBreaks
  <2>2. on' = on /\ given' = given /\ wiped' = wiped /\ sound' = FALSE
    BY <1>6, Zenon DEF StartBreaks
  <2> QED BY <1>1, <1>lost, <2>1, <2>2 DEF AddressTyped
<1>7. CASE PowerFails \/ SetMacBreaks \/ ResetBreaks \/ SavingBreaks
  <2>1. nv' = nv \/ nv' = NvLost
    BY <1>7 DEF PowerFails, SetMacBreaks, ResetBreaks, SavingBreaks, flashVars
  <2>2. given' = given /\ on' = FALSE
    BY <1>7 DEF PowerFails, SetMacBreaks, ResetBreaks, SavingBreaks, Off
  <2>3. wiped' \in BOOLEAN /\ sound' \in BOOLEAN
    <3>1. wiped \in BOOLEAN /\ sound \in BOOLEAN
      BY <1>1 DEF AddressTyped
    <3> QED BY <1>7, <3>1, Zenon DEF PowerFails, SetMacBreaks, ResetBreaks, SavingBreaks
  <2> QED BY <1>1, <1>lost, <2>1, <2>2, <2>3 DEF AddressTyped
<1>8. CASE UNCHANGED vars
  BY <1>1, <1>8 DEF vars, flashVars, AddressTyped
<1> QED BY <1>3, <1>4, <1>5, <1>6, <1>7, <1>8 DEF Next, Breaks

\* Every step leaves configurations in the flash.
LEMMA SectorTyped ==
    ASSUME TypeOK, [Next]_vars
    PROVE  sector' \in Configs /\ saved' \in Configs
<1>1. sector \in Configs /\ saved \in Configs
  BY Typed
<1>2. CASE Kept \/ Stored
  BY <1>1, <1>2 DEF Kept, Stored
<1>3. CASE Cut
  <2>1. PICK c \in Configs, k \in 0 .. N - 1 : sector' = Front(c, k) /\ saved' = c
    BY <1>3 DEF Cut
  <2> QED BY <2>1, k \in Int, FrontsAreConfigs
<1>4. CASE FrontCleared
  <2>1. PICK k \in Part : sector' = Cleared(sector, k) /\ saved' = saved
    BY <1>4 DEF FrontCleared
  <2>2. k \in Int
    BY Places DEF Part
  <2> QED BY <1>1, <2>1, <2>2, FrontsAreConfigs
<1> QED BY <1>2, <1>3, <1>4, StoreStep

\* The initial state has the types.
LEMMA InitTyped == Init => TypeOK
<1> SUFFICES ASSUME Init PROVE TypeOK
  OBVIOUS
<1>1. cache \in Configs /\ sector \in Configs /\ saved \in Configs
  BY UniformConfigs DEF Init
<1> QED BY <1>1, NoUploadTyped, Typed DEF Init

\* Every step keeps them.
LEMMA TypeStep ==
    ASSUME TypeOK, [Next]_vars
    PROVE  TypeOK'
<1>1. cache' \in Configs /\ sector' \in Configs /\ saved' \in Configs
  BY CacheTyped, SectorTyped
<1>2. RestoreTyped' /\ AddressTyped'
  BY RestoreStep, AddressStep
<1> QED BY <1>1, <1>2 DEF TypeOK, RestoreTyped, AddressTyped, Configs

\* The variables keep their ranges; no part of the flash is ever programmed twice
\* without an erase in between, whatever is cut off where (salflash.c:2351-2364).
THEOREM TypeCorrect == Spec => []TypeOK
  BY InitTyped, TypeStep, PTL DEF Spec

-----------------------------------------------------------------------------
(* Saved configurations                                                    *)

\* The initial sector is blank.
LEMMA InitUnmarked == Init => ~MarkOk(sector)
  BY Contents, Places DEF Init, Blank, Content, MarkOk

\* In each of the four ways the marked sector stays what was to be saved.
LEMMA MarkedStep ==
    ASSUME TypeOK, MarkedIsSaved, [Next]_vars
    PROVE  MarkedIsSaved'
<1> SUFFICES ASSUME MarkOk(sector)', NEW p \in Part
             PROVE  \/ sector'[p] = saved'[p]
                    \/ sector'[p] = Zero
                    \/ sector'[p] = Erased /\ p > MarkPart
  BY DEF MarkedIsSaved
<1>1. sector'[MarkPart] \in Valid
  BY DEF MarkOk
<1>2. CASE Kept
  BY <1>1, <1>2 DEF Kept, MarkedIsSaved, MarkOk
<1>3. CASE Stored
  BY <1>3 DEF Stored
<1>4. CASE Cut
  <2>1. PICK c \in Configs, k \in 0 .. N - 1 : sector' = Front(c, k) /\ saved' = c
    BY <1>4 DEF Cut
  <2>2. MarkPart =< k
    BY <1>1, <2>1, Places, Contents DEF Front
  <2> QED BY <2>1, <2>2, Places DEF Front, Part
<1>5. CASE FrontCleared
  <2>1. PICK k \in Part : sector' = Cleared(sector, k) /\ saved' = saved
    BY <1>5 DEF FrontCleared
  <2>2. sector[MarkPart] \in Valid
    BY <1>1, <2>1, Places, Contents DEF Cleared
  <2> QED BY <2>1, <2>2 DEF Cleared, MarkedIsSaved, MarkOk
<1> QED BY <1>2, <1>3, <1>4, <1>5, StoreStep

\* What a start takes for a configuration is what was last to be saved, but for a
\* front that a reset cleared and a tail behind the mark (salsys.c:81-110).
THEOREM MarkedSectorIsSaved == Spec => []MarkedIsSaved
<1>1. Init => MarkedIsSaved
  BY InitUnmarked DEF MarkedIsSaved
<1> QED BY <1>1, MarkedStep, TypeCorrect, PTL DEF Spec

-----------------------------------------------------------------------------
(* Resets                                                                  *)

\* None of the settings in configuration c.
Clean(c) == \A p \in Part : c[p] \notin Settings

\* After a reset no setting is in the cache, nor in a sector that a start would use.
FinalInv == wiped => (on => Clean(cache)) /\ (MarkOk(sector) => Clean(sector))

\* Defaults, fronts of them and cleared configurations are clean.
LEMMA CleanContents ==
    /\ Clean(Content(Default))
    /\ \A k : Clean(Front(Content(Default), k))
    /\ \A c, k : Clean(c) => Clean(Cleared(c, k))
  BY Contents DEF Clean, Content, Front, Cleared

\* A step of the running switch, or a start, keeps it.
LEMMA RunsFinal ==
    ASSUME TypeOK, FinalInv, Start \/ Runs
    PROVE  FinalInv'
<1>1. cache \in Configs /\ sector \in Configs /\ Content(Default) \in Configs
  BY Typed, UniformConfigs
<1>2. CASE Start
  <2>1. CASE MarkOk(sector)
    BY <1>2, <2>1 DEF Start, StartsWith, FinalInv, Clean, MarkOk
  <2>2. CASE ~MarkOk(sector)
    <3>1. cache' = Content(Default) /\ sector' = Content(Default)
      BY <1>1, <1>2, <2>2, SaveStores DEF Start, StartsWith
    <3> QED BY <3>1, CleanContents DEF FinalInv, Clean, MarkOk
  <2> QED BY <2>1, <2>2
<1>3. CASE SavePage
  <2>1. on /\ cache' = cache /\ sector' = cache /\ wiped' = wiped
    BY <1>1, <1>3, SaveStores DEF SavePage
  <2> QED BY <2>1 DEF FinalInv, Clean, MarkOk
<1>4. CASE LoaderMode
  <2>1. on /\ ~on' /\ sector' = cache /\ wiped' = wiped
    BY <1>1, <1>4, SaveStores DEF LoaderMode, Off
  <2> QED BY <2>1 DEF FinalInv, Clean, MarkOk
<1>5. CASE Reset
  <2>1. ~on' /\ sector' = Content(Default)
    BY <1>1, <1>5, SaveStores DEF Reset, Off
  <2> QED BY <2>1, CleanContents DEF FinalInv, Clean, MarkOk
<1>6. CASE \E m \in Macs : SetMac(m)
  BY <1>6 DEF SetMac, FinalInv, Clean, MarkOk
<1>7. CASE ~wiped'
  BY <1>7 DEF FinalInv
<1>8. (\E p \in Part \ {1, MarkPart, LogPart}, s \in Settings : Set(p, s))
      \/ (\E s \in Settings : LogEntry(s) \/ RebootPage(s)) => ~wiped'
  BY DEF Set, LogEntry, RebootPage
<1> QED BY <1>2, <1>3, <1>4, <1>5, <1>6, <1>7, <1>8 DEF Runs

\* A piece of an upload keeps it.
LEMMA ReceiveFinal ==
    ASSUME TypeOK, FinalInv, Receive
    PROVE  FinalInv'
<1>1. cache \in Configs
  BY Typed
<1>2. CASE cache' = cache /\ sector' = sector /\ on' = on /\ wiped' = wiped
  BY <1>2 DEF FinalInv, Clean, MarkOk
<1>3. CASE ~wiped'
  BY <1>3 DEF FinalInv
<1>4. ASSUME NEW f \in Files, (\E n \in 1 .. MaxChunk : RestoreBegins(f, n)) \/ ShortRestore(f)
      PROVE  FinalInv'
  <2>1. CASE Signed(f)
    BY <1>3, <1>4, <2>1 DEF RestoreBegins, ShortRestore, Touched
  <2>2. CASE ~Signed(f)
    <3>1. wiped' = (wiped /\ TRUE)
      BY <1>4, <2>2 DEF RestoreBegins, ShortRestore, Touched
    <3> QED BY <1>2, <1>3, <1>4, <2>2, <3>1
            DEF RestoreBegins, ShortRestore, FirstPiece, flashVars
  <2> QED BY <2>1, <2>2
<1>5. ASSUME NEW n \in 1 .. MaxChunk, Piece(n)
      PROVE  FinalInv'
  <2>1. CASE Inside
    BY <1>3, <1>5, <2>1 DEF Piece
  <2>2. CASE ~Inside
    <3>1. on /\ on' = on /\ cache' = cache /\ (sector' = sector \/ sector' = cache)
      BY <1>1, <1>5, <2>2, SaveStores DEF Piece, Restored
    <3>2. wiped' => wiped
      BY <1>5 DEF Piece
    <3> QED BY <3>1, <3>2 DEF FinalInv, Clean, MarkOk
  <2> QED BY <2>1, <2>2
<1>6. CASE Drop
  BY <1>2, <1>6 DEF Drop, flashVars
<1> QED BY <1>4, <1>5, <1>6 DEF Receive

\* A power cut keeps it.
LEMMA BreaksFinal ==
    ASSUME TypeOK, FinalInv, Breaks
    PROVE  FinalInv'
<1>1. Content(Default) \in Configs
  BY UniformConfigs
<1>2. CASE PowerFails \/ SetMacBreaks
  BY <1>2 DEF PowerFails, SetMacBreaks, flashVars, Off, FinalInv, Clean, MarkOk
<1>3. CASE StartBreaks
  <2>1. on' = on /\ ~on /\ wiped' = wiped
    BY <1>3 DEF StartBreaks
  <2>2. CASE sector' = sector
    BY <2>1, <2>2 DEF FinalInv, Clean, MarkOk
  <2>3. CASE Save(Content(Default)) \/ SaveBreaks(Content(Default))
    <3>1. Clean(sector)'
      BY <1>1, <2>3, SaveStores, CutSaveStores, CleanContents DEF Clean
    <3> QED BY <2>1, <3>1 DEF FinalInv, Clean
  <2> QED BY <1>3, <2>2, <2>3 DEF StartBreaks, InitBreaks, IdentifyBreaks
<1>4. CASE ResetBreaks
  <2>1. ~on'
    BY <1>4 DEF ResetBreaks, Off
  <2>2. ASSUME NEW k \in Part, Clears(k), wiped' = (wiped \/ k >= MarkPart)
        PROVE  FinalInv'
    <3>1. sector' = Cleared(sector, k)
      BY <2>2, ClearsClear
    <3>2. CASE k >= MarkPart
      <4>1. ~MarkOk(sector)'
        BY <3>1, <3>2, Places, Contents DEF Cleared, MarkOk
      <4> QED BY <2>1, <4>1 DEF FinalInv
    <3>3. CASE ~(k >= MarkPart)
      <4>1. MarkOk(sector)' => MarkOk(sector)
        BY <3>1, <3>3, Places DEF Cleared, MarkOk, Part
      <4>2. Clean(sector) => Clean(sector)'
        BY <3>1, CleanContents DEF Clean
      <4>3. wiped' => wiped
        BY <2>2, <3>3
      <4> QED BY <2>1, <4>1, <4>2, <4>3 DEF FinalInv
    <3> QED BY <3>2, <3>3
  <2>3. CASE SaveBreaks(Content(Default))
    <3>1. Clean(sector)'
      BY <1>1, <2>3, CutSaveStores, CleanContents DEF Clean
    <3> QED BY <2>1, <3>1 DEF FinalInv
  <2> QED BY <1>4, <2>2, <2>3 DEF ResetBreaks
<1>5. CASE SavingBreaks
  BY <1>5 DEF SavingBreaks, FinalInv
<1> QED BY <1>2, <1>3, <1>4, <1>5 DEF Breaks

\* After a reset to the factory defaults no old setting comes back, wherever the
\* power fails, once the mark is cleared (salflash.c:2378-2403).
THEOREM ResetStaysFinal == Spec => []ResetIsFinal
<1>1. Init => FinalInv
  BY DEF Init, FinalInv
<1>2. TypeOK /\ FinalInv /\ [Next]_vars => FinalInv'
  <2>1. ASSUME TypeOK, FinalInv, UNCHANGED vars
        PROVE  FinalInv'
    BY <2>1 DEF vars, flashVars, FinalInv, Clean, MarkOk
  <2> QED BY <2>1, RunsFinal, ReceiveFinal, BreaksFinal DEF Next
<1>3. FinalInv => ResetIsFinal
  BY DEF FinalInv, ResetIsFinal, Clean
<1> QED BY <1>1, <1>2, <1>3, TypeCorrect, PTL DEF Spec

-----------------------------------------------------------------------------
(* What survives while no power cut hits the flash                         *)

\* The address and the serial number.
AddressKept == nv.serial /\ (given \in Own => nv.mac = given)

\* The sector, which is initialised once the switch runs or an address was given.
SectorKept ==
    /\ sector \in {saved, Blank}
    /\ on => MarkOk(cache)
    /\ on \/ given /= Unset => MarkOk(sector)

\* An upload that goes to the cache is a configuration.
UploadWhole == Open /\ result /= -1 => Whole(upload.file)

KeptInv == sound => AddressKept /\ SectorKept /\ UploadWhole

\* No step repairs what a power cut has broken.
LEMMA SoundStep == [Next]_vars => (sound' => sound)
<1>1. Receive => (sound' => sound)
  BY Zenon DEF Receive, RestoreBegins, ShortRestore, Piece, Drop, Touched
<1> QED BY <1>1
        DEF Next, Start, Runs, Set, SavePage, LogEntry, RebootPage, LoaderMode, SetMac, Reset,
            Breaks, PowerFails, StartBreaks, SetMacBreaks, ResetBreaks, SavingBreaks, vars

\* A step beside an upload begins none, and a restart ends it.
LEMMA BesideKeepsWhole ==
    ASSUME TypeOK, UploadWhole, Beside \/ Off
    PROVE  UploadWhole'
<1>1. ~(NoUpload.sent > 0)
  BY DEF NoUpload
<1>2. CASE Off
  BY <1>1, <1>2 DEF Off, UploadWhole, Open
<1>3. CASE Beside /\ Open
  <2>1. upload'.file = upload.file /\ upload'.sent = upload.sent /\ result' = result
    BY <1>3, Typed DEF Beside
  <2> QED BY <2>1 DEF UploadWhole, Open
<1>4. CASE Beside /\ ~Open
  BY <1>1, <1>4 DEF Beside, UploadWhole, Open
<1> QED BY <1>2, <1>3, <1>4

\* The mark in what a file leaves in the cache.
LEMMA MarkAfterFile ==
    ASSUME NEW c \in Configs, MarkOk(c), NEW f \in Files \cup {<<>>}, Whole(f),
           NEW s \in Int, NEW n \in Int
    PROVE  MarkOk(CfgSet(c, f, s, n))
<1>1. Sent(f, MarkPart) \in Valid
  BY Places, FileSizes DEF Whole, Sent, Part
<1> QED BY <1>1, Places DEF MarkOk, CfgSet

\* A start keeps it.
LEMMA StartKeeps ==
    ASSUME TypeOK, KeptInv, sound, Start
    PROVE  AddressKept' /\ SectorKept' /\ UploadWhole'
<1>1. AddressKept /\ SectorKept /\ UploadWhole
  BY DEF KeptInv
<1>2. UploadWhole' /\ on' /\ given' = given
  BY <1>1 DEF Start, restoreVars, UploadWhole, Open
<1>3. /\ sector \in Configs /\ Content(Default) \in Configs
      /\ nv \in [mac : Macs \cup {DefaultMac, SpareMac, Unset, NoMac}, serial : BOOLEAN]
      /\ given \in Macs \cup {Unset}
  BY Typed, UniformConfigs
<1>4. CASE MarkOk(sector)
  <2>1. cache' = sector /\ sector' = sector /\ saved' = saved
        /\ nv' = [nv EXCEPT !.mac = Identified(nv.mac)]
    BY <1>4 DEF Start, StartsWith
  <2>2. SectorKept'
    BY <1>1, <1>2, <1>4, <2>1 DEF SectorKept, MarkOk
  <2>3. ASSUME given \in Own
        PROVE  Identified(nv.mac) = given
    <3>1. nv.mac = given /\ given \notin {NoMac, DefaultMac}
      BY <1>1, <2>3, ConfigAssumption DEF AddressKept
    <3> QED BY <2>3, <3>1 DEF Identified
  <2>4. nv'.mac = Identified(nv.mac) /\ nv'.serial = nv.serial
    BY <1>3, <2>1
  <2> QED BY <1>1, <1>2, <2>2, <2>3, <2>4 DEF AddressKept
<1>5. CASE ~MarkOk(sector)
  <2>1. cache' = Content(Default) /\ sector' = cache' /\ saved' = cache'
        /\ nv' = [nv EXCEPT !.mac = Identified(DefaultMac)]
    BY <1>3, <1>5, SaveStores DEF Start, StartsWith
  <2>2. MarkOk(Content(Default))
    BY Contents, Places DEF MarkOk, Content
  <2>3. given = Unset
    BY <1>1, <1>5 DEF SectorKept
  <2>4. Unset \notin Own /\ nv'.serial = nv.serial
    BY <1>3, <2>1, ConfigAssumption
  <2> QED BY <1>1, <1>2, <2>1, <2>2, <2>3, <2>4 DEF AddressKept, SectorKept, MarkOk
<1> QED BY <1>4, <1>5

\* A marked configuration that is saved, and a sector that stays, keep the sector.
LEMMA MarkedSector ==
    ASSUME SectorKept, on, on' => MarkOk(cache)',
           \/ sector' = sector /\ saved' = saved
           \/ MarkOk(saved') /\ sector' = saved'
    PROVE  SectorKept'
  BY DEF SectorKept, MarkOk

\* A step of the running switch keeps it.
LEMMA RunsKeep ==
    ASSUME TypeOK, KeptInv, sound, Runs
    PROVE  AddressKept' /\ SectorKept' /\ UploadWhole'
<1>1. AddressKept /\ SectorKept /\ UploadWhole
  BY DEF KeptInv
<1>2. on
  BY DEF Runs, Set, SavePage, LogEntry, RebootPage, LoaderMode, SetMac, Reset
<1>3. /\ cache \in Configs /\ Content(Default) \in Configs
      /\ nv \in [mac : Macs \cup {DefaultMac, SpareMac, Unset, NoMac}, serial : BOOLEAN]
  BY Typed, UniformConfigs
<1>4. MarkOk(cache) /\ MarkOk(sector) /\ MarkOk(Content(Default))
  BY <1>1, <1>2, Contents, Places DEF SectorKept, MarkOk, Content
<1>5. UploadWhole'
  BY <1>1, BesideKeepsWhole
     DEF Runs, Set, SavePage, LogEntry, SetMac, RebootPage, LoaderMode, Reset
<1>6. AddressKept'
  <2>1. CASE nv' = nv /\ given' = given
    BY <1>1, <2>1 DEF AddressKept
  <2>2. CASE \E m \in Macs : SetMac(m)
    BY <1>1, <1>3, <2>2 DEF AddressKept, SetMac
  <2>3. CASE Reset
    BY <1>1, <1>3, <2>3 DEF AddressKept, Reset, ResetMac
  <2> QED BY <2>1, <2>2, <2>3
          DEF Runs, Set, SavePage, LogEntry, RebootPage, LoaderMode, flashVars
<1>7. \A s \in Settings : Logged(s) \in Configs /\ MarkOk(Logged(s))
  BY <1>3, <1>4, LoggedIsConfig, Places DEF Logged, MarkOk, Configs
<1>8. SectorKept'
  <2>1. CASE \E p \in Part \ {1, MarkPart, LogPart}, s \in Settings : Set(p, s)
    <3>1. PICK p \in Part \ {1, MarkPart, LogPart}, s \in Settings :
               cache' = [cache EXCEPT ![p] = s] /\ sector' = sector /\ saved' = saved
      BY <2>1 DEF Set, flashVars
    <3>2. cache'[MarkPart] = cache[MarkPart]
      BY <1>3, <3>1, Places DEF Configs
    <3> QED BY <1>1, <1>2, <1>4, <3>1, <3>2, MarkedSector DEF MarkOk
  <2>2. CASE \E m \in Macs : SetMac(m)
    <3>1. cache' = cache /\ sector' = sector /\ saved' = saved
      BY <2>2 DEF SetMac
    <3> QED BY <1>1, <1>2, <1>4, <3>1, MarkedSector DEF MarkOk
  <2>3. CASE SavePage \/ LoaderMode \/ Reset
    <3>1. \/ sector' = cache /\ saved' = cache
          \/ sector' = Content(Default) /\ saved' = Content(Default)
      BY <1>3, <2>3, SaveStores DEF SavePage, LoaderMode, Reset
    <3>2. on' => MarkOk(cache)'
      BY <1>4, <2>3 DEF SavePage, LoaderMode, Reset, Off, MarkOk
    <3> QED BY <1>1, <1>2, <1>4, <3>1, <3>2, MarkedSector
  <2>4. ASSUME NEW s \in Settings, LogEntry(s) \/ RebootPage(s)
        PROVE  SectorKept'
    <3>1. \/ sector' = Logged(s) /\ saved' = Logged(s)
          \/ sector' = sector /\ saved' = saved
      BY <1>7, <2>4, SaveStores DEF LogEntry, RebootPage
    <3>2. on' => MarkOk(cache)'
      BY <1>7, <2>4 DEF LogEntry, RebootPage, Off, MarkOk
    <3> QED BY <1>1, <1>2, <1>7, <3>1, <3>2, MarkedSector
  <2> QED BY <2>1, <2>2, <2>3, <2>4 DEF Runs
<1> QED BY <1>5, <1>6, <1>8

\* A piece of an upload keeps it, if what it leaves counts as sound.
LEMMA ReceiveKeeps ==
    ASSUME TypeOK, KeptInv, sound, sound', Receive
    PROVE  AddressKept' /\ SectorKept' /\ UploadWhole'
<1>1. AddressKept /\ SectorKept /\ UploadWhole
  BY DEF KeptInv
<1>2. /\ cache \in Configs /\ upload.file \in Files \cup {<<>>} /\ upload.sent \in Nat
      /\ result \in {-1, 0, 1}
  BY Typed
<1>3. AddressKept'
  <2>1. nv' = nv /\ given' = given
    BY DEF Receive, RestoreBegins, ShortRestore, Piece, Drop, flashVars
  <2> QED BY <1>1, <2>1 DEF AddressKept
<1>4. ASSUME on, NEW f \in Files, NEW n \in Int, FirstPiece(f, n), Touched(f)
      PROVE  MarkOk(cache)' /\ (result' /= -1 => Whole(f))
  <2>1. MarkOk(cache)
    BY <1>1, <1>4 DEF SectorKept
  <2>2. CASE Signed(f)
    <3>1. Whole(f)
      BY <1>4, <2>2 DEF Touched
    <3>2. MarkOk(CfgSet(cache, f, 0, n))
      BY <1>2, <2>1, <3>1, MarkAfterFile
    <3> QED BY <1>4, <2>2, <3>1, <3>2 DEF FirstPiece, MarkOk
  <2>3. CASE ~Signed(f)
    BY <1>4, <2>1, <2>3 DEF FirstPiece, MarkOk
  <2> QED BY <2>2, <2>3
<1>5. ASSUME NEW f \in Files, NEW n \in 1 .. MaxChunk, RestoreBegins(f, n)
      PROVE  SectorKept' /\ UploadWhole'
  <2>1. on /\ FirstPiece(f, n) /\ Touched(f) /\ n \in Int /\ upload'.file = f
        /\ sector' = sector /\ saved' = saved
    BY <1>5 DEF RestoreBegins, flashVars
  <2>2. MarkOk(cache)' /\ (result' /= -1 => Whole(f))
    BY <1>4, <2>1
  <2> QED BY <1>1, <2>1, <2>2, MarkedSector DEF UploadWhole, SectorKept
<1>6. ASSUME NEW f \in Files, ShortRestore(f)
      PROVE  SectorKept' /\ UploadWhole'
  <2>1. on /\ FirstPiece(f, Size(f)) /\ Touched(f) /\ Size(f) \in Int
        /\ sector' = sector /\ saved' = saved
    BY <1>6, FileSizes DEF ShortRestore, flashVars
  <2>2. MarkOk(cache)' /\ (result' /= -1 => Whole(f))
    BY <1>4, <2>1
  <2>3. Size(f) < N
    BY <1>6, FileSizes, ConfigAssumption DEF ShortRestore
  <2>4. result' = -1
    BY <2>2, <2>3, FileSizes, Places DEF Whole
  <2> QED BY <1>1, <2>1, <2>2, <2>4, MarkedSector DEF UploadWhole, SectorKept
<1>7. ASSUME NEW n \in 1 .. MaxChunk, Piece(n)
      PROVE  SectorKept' /\ UploadWhole'
  <2>1. /\ on /\ on' /\ Open /\ cache' = Restored(n) /\ result' = ResultNow(n)
        /\ upload'.file = upload.file
        /\ n \in Nat
    BY <1>2, <1>7, Chunks, Typed DEF Piece
  <2>2. MarkOk(cache) /\ MarkOk(sector)
    BY <1>1, <2>1 DEF SectorKept
  <2>3. MarkOk(Restored(n))
    <3>1. CASE Inside
      <4>1. Whole(upload.file)
        BY <1>1, <2>1, <3>1 DEF UploadWhole, Inside
      <4> QED BY <1>2, <2>1, <2>2, <3>1, <4>1, MarkAfterFile DEF Restored
    <3>2. CASE ~Inside
      BY <2>2, <3>2 DEF Restored
    <3> QED BY <3>1, <3>2
  <2>4. MarkOk(cache)'
    BY <2>1, <2>3 DEF MarkOk
  <2>5. \/ sector' = Restored(n) /\ saved' = Restored(n)
        \/ sector' = sector /\ saved' = saved
    BY <1>7, <2>1, SaveStores, RestoredTypes DEF Piece
  <2>6. SectorKept'
    BY <1>1, <2>1, <2>2, <2>3, <2>4, <2>5, MarkedSector
  <2>7. UploadWhole'
    BY <1>1, <2>1 DEF UploadWhole, ResultNow, Completes, Inside
  <2> QED BY <2>6, <2>7
<1>8. CASE Drop
  <2>1. ~Open'
    BY <1>8 DEF Drop, NoUpload, Open
  <2>2. on' = on /\ cache' = cache /\ sector' = sector /\ saved' = saved /\ given' = given
    BY <1>8 DEF Drop, flashVars
  <2> QED BY <1>1, <1>3, <2>1, <2>2 DEF SectorKept, UploadWhole, MarkOk
<1> QED BY <1>3, <1>5, <1>6, <1>7, <1>8 DEF Receive

\* While no power cut hits a flash operation and only configurations are restored, the
\* switch keeps its address, its serial number and the configuration it was last told
\* to save (salflash.c:162-209, 401-419, main.c:143-153).
THEOREM NothingGetsLost == Spec => []NothingIsLost
<1>1. Init => KeptInv
  <2> SUFFICES ASSUME Init PROVE AddressKept /\ SectorKept /\ UploadWhole
    BY DEF KeptInv
  <2>1. Unset \notin Own
    BY ConfigAssumption
  <2> QED BY <2>1 DEF Init, AddressKept, SectorKept, UploadWhole, Open, NoUpload
<1>2. TypeOK /\ KeptInv /\ [Next]_vars => KeptInv'
  <2> SUFFICES ASSUME TypeOK, KeptInv, [Next]_vars, sound'
               PROVE  AddressKept' /\ SectorKept' /\ UploadWhole'
    BY DEF KeptInv
  <2>1. sound
    BY SoundStep
  <2>2. AddressKept /\ SectorKept /\ UploadWhole
    BY <2>1 DEF KeptInv
  <2>3. CASE Breaks
    <3>1. PowerFails
      BY <2>3 DEF Breaks, StartBreaks, SetMacBreaks, ResetBreaks, SavingBreaks
    <3>2. UploadWhole'
      BY <2>2, <3>1, BesideKeepsWhole DEF PowerFails
    <3> QED BY <2>2, <3>1, <3>2 DEF PowerFails, Off, flashVars, AddressKept, SectorKept, MarkOk
  <2>4. CASE UNCHANGED vars
    BY <2>2, <2>4
       DEF vars, flashVars, restoreVars, AddressKept, SectorKept, UploadWhole, Open, MarkOk
  <2> QED BY <2>1, <2>3, <2>4, StartKeeps, RunsKeep, ReceiveKeeps DEF Next
<1>3. KeptInv => NothingIsLost
  BY DEF KeptInv, AddressKept, SectorKept, NothingIsLost
<1> QED BY <1>1, <1>2, <1>3, TypeCorrect, PTL DEF Spec

-----------------------------------------------------------------------------
(* Restores                                                                *)

\* What all pieces so far have left, if nothing came between: the parts that were sent
\* stand in the cache; once more was sent than a configuration has, the flash holds it.
Arrived ==
    IF Signed(upload.file)
    THEN /\ \A p \in Part : p =< upload.sent => cache[p] = Sent(upload.file, p)
         /\ result = IF upload.sent < N THEN 0 ELSE 1
         /\ upload.sent > N => sector = cache /\ page = "restored"
    ELSE result = -1

UploadInv ==
    /\ ~on => upload.sent = 0
    /\ upload.sent > 0 /\ upload.alone => Arrived

\* The first piece.
LEMMA ArrivedFirst ==
    ASSUME TypeOK, NEW f \in Files, NEW n \in 1 .. MaxChunk, RestoreBegins(f, n)
    PROVE  Arrived'
<1>1. n \in Nat /\ n < N /\ cache \in Configs
  BY Chunks, Typed
<1>2. upload'.file = f /\ upload'.sent = n /\ FirstPiece(f, n)
  BY DEF RestoreBegins
<1>3. CASE Signed(f)
  <2>1. result' = 0 /\ cache' = CfgSet(cache, f, 0, n)
    BY <1>2, <1>3 DEF FirstPiece
  <2>2. \A p \in Part : p =< n => cache'[p] = Sent(f, p)
    BY <1>1, <2>1, Places DEF CfgSet, Part
  <2> QED BY <1>1, <1>2, <1>3, <2>1, <2>2, Places DEF Arrived
<1>4. CASE ~Signed(f)
  BY <1>2, <1>4 DEF FirstPiece, Arrived
<1> QED BY <1>3, <1>4

\* A later piece.
LEMMA ArrivedNext ==
    ASSUME TypeOK, Arrived, NEW n \in 1 .. MaxChunk, Piece(n)
    PROVE  Arrived'
<1>1. /\ n \in Nat /\ n > 0 /\ n < N /\ cache \in Configs /\ upload.sent \in Nat
      /\ upload.file \in Files \cup {<<>>} /\ result \in {-1, 0, 1} /\ N \in Nat
  BY Chunks, Typed, Places
<1>2. upload'.file = upload.file /\ upload'.sent = upload.sent + n
  BY <1>1, Typed DEF Piece
<1>3. cache' = Restored(n) /\ result' = ResultNow(n)
      /\ page' = (IF ~LastBlock(n) THEN "silent" ELSE IF result' = 1 THEN "restored" ELSE "failed")
  BY DEF Piece
<1>4. page' = "restored" => sector' = cache'
  BY <1>1, <1>3, SaveStores, RestoredTypes DEF Piece
<1>5. CASE ~Signed(upload.file)
  BY <1>2, <1>3, <1>5 DEF Arrived, ResultNow, Completes, Inside
<1>6. CASE Signed(upload.file) /\ upload.sent < N
  <2>1. result = 0 /\ Inside
    BY <1>1, <1>6 DEF Arrived, Inside
  <2>2. cache' = CfgSet(cache, upload.file, upload.sent, n)
    BY <1>3, <2>1 DEF Restored
  <2>3. \A p \in Part : p =< upload.sent + n => cache'[p] = Sent(upload.file, p)
    BY <1>1, <1>6, <2>2 DEF Arrived, CfgSet, Part
  <2>4. result' = IF upload.sent + n < N THEN 0 ELSE 1
    BY <1>1, <1>3, <2>1 DEF ResultNow, Completes
  <2>5. upload.sent + n > N => page' = "restored"
    BY <1>1, <1>3, <2>1, <2>4 DEF LastBlock
  <2> QED BY <1>2, <1>4, <1>6, <2>3, <2>4, <2>5 DEF Arrived
<1>7. CASE Signed(upload.file) /\ ~(upload.sent < N)
  <2>1. result = 1 /\ ~Inside
    BY <1>1, <1>7 DEF Arrived, Inside
  <2>2. cache' = cache /\ result' = 1 /\ page' = "restored"
    BY <1>3, <2>1 DEF Restored, ResultNow, Completes, LastBlock
  <2>3. \A p \in Part : cache[p] = Sent(upload.file, p)
    BY <1>1, <1>7 DEF Arrived, Part
  <2> QED BY <1>1, <1>2, <1>4, <1>7, <2>2, <2>3 DEF Arrived
<1> QED BY <1>5, <1>6, <1>7

\* After a step beside it no upload is alone, and a restart leaves none.
LEMMA BesideIsNotAlone ==
    ASSUME TypeOK, Beside \/ Off
    PROVE  ~(upload'.sent > 0 /\ upload'.alone) /\ (Off => upload'.sent = 0)
  BY Typed DEF Beside, Off, NoUpload

\* Every step keeps it.
LEMMA UploadStep ==
    ASSUME TypeOK, UploadInv, [Next]_vars
    PROVE  UploadInv'
<1>1. CASE Start
  <2>1. upload' = upload /\ on' /\ upload.sent = 0
    BY <1>1 DEF Start, restoreVars, UploadInv
  <2> QED BY <2>1 DEF UploadInv
<1>2. CASE Runs
  <2>1. Beside \/ Off
    BY <1>2 DEF Runs, Set, SavePage, LogEntry, RebootPage, LoaderMode, SetMac, Reset
  <2>2. Off \/ on'
    BY <1>2 DEF Runs, Set, SavePage, LogEntry, RebootPage, LoaderMode, SetMac, Reset
  <2> QED BY <2>1, <2>2, BesideIsNotAlone DEF UploadInv
<1>3. ASSUME NEW f \in Files, NEW n \in 1 .. MaxChunk, RestoreBegins(f, n)
      PROVE  UploadInv'
  BY <1>3, ArrivedFirst DEF RestoreBegins, UploadInv
<1>4. ASSUME NEW f \in Files, ShortRestore(f)
      PROVE  UploadInv'
  <2>1. on' /\ ~(upload'.sent > 0 /\ upload'.alone)
    BY <1>4, Typed DEF ShortRestore, NoUpload
  <2> QED BY <2>1 DEF UploadInv
<1>5. ASSUME NEW n \in 1 .. MaxChunk, Piece(n)
      PROVE  UploadInv'
  <2>1. on' /\ upload.sent > 0 /\ upload'.alone = upload.alone
    BY <1>5, Typed DEF Piece, Open
  <2>2. upload.alone => Arrived
    BY <2>1 DEF UploadInv
  <2> QED BY <1>5, <2>1, <2>2, ArrivedNext DEF UploadInv
<1>6. CASE Drop
  BY <1>6 DEF Drop, NoUpload, UploadInv
<1>7. CASE StartBreaks
  <2>1. upload' = upload /\ upload.sent = 0
    BY <1>7 DEF StartBreaks, restoreVars, UploadInv
  <2> QED BY <2>1 DEF UploadInv
<1>8. CASE PowerFails \/ SetMacBreaks \/ ResetBreaks \/ SavingBreaks
  <2>1. Off
    BY <1>8 DEF PowerFails, SetMacBreaks, ResetBreaks, SavingBreaks
  <2> QED BY <2>1, BesideIsNotAlone DEF UploadInv
<1>9. CASE UNCHANGED vars
  BY <1>9 DEF vars, flashVars, restoreVars, UploadInv, Arrived
<1> QED BY <1>1, <1>2, <1>3, <1>4, <1>5, <1>6, <1>7, <1>8, <1>9 DEF Next, Receive, Breaks

\* It holds always.
LEMMA UploadAlways == Spec => [](TypeOK /\ UploadInv)
<1>1. Init => UploadInv
  BY DEF Init, NoUpload, UploadInv
<1> QED BY <1>1, UploadStep, TypeCorrect, PTL DEF Spec

\* When the upload of a whole configuration has ended, in whatever pieces, the page says
\* so and the flash holds the file, if nothing else came between (web_cfg.c:184-233).
THEOREM RestoredFileIsStored == Spec => []RestoreIsStored
<1>1. TypeOK /\ UploadInv => RestoreIsStored
  <2> SUFFICES ASSUME TypeOK, UploadInv, upload.alone, upload.sent = Size(upload.file),
                      Whole(upload.file)
               PROVE  page = "restored" /\ \A p \in Part : sector[p] = upload.file[p]
    BY DEF RestoreIsStored
  <2>1. upload.file \in Files \cup {<<>>}
    BY Typed
  <2>2. upload.sent \in Nat /\ upload.sent > N /\ Len(upload.file) >= N
    BY <2>1, FileSizes, Places DEF Whole
  <2>3. Signed(upload.file)
    BY Places DEF Whole, Signed
  <2>4. page = "restored" /\ sector = cache
        /\ \A p \in Part : p =< upload.sent => cache[p] = Sent(upload.file, p)
    BY <2>2, <2>3, Places DEF UploadInv, Arrived
  <2>5. \A p \in Part : Sent(upload.file, p) = upload.file[p] /\ p =< upload.sent
    BY <2>1, <2>2, FileSizes, Places DEF Sent, Part
  <2> QED BY <2>4, <2>5
<1> QED BY <1>1, UploadAlways, PTL

\* No piece of a file without signature changes the configuration or the flash, unless
\* another file comes between (web_cfg.c:163-183, 188).
THEOREM RefusedFileChangesNothing == Spec => UnsignedChangesNothing
<1> DEFINE Refuses == Open /\ upload.alone /\ ~Signed(upload.file) /\ upload'.sent > upload.sent
                      => UNCHANGED <<cache, sector>>
<1>1. TypeOK /\ UploadInv /\ [Next]_vars => [Refuses]_vars
  <2> SUFFICES ASSUME TypeOK, UploadInv, [Next]_vars, Open, upload.alone, ~Signed(upload.file),
                      upload'.sent > upload.sent
               PROVE  UNCHANGED <<cache, sector>>
    OBVIOUS
  <2>1. upload.sent \in Nat /\ upload.sent > 0 /\ result = -1
    BY Typed DEF UploadInv, Arrived, Open
  <2>2. ~(Beside \/ Off \/ upload' = upload \/ upload' = NoUpload)
    BY <2>1, Typed DEF Beside, Off, NoUpload
  <2>3. PICK n \in 1 .. MaxChunk : Piece(n)
    <3>1. ~(\E f \in Files : ShortRestore(f))
      BY <2>1, <2>2, Typed DEF ShortRestore
    <3>2. ~Start /\ ~Runs /\ ~Breaks /\ ~UNCHANGED vars
      BY <2>2
         DEF Start, Runs, Set, SavePage, LogEntry, RebootPage, LoaderMode, SetMac, Reset, Breaks,
             PowerFails, StartBreaks, SetMacBreaks, ResetBreaks, SavingBreaks, vars, restoreVars
    <3>3. ~(\E f \in Files, n \in 1 .. MaxChunk : RestoreBegins(f, n)) /\ ~Drop
      BY <2>2 DEF RestoreBegins, Drop
    <3> QED BY <3>1, <3>2, <3>3 DEF Next, Receive
  <2> QED BY <2>1, <2>3 DEF Piece, Restored, Inside, LastBlock
<1> QED BY <1>1, UploadAlways, PTL DEF Spec, UnsignedChangesNothing

=============================================================================
