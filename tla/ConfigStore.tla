---------------------------- MODULE ConfigStore ----------------------------
(***************************************************************************)
(* The configuration of the switch: configCache, which pages set and chips *)
(* are driven from; its one copy in the flash; the sector of the address   *)
(* and serial number; the start that chooses what to use (salflash.c,      *)
(* salsys.c, main.c); and the restore by HTTP (web_cfg.c).                 *)
(*                                                                         *)
(* The configuration is a row of parts in the order of its addresses.  The *)
(* first holds the signature, MarkPart the mark that it is initialised,    *)
(* the last one the log.  Flash is programmed part by part, and can only   *)
(* be programmed where it is erased, except that zeros can be written over *)
(* anything.  The power may fail between any two parts.                    *)
(***************************************************************************)
EXTENDS Integers, Sequences

CONSTANTS
    N,            \* parts of a configuration
    MarkPart,     \* the part that holds the mark
    Settings,     \* what administrators set parts to
    Files,        \* what people upload: sequences of parts
    TrailerLen,   \* the end of the form, behind the file
    MaxChunk,     \* parts in a packet
    Macs,         \* the addresses given to the switch
    Own           \* those that begin as the manufacturer's do

Part == 1 .. N
LogPart == N

\* The other contents of a part: the defaults, zeros, what is no configuration,
\* erased flash, and flash that was programmed twice.
Default == "default"
Zero == "zero"
Junk == "junk"
Erased == "erased"
Scrap == "scrap"

\* The other addresses: DFLT_SYS_MAC_ADDRESS, the one that replaces it, the one
\* for identification, and an erased sector.
DefaultMac == "DefaultMac"
SpareMac == "SpareMac"
Unset == "Unset"
NoMac == "NoMac"

Valid == Settings \cup {Default}

ASSUME ConfigAssumption ==
    /\ N \in Nat /\ MarkPart \in 2 .. N - 1
    /\ TrailerLen \in Nat \ {0} /\ MaxChunk \in 1 .. N - 1
    /\ Settings \cap {Default, Zero, Junk, Erased, Scrap} = {}
    /\ Files \subseteq Seq(Valid \cup {Zero, Junk}) \ {<<>>}
    /\ Own \subseteq Macs
    /\ Macs \cap {DefaultMac, SpareMac, Unset, NoMac} = {}

VARIABLES
    on,       \* the runtime runs
    cache,    \* configCache
    sector,   \* the flash at FLSH_CONFIG_ADDR_START
    nv,       \* the sector at FLSH_NVDATA_START: mac, and whether serial is there
    result,   \* http_upload_result
    upload,   \* the upload that has the request buffer: file, parts sent, and
              \* whether nothing else changed the configuration meanwhile
    page,     \* what the last piece of an upload was answered
    saved,    \* what the last save was to store (history)
    given,    \* the address last given to the switch (history)
    wiped,    \* nothing was set since a reset to the defaults (history)
    sound     \* no power cut hit the flash, no file but configurations (history)

flashVars == <<sector, nv, saved>>
restoreVars == <<result, upload, page>>
vars == <<on, cache, flashVars, restoreVars, given, wiped, sound>>

Content(v) == [p \in Part |-> v]
Blank == Content(Erased)

NoUpload == [file |-> <<>>, sent |-> 0, alone |-> TRUE]

Size(f) == Len(f) + TrailerLen
Open == upload.sent > 0 /\ upload.sent < Size(upload.file)

Program(old, new) ==
    IF old = Erased THEN new ELSE IF new \in {old, Zero} THEN new
    ELSE IF new = Erased THEN old ELSE Scrap

\* Sector m after the first k parts of c have been written to it.
Write(m, c, k) == [p \in Part |-> IF p =< k THEN Program(m[p], c[p]) ELSE m[p]]

MarkOk_Signature(m) == m[1] \in Valid  \* Seeded bug: the signature is taken for the mark.

\* SalFlshGetInitOKMark
MarkOk(m) == m[MarkPart] \in Valid

-----------------------------------------------------------------------------
Init ==
    /\ on = FALSE /\ cache = Content(Zero)
    /\ sector = Blank /\ nv = [mac |-> Unset, serial |-> TRUE]
    /\ result = 0 /\ upload = NoUpload /\ page = "none"
    /\ saved = Content(Default) /\ given = Unset
    /\ wiped = FALSE /\ sound = TRUE

Save_ErasesNothing(c) ==  \* Seeded bug: written over the old configuration.
    sector' = Write(sector, c, N) /\ saved' = c

\* sal_flash_cfg_save, of a configCache with contents c.
Save(c) == sector' = Write(Blank, c, N) /\ saved' = c

SaveBreaks(c) == (\E k \in 0 .. N - 1 : sector' = Write(Blank, c, k)) /\ saved' = c

\* sal_flash_sysMac_set reads, erases and rewrites a sector: cut in between,
\* the address and the serial number are gone.
NvLost == [mac |-> NoMac, serial |-> FALSE]

\* Memory loses its contents.
Off ==
    /\ on' = FALSE /\ cache' = Content(Zero)
    /\ result' = 0 /\ upload' = NoUpload /\ page' = "none"

\* An action beside the restore: what was shown is history, and an upload that
\* goes on is not alone in changing the configuration.
Beside ==
    /\ page' = "none"
    /\ upload' = IF Open THEN [upload EXCEPT !.alone = FALSE] ELSE NoUpload
    /\ UNCHANGED result

-----------------------------------------------------------------------------
(* sal_flash_config_init and the check of the address in main              *)

\* The address after sal_sys_config_restore and main, if m is in the flash.
Identified(m) ==
    LET restored == IF m \in {NoMac, DefaultMac} THEN SpareMac ELSE m
    IN IF restored \in Own THEN restored ELSE Unset

\* The configuration and the address that a start finds in sector c.
StartsWith(c) ==
    IF MarkOk(c)
    THEN /\ cache' = c /\ UNCHANGED <<sector, saved>>
         /\ nv' = [nv EXCEPT !.mac = Identified(@)]
    ELSE /\ cache' = Content(Default) /\ Save(cache')
         /\ nv' = [nv EXCEPT !.mac = Identified(DefaultMac)]

Start ==
    /\ ~on /\ on' = TRUE
    /\ StartsWith(sector)
    /\ UNCHANGED <<restoreVars, given, wiped, sound>>

\* The power fails while SalFlshInit stores the default address or the default
\* configuration.
InitBreaks ==
    /\ ~MarkOk(sector)
    /\ \/ nv' = NvLost /\ UNCHANGED <<sector, saved>>
       \/ nv' = [nv EXCEPT !.mac = DefaultMac] /\ SaveBreaks(Content(Default))

\* It fails while sal_sys_config_restore or main stores the address: then the
\* configuration is what the whole start would leave.
IdentifyBreaks ==
    /\ \/ MarkOk(sector) /\ UNCHANGED <<sector, saved>>
       \/ ~MarkOk(sector) /\ Save(Content(Default))
    /\ \/ nv' = NvLost
       \/ /\ nv.mac \in {NoMac, DefaultMac} \/ ~MarkOk(sector)
          /\ nv' = [nv EXCEPT !.mac = SpareMac]

StartBreaks ==
    /\ ~on /\ sound' = FALSE
    /\ InitBreaks \/ IdentifyBreaks
    /\ UNCHANGED <<on, cache, restoreVars, given, wiped>>

PowerFails ==
    /\ on /\ Off
    /\ UNCHANGED <<flashVars, given, wiped, sound>>

-----------------------------------------------------------------------------
(* The running switch                                                      *)

\* A page sets a part; no page sets the signature, the mark or the log.
Set(p, s) ==
    /\ on /\ cache[p] /= s
    /\ cache' = [cache EXCEPT ![p] = s]
    /\ wiped' = FALSE
    /\ Beside /\ UNCHANGED <<on, flashVars, given, sound>>

\* The pages that save: get_save, and those of SNMP and of the log.
SavePage ==
    /\ on /\ Save(cache)
    /\ Beside /\ UNCHANGED <<on, cache, nv, given, wiped, sound>>

Logged(s) == [cache EXCEPT ![LogPart] = s]

\* syslog_add_new_buf_entry: links and pages leave entries, and if entries are
\* sent to a server, each saves the configuration.
LogEntry(s) ==
    /\ on /\ cache' = Logged(s)
    /\ Save(cache') \/ UNCHANGED <<sector, saved>>
    /\ wiped' = FALSE
    /\ Beside /\ UNCHANGED <<on, nv, given, sound>>

\* post_reboot leaves an entry first.
RebootPage(s) ==
    /\ on /\ Off
    /\ Save(Logged(s)) \/ UNCHANGED <<sector, saved>>
    /\ wiped' = FALSE
    /\ UNCHANGED <<nv, given, sound>>

\* sal_sys_loaderMode_set
LoaderMode ==
    /\ on /\ Off /\ Save(cache)
    /\ UNCHANGED <<nv, given, wiped, sound>>

\* set_mac
SetMac(m) ==
    /\ on /\ nv.mac = Unset
    /\ nv' = [nv EXCEPT !.mac = m] /\ given' = m
    /\ Beside /\ UNCHANGED <<on, cache, sector, saved, wiped, sound>>

SetMacBreaks ==
    /\ on /\ nv.mac = Unset
    /\ Off /\ nv' = NvLost /\ sound' = FALSE
    /\ UNCHANGED <<sector, saved, given, wiped>>

ResetMac_Default(m) == DefaultMac  \* Seeded bug: SalFlshInit instead of the one for resets.

\* What SalFlshInit_except_Mac leaves of the address.
ResetMac(m) == m

\* sal_flash_cfg_reset and the restart behind it, by page or button.  The page leaves
\* a log entry first, of which a reset leaves nothing; cut off in between, it is a LogEntry
\* followed by ResetBreaks.
Reset ==
    /\ on /\ Off /\ Save(Content(Default))
    /\ nv' = [nv EXCEPT !.mac = ResetMac(@)]
    /\ wiped' = TRUE
    /\ UNCHANGED <<given, sound>>

Clears_Nothing(k) ==  \* Seeded bug: the old configuration is erased without being cleared.
    UNCHANGED sector

\* The reset writes zeros over the configuration before it erases anything.
Clears(k) == sector' = Write(sector, Content(Zero), k)

ResetBreaks ==
    /\ on /\ Off /\ sound' = FALSE
    /\ \/ \E k \in Part :
              /\ Clears(k) /\ UNCHANGED saved
              /\ wiped' = (wiped \/ k >= MarkPart)
       \/ SaveBreaks(Content(Default)) /\ wiped' = TRUE
    /\ UNCHANGED <<nv, given>>

-----------------------------------------------------------------------------
(* post_http_restore; the pieces are cut by httpd.c as packets come in     *)

Sent(f, p) == IF p =< Len(f) THEN f[p] ELSE Junk

\* sal_flash_cfg_set: n parts of file f, behind the first s, go to the cache.
CfgSet(c, f, s, n) == [p \in Part |-> IF p \in s + 1 .. s + n THEN Sent(f, p) ELSE c[p]]

\* A file that holds a configuration.
Whole(f) == Len(f) >= N /\ \A p \in Part : f[p] \in Valid

Signed(f) == f[1] \in Valid

FirstPiece_KeepsResult(f, n) ==  \* Seeded bug: a file without signature is only answered.
    IF Signed(f)
    THEN result' = 0 /\ cache' = CfgSet(cache, f, 0, n) /\ page' = "silent"
    ELSE UNCHANGED <<result, cache>> /\ page' = "failed"

\* The piece with upload_offset 0.
FirstPiece(f, n) ==
    IF Signed(f)
    THEN result' = 0 /\ cache' = CfgSet(cache, f, 0, n) /\ page' = "silent"
    ELSE result' = -1 /\ UNCHANGED cache /\ page' = "failed"

\* The history after a first piece: a file that is not a whole configuration
\* may leave anything in the cache.
Touched(f) ==
    /\ wiped' = (wiped /\ ~Signed(f))
    /\ sound' = (sound /\ (Signed(f) => Whole(f)))

RestoreBegins(f, n) ==
    /\ on /\ ~Open /\ n < Size(f)
    /\ FirstPiece(f, n) /\ Touched(f)
    /\ upload' = [file |-> f, sent |-> n, alone |-> TRUE]
    /\ UNCHANGED <<on, flashVars, given>>

\* A file so short that its request comes in one packet needs no buffer, and
\* may come while another session restores.
ShortRestore(f) ==
    /\ on /\ Size(f) =< MaxChunk
    /\ FirstPiece(f, Size(f)) /\ Touched(f)
    /\ upload' = IF Open THEN [upload EXCEPT !.alone = FALSE] ELSE NoUpload
    /\ UNCHANGED <<on, flashVars, given>>

\* The next n parts are configuration; they are its last ones; they show that
\* the restore has ended.
Inside == upload.sent < N /\ result = 0
Completes(n) == Inside /\ upload.sent + n >= N

LastBlock_OnlyInside(n) ==  \* Seeded bug: what follows the last part is not looked at.
    Inside /\ upload.sent + n > N

LastBlock(n) ==
    result /= -1 /\ (~Inside \/ upload.sent + n > N)

\* The configuration and the result after the next n parts.
Restored(n) == IF Inside THEN CfgSet(cache, upload.file, upload.sent, n) ELSE cache
ResultNow(n) == IF Completes(n) THEN 1 ELSE result

Piece(n) ==
    /\ on /\ Open /\ upload.sent + n =< Size(upload.file)
    /\ cache' = Restored(n) /\ result' = ResultNow(n)
    /\ upload' = [upload EXCEPT !.sent = @ + n]
    /\ page' = IF ~LastBlock(n) THEN "silent" ELSE IF result' = 1 THEN "restored" ELSE "failed"
    /\ IF page' = "restored" THEN Save(cache') ELSE UNCHANGED <<sector, saved>>
    /\ wiped' = (wiped /\ ~Inside)
    /\ UNCHANGED <<on, nv, given, sound>>

\* The session ends before its upload does.
Drop ==
    /\ Open /\ upload' = NoUpload /\ page' = "none"
    /\ UNCHANGED <<on, cache, flashVars, result, given, wiped, sound>>

\* The power fails while a handler saves.
SavingBreaks ==
    /\ on /\ Off /\ sound' = FALSE /\ wiped' = FALSE
    /\ \/ SaveBreaks(cache)
       \/ \E s \in Settings : SaveBreaks(Logged(s))
       \/ \E n \in 1 .. MaxChunk :
              /\ Open /\ upload.sent + n =< Size(upload.file)
              /\ LastBlock(n) /\ ResultNow(n) = 1
              /\ SaveBreaks(Restored(n))
    /\ UNCHANGED <<nv, given>>

-----------------------------------------------------------------------------
Runs ==
    \/ \E p \in Part \ {1, MarkPart, LogPart}, s \in Settings : Set(p, s)
    \/ SavePage
    \/ \E s \in Settings : LogEntry(s) \/ RebootPage(s)
    \/ LoaderMode
    \/ \E m \in Macs : SetMac(m)
    \/ Reset

Receive ==
    \/ \E f \in Files, n \in 1 .. MaxChunk : RestoreBegins(f, n)
    \/ \E f \in Files : ShortRestore(f)
    \/ \E n \in 1 .. MaxChunk : Piece(n)
    \/ Drop

Breaks == PowerFails \/ StartBreaks \/ SetMacBreaks \/ ResetBreaks \/ SavingBreaks

Next == Start \/ Runs \/ Receive \/ Breaks

Spec == Init /\ [][Next]_vars

-----------------------------------------------------------------------------
(* Properties                                                              *)

\* The variables keep their values in range, and flash is never programmed
\* twice: whatever was cut off, every save erases before it writes
\* (salflash.c:2355-2363).
TypeOK ==
    LET Parts == [Part -> Valid \cup {Zero, Junk, Erased}]
    IN /\ on \in BOOLEAN /\ cache \in Parts /\ sector \in Parts /\ saved \in Parts
       /\ nv \in [mac : Macs \cup {DefaultMac, SpareMac, Unset, NoMac}, serial : BOOLEAN]
       /\ result \in {-1, 0, 1} /\ page \in {"none", "silent", "restored", "failed"}
       /\ upload \in [file : Files \cup {<<>>}, sent : Nat, alone : BOOLEAN]
       /\ upload.sent =< Size(upload.file)
       /\ given \in Macs \cup {Unset} /\ wiped \in BOOLEAN /\ sound \in BOOLEAN

\* A sector that a start takes for initialised holds the last configuration
\* that was to be saved, wherever saves, resets and starts were cut off, but
\* that a reset may have cleared its front, and that behind the mark, which is
\* not the last part, a cut save leaves erased flash (salsys.c:81-110,
\* flash_config.h:57-160).
MarkedIsSaved ==
    MarkOk(sector) =>
        \A p \in Part : \/ sector[p] = saved[p]
                        \/ sector[p] = Zero
                        \/ sector[p] = Erased /\ p > MarkPart

\* None of the old settings comes back after a reset to the factory defaults,
\* even if the power fails within it, once it has cleared the mark
\* (salflash.c:2385-2400).
ResetIsFinal == wiped /\ on => \A p \in Part : cache[p] \notin Settings

\* While power is not cut within a flash operation and only configurations are
\* restored, whole or broken off, the switch keeps an address that begins as
\* the manufacturer's do, its serial number, and the configuration it was last
\* told to save (salflash.c:162-209, 401-419, main.c:143-153).
NothingIsLost ==
    sound => /\ given \in Own => nv.mac = given
             /\ nv.serial
             /\ sector \in {saved, Blank}
             /\ on => MarkOk(sector)

\* When the upload of a whole configuration ends, in whatever pieces it came,
\* the page says so and the configuration is in the flash, if nothing else
\* changed it meanwhile (web_cfg.c:184-233).
RestoreIsStored ==
    page /= "none" /\ upload.alone /\ upload.sent = Size(upload.file) /\ Whole(upload.file)
        => /\ page = "restored"
           /\ \A p \in Part : sector[p] = upload.file[p]

\* A file without signature changes nothing, however many pieces follow the
\* one that is refused; unless another session's file comes between
\* (web_cfg.c:163-183, 188).
UnsignedChangesNothing ==
    [][Open /\ upload.alone /\ ~Signed(upload.file) /\ upload'.sent > upload.sent
       => UNCHANGED <<cache, sector>>]_vars

=============================================================================
