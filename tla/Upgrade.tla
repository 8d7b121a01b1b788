------------------------------ MODULE Upgrade ------------------------------
(***************************************************************************)
(* The two images in the flash of the switch and how one replaces the      *)
(* other: the runtime enters the loader (sal_sys_loaderMode_set), the      *)
(* loader's web page takes an upload in the pieces TCP delivers            *)
(* (post_http_firmupdate, sal_fwug_image_write), restarts the switch, and  *)
(* check_boot starts what it finds whole.  The power may fail at any time, *)
(* also between two flash operations of a piece.                           *)
(*                                                                         *)
(* A position is a place of the image's payload, counted from 0: the first *)
(* IromLen lie in the IROM section of the flash, the others in the bank    *)
(* section, whose blocks are erased one by one.  Flash can be written only *)
(* where it is erased.  The checksum is taken to tell images apart.  The   *)
(* loader, the configuration and the end of the chip are out of the model: *)
(* the files that are uploaded fit the area.                               *)
(***************************************************************************)
EXTENDS Integers, FiniteSets

CONSTANTS Images, NotAnImage,
          Files,              \* [image |-> whose header it has, cells |-> its length after it]
          Length,             \* cells in the payload of an image
          IromLen,            \* IMAGE_IROM_LEN
          BlockSize,          \* FLASH_BLOCK_SIZE
          Blocks,             \* blocks of the bank section
          TrailerLen,         \* what the browser sends after the file
          MaxChunk,           \* the most that comes in a packet
          Addresses,          \* addresses the switch may be given
          DefaultAddress,     \* DFLT_SYS_IP_IP
          NoFile

ASSUME UpgradeAssumption ==
    /\ NotAnImage \notin Images
    /\ IromLen \in Nat \ {0} /\ BlockSize \in Nat \ {0} /\ Blocks \in Nat \ {0}
    /\ TrailerLen \in Nat \ {0} /\ MaxChunk \in Nat \ {0}
    /\ MaxChunk < IromLen /\ MaxChunk < BlockSize
    /\ Length \in [Images -> Nat]
    /\ Files \subseteq [image : Images \cup {NotAnImage}, cells : Nat]
    /\ \A f \in Files :
           /\ f.cells + TrailerLen + MaxChunk - 1 =< IromLen + Blocks * BlockSize
           /\ f.image \in Images => f.cells =< Length[f.image]
    /\ NoFile \notin Files
    /\ DefaultAddress \in Addresses

VARIABLES flash,
          at,        \* what the processor runs
          mode,      \* the warm-start magic, in registers a restart keeps
          handed,    \* runtime_ip_set: the address in the registers
          address,   \* this_ip, and its copy in configCache
          saved,     \* what restoring the configuration sector gives: the address
                     \* in it, or the default one if it holds none
          fw,        \* the static variables of salfwug.c
          stat,      \* g_firm_update_stat
          upload     \* the transfer that owns the request buffer

bootVars == <<at, mode, handed, address, saved>>
vars == <<flash, bootVars, fw, stat, upload>>

Area == 0 .. IromLen + Blocks * BlockSize - 1
Irom == 0 .. IromLen - 1
Erased == <<"erased", 0>>
Scrap == <<"scrap", 0>>   \* bytes that belong to no image
Cell(i, p) == <<i, p>>

FwInit == [header_get |-> FALSE, reboot_after_upload |-> FALSE, write_enable |-> FALSE,
           write_to_bank |-> FALSE, writeLen |-> 0]
NoUpload == [file |-> NoFile, offset |-> 0, alone |-> TRUE]

\* check_boot finds image i: header and both checksums agree.
Whole(i) == \A p \in 0 .. Length[i] - 1 : flash[p] = Cell(i, p)

Init ==
    /\ \E i \in Images :
           flash = [p \in Area |-> IF p < Length[i] THEN Cell(i, p) ELSE Erased]
    /\ at = "reset" /\ mode = "COLD"
    /\ saved \in Addresses /\ handed = saved /\ address = saved
    /\ fw = FwInit /\ stat = "IDLE" /\ upload = NoUpload

-----------------------------------------------------------------------------
(* sal_fwug_image_write                                                    *)

\* What the browser sends: header, payload, the end of the form.
Sent(f, s) == IF f.image \in Images /\ s >= 1 /\ s =< f.cells THEN Cell(f.image, s - 1) ELSE Scrap
Size(f) == 1 + f.cells + TrailerLen

Erase(m, S) == [p \in Area |-> IF p \in S THEN Erased ELSE m[p]]
Program(old, new) == IF old = Erased \/ old = new THEN new ELSE Scrap

\* n cells of file f, from s on, written to position to.
Write(m, to, f, s, n) ==
    [p \in Area |-> IF p \in to .. to + n - 1 THEN Program(m[p], Sent(f, s + p - to)) ELSE m[p]]

BlockOffset(p) == (p - IromLen) % BlockSize
Block(p) == {q \in Area : q >= IromLen
                          /\ (q - IromLen) \div BlockSize = (p - IromLen) \div BlockSize}

ToIrom(w, n) == w.writeLen + n =< IromLen

BanksErased_OnlyAtStart(w, n) ==  \* Seeded bug: only a piece at the start of a block erases it.
    IF ToIrom(w, n) THEN {}
    ELSE IF ~w.write_to_bank THEN Block(IromLen)
    ELSE IF BlockOffset(w.writeLen) = 0 THEN Block(w.writeLen) ELSE {}

\* The blocks of the bank section that a piece of n cells erases.
BanksErased(w, n) ==
    IF ToIrom(w, n) THEN {}
    ELSE IF ~w.write_to_bank THEN Block(IromLen)
    ELSE (IF BlockOffset(w.writeLen) = 0 THEN Block(w.writeLen) ELSE {})
         \cup (IF BlockOffset(w.writeLen) > BlockOffset(w.writeLen + n)
               THEN Block(w.writeLen + n) ELSE {})

\* The cells of the piece that still go to the IROM section.
Front(w, n) == IF ToIrom(w, n) THEN n ELSE IF w.write_to_bank THEN 0 ELSE IromLen - w.writeLen

Advanced(w, n) ==
    [w EXCEPT !.writeLen = @ + n, !.write_to_bank = @ \/ ~ToIrom(w, n)]

HeaderSeen == [FwInit EXCEPT !.header_get = TRUE, !.reboot_after_upload = TRUE,
                             !.write_enable = TRUE]
HeaderWrong_KeepsFlag(w) ==  \* Seeded bug: an earlier header still restarts the switch.
    [w EXCEPT !.write_enable = FALSE]
HeaderWrong(w) == [w EXCEPT !.write_enable = FALSE, !.reboot_after_upload = FALSE]

HasHeader(f, s) == s = 0 /\ f.image \in Images

\* A piece of n cells of file f, from s on; w is fw as the piece finds it.
ImageWrite(w, f, s, n) ==
    IF ~w.header_get
    THEN IF HasHeader(f, s)
         THEN /\ flash' = Write(Erase(flash, Irom \cup BanksErased(HeaderSeen, n - 1)),
                                0, f, s + 1, n - 1)
              /\ fw' = Advanced(HeaderSeen, n - 1)
         ELSE flash' = flash /\ fw' = HeaderWrong(w)
    ELSE IF w.write_enable
    THEN /\ flash' = Write(Erase(flash, BanksErased(w, n)), w.writeLen, f, s, n)
         /\ fw' = Advanced(w, n)
    ELSE UNCHANGED flash /\ fw' = w

-----------------------------------------------------------------------------
(* post_http_firmupdate; the pieces are cut by httpd.c as packets come in  *)

HttpInit == [fw EXCEPT !.header_get = FALSE]

\* The request buffer is full for the first time: the first piece of f.
UploadBegins(f, n) ==
    /\ at = "loader" /\ upload = NoUpload /\ n < Size(f)
    /\ stat' = "TRANSFERING"
    /\ ImageWrite(HttpInit, f, 0, n)
    /\ upload' = [file |-> f, offset |-> n, alone |-> TRUE]
    /\ UNCHANGED bootVars

\* A file so short that its request comes in one packet needs no buffer.
ShortUpload(f) ==
    /\ at = "loader" /\ Size(f) =< MaxChunk
    /\ stat' = "TRANSFERING"
    /\ ImageWrite(HttpInit, f, 0, Size(f))
    /\ upload' = [upload EXCEPT !.alone = (upload = NoUpload)]
    /\ UNCHANGED bootVars

More_TakesLast(n) ==  \* Seeded bug: the last piece is taken for one in the middle.
    /\ at = "loader" /\ upload /= NoUpload
    /\ upload.offset + n =< Size(upload.file)
    /\ IF stat = "TRANSFERING"
       THEN ImageWrite(fw, upload.file, upload.offset, n)
       ELSE UNCHANGED <<flash, fw>>
    /\ upload' = [upload EXCEPT !.offset = @ + n]
    /\ UNCHANGED <<bootVars, stat>>

More(n) ==
    /\ at = "loader" /\ upload /= NoUpload
    /\ upload.offset + n < Size(upload.file)
    /\ IF stat = "TRANSFERING"
       THEN ImageWrite(fw, upload.file, upload.offset, n)
       ELSE UNCHANGED <<flash, fw>>
    /\ upload' = [upload EXCEPT !.offset = @ + n]
    /\ UNCHANGED <<bootVars, stat>>

\* The last piece: sal_fwug_termination_set restarts the switch.
Last(n) ==
    /\ at = "loader" /\ upload /= NoUpload
    /\ upload.offset + n = Size(upload.file)
    /\ IF stat = "TRANSFERING"
       THEN /\ stat' = "FINISHED"
            /\ ImageWrite(fw, upload.file, upload.offset, n)
            /\ IF fw'.reboot_after_upload
               THEN at' = "reset" /\ mode' = "COLD"
               ELSE UNCHANGED <<at, mode>>
       ELSE UNCHANGED <<flash, fw, stat, at, mode>>
    /\ upload' = NoUpload
    /\ UNCHANGED <<handed, address, saved>>

\* The session ends before its upload does.
Drop ==
    /\ upload /= NoUpload
    /\ upload' = NoUpload
    /\ UNCHANGED <<flash, bootVars, fw, stat>>

Receive ==
    \/ \E f \in Files, n \in 1 .. MaxChunk : UploadBegins(f, n)
    \/ \E f \in Files : ShortUpload(f)
    \/ \E n \in 1 .. MaxChunk : More(n) \/ Last(n)
    \/ Drop

-----------------------------------------------------------------------------
(* Restarts                                                                *)

\* The memory of the processor starts anew; the registers at 0x172e do not.
Restarted ==
    /\ at' = "reset" /\ fw' = FwInit /\ stat' = "IDLE" /\ upload' = NoUpload

PowerFails ==
    /\ Restarted /\ mode' = "COLD"
    /\ UNCHANGED <<flash, handed, address, saved>>

\* The power fails while n cells of file f, from s on, are stored at position to:
\* before, while or after E is erased, which happens when front of them are
\* written.  What is being erased holds anything, so no image is found in it.
TornWrite(E, front, to, f, s, n) ==
    \E k \in 0 .. n :
        \/ k =< front /\ flash' = Write(flash, to, f, s, k)
        \/ /\ k = front
           /\ flash' = [p \in Area |-> IF p \in E THEN Scrap ELSE Write(flash, to, f, s, k)[p]]
        \/ k >= front /\ flash' = Write(Erase(flash, E), to, f, s, k)

\* The first piece of an image, which may be all of a short file: no cell is
\* written before the IROM section is erased.
TornFirst(n) ==
    \E f \in Files :
        /\ HasHeader(f, 0)
        /\ n = Size(f) \/ (upload = NoUpload /\ n < Size(f))
        /\ TornWrite(Irom, 0, 0, f, 1, n - 1)

\* A later piece, the last one too.
TornLater(n) ==
    /\ upload /= NoUpload /\ upload.offset + n =< Size(upload.file)
    /\ stat = "TRANSFERING" /\ fw.header_get /\ fw.write_enable
    /\ TornWrite(BanksErased(fw, n), Front(fw, n), fw.writeLen, upload.file, upload.offset, n)

PowerFailsWriting(n) ==
    /\ at = "loader"
    /\ TornFirst(n) \/ TornLater(n)
    /\ Restarted /\ mode' = "COLD"
    /\ UNCHANGED <<handed, address, saved>>

\* The loader's sal_flash_config_init: it never finds the mark, for it reads the
\* signature in its place, and restores the configuration only if the runtime
\* was found broken.
ConfigInit(crc_error) == IF crc_error THEN saved ELSE DefaultAddress

\* The loader's main: loader_init asks for the start mode once more.
EnterLoader(crc_error) ==
    /\ at' = "loader"
    /\ address' = IF mode' = "WARM" THEN handed ELSE ConfigInit(crc_error)
    /\ fw' = FwInit /\ stat' = "IDLE"
    /\ UNCHANGED <<flash, handed, saved, upload>>

\* main has not checked the runtime when it finds the warm-start flag.
WarmStart == at = "reset" /\ mode = "WARM" /\ mode' = "COLD" /\ EnterLoader(FALSE)

\* A cold start enters the loader on the escape key or if nothing boots.
EscapeKey == at = "reset" /\ mode = "COLD" /\ mode' = mode /\ EnterLoader(TRUE)

NothingBoots ==
    /\ at = "reset" /\ mode = "COLD" /\ mode' = mode
    /\ \A i \in Images : ~Whole(i)
    /\ EnterLoader(TRUE)

Boots ==
    /\ at = "reset" /\ mode = "COLD"
    /\ \E i \in Images : Whole(i)
    /\ at' = "runtime" /\ address' = saved
    /\ UNCHANGED <<flash, mode, handed, saved, fw, stat, upload>>

\* The loader's reboot page.
LoaderReboot ==
    /\ at = "loader" /\ Restarted /\ mode' = "COLD"
    /\ UNCHANGED <<flash, handed, address, saved>>

RuntimeReboot ==
    /\ at = "runtime" /\ Restarted
    /\ UNCHANGED <<flash, mode, handed, address, saved>>

\* A web page or DHCP sets the address; not all of them save it.
NewAddress ==
    /\ at = "runtime" /\ address' \in Addresses \ {address}
    /\ saved' \in {saved, address'}
    /\ UNCHANGED <<flash, at, mode, handed, fw, stat, upload>>

\* The runtime saves its configuration and enters the loader.
LoaderModeSet ==
    /\ at = "runtime" /\ Restarted
    /\ mode' = "WARM" /\ handed' = address /\ saved' = address
    /\ UNCHANGED <<flash, address>>

Next ==
    \/ Receive
    \/ PowerFails \/ \E n \in 1 .. MaxChunk : PowerFailsWriting(n)
    \/ WarmStart \/ EscapeKey \/ NothingBoots \/ Boots
    \/ LoaderReboot \/ RuntimeReboot \/ NewAddress \/ LoaderModeSet

Spec == Init /\ [][Next]_vars

-----------------------------------------------------------------------------
(* Properties                                                              *)

\* The variables keep their values in range: sal_fwug_image_write never counts
\* past the end of the area, and the session that has the request buffer is one
\* whose upload has not ended (salfwug.c:183-284, web_http.c:98).
TypeOK ==
    /\ flash \in [Area -> {Erased, Scrap} \cup {Cell(i, p) : i \in Images, p \in Area}]
    /\ at \in {"reset", "loader", "runtime"} /\ mode \in {"COLD", "WARM"}
    /\ handed \in Addresses /\ address \in Addresses /\ saved \in Addresses
    /\ fw \in [header_get : BOOLEAN, reboot_after_upload : BOOLEAN, write_enable : BOOLEAN,
               write_to_bank : BOOLEAN, writeLen : 0 .. IromLen + Blocks * BlockSize]
    /\ stat \in {"IDLE", "TRANSFERING", "FINISHED"}
    /\ upload \in [file : Files \cup {NoFile}, offset : Nat, alone : BOOLEAN]
    /\ upload.file /= NoFile => upload.offset < Size(upload.file)

\* The last packet of an upload is handled now.
Finishes == stat = "TRANSFERING" /\ stat' = "FINISHED"

Complete(f) == f.image \in Images /\ f.cells = Length[f.image]

\* However TCP cuts a complete image into packets, and whatever broken uploads
\* and power cuts left in the flash, when its upload finishes the flash holds
\* that image cell by cell and the switch restarts; unless someone else's
\* upload came between (salfwug.c:226-280).
UploadedImageIsWhole ==
    [][Finishes /\ upload.alone /\ Complete(upload.file)
       => /\ at' = "reset" /\ mode' = "COLD"
          /\ \A p \in 0 .. Length[upload.file.image] - 1 :
                 flash'[p] = Cell(upload.file.image, p)]_vars

\* A file that has no image header never restarts the switch, even after an
\* image whose upload broke off: reboot_after_upload is that of this file
\* (salfwug.c:218-224, 301).
OnlyImagesRestart ==
    [][Finishes /\ upload.alone /\ at' = "reset" => upload.file.image \in Images]_vars

\* The loader that the runtime enters answers at the address the runtime hands
\* over ("set loader ip", rtl8367c/src/sal/salsys.c:1808), where the page the
\* user has asked for it waits.  It does not: main has cleared the warm-start
\* flag when loader_init asks for it, and what is saved is not looked at either.
LoaderKeepsAddress ==
    [][at = "reset" /\ mode = "WARM" /\ at' = "loader" => address' = handed]_vars

=============================================================================
