----------------------------- MODULE FlashTool -----------------------------
(***************************************************************************)
(* The flash tool on the C64 (src-c64/flashtool.c, tcrt.c, advancedmenu.c):*)
(* files are read in pages and written to a flash whose geometry the       *)
(* cartridge reports.  The commands it sends do what FlashAsAsked promises.*)
(*                                                                         *)
(* Byte i of the file of job j is <<j, i>>, so that every byte of the flash*)
(* tells where it came from.                                               *)
(***************************************************************************)
EXTENDS Integers, FiniteSetsExt, SequencesExt

CONSTANTS
  Geometries,   \* records [total, page, erase]: the sizes a cartridge reports
  Word,         \* number of values of uint16_t                         (2^16)
  BufferSize,   \* sizeof(databuffer)                                   (4096)
  StarterLen,   \* sizeof(basic_starter), a page at most
  FileLens,     \* lengths of files on disk, without headers
  Offsets,      \* flash offsets a user types
  MaxJobs

ASSUME FlashToolAssumption ==
  /\ Word \in Nat \ {0} /\ BufferSize \in Nat \ {0} /\ StarterLen \in Nat
  /\ FileLens \subseteq Nat /\ Offsets \subseteq Nat /\ MaxJobs \in Nat
  /\ \A g \in Geometries :
       /\ g.total \in Nat \ {0} /\ g.page \in 3 .. BufferSize
       /\ g.erase \in Nat \ {1}   \* 0, 16 or 128 in the builds
       /\ 2 + StarterLen <= g.page
       /\ g.page * g.erase <= Word   \* equal on the late prototype
       /\ IF g.erase = 0 THEN g.total % g.page = 0 ELSE g.total % (g.page * g.erase) = 0

VARIABLES
  geo,          \* total_size, page_size, erase_pages
  flash,
  loadinfo,     \* the data length stored last, or NoInfo
  pc,
  job,          \* what the user asked for, and the number of the job
  filepos,      \* bytes read from the file
  limit, len, flash_offset, pages_erased,
  dump,         \* the file a dump writes
  before        \* history: the flash when the job began

vars == <<geo, flash, loadinfo, pc, job, filepos, limit, len, flash_offset,
          pages_erased, dump, before>>

Erased == <<0, 0>>
Old    == <<0, 1>>    \* what was in the flash at first
Mixed  == <<0, 2>>    \* a byte programmed over another
NoInfo == -1
NoJob  == [kind |-> "none", nr |-> 0, file |-> 0, arg |-> 0]

Addr == 0 .. geo.total - 1
Block == geo.page * geo.erase
BlockOf(a) == {b \in Addr : b \div Block = a \div Block}

\* The flash behind a command that writes n bytes, v[i] the i-th, from address a on.
Written(a, n, v) ==
  [b \in Addr |->
     IF b \notin a .. a + n - 1 THEN flash[b]
     ELSE IF geo.erase = 0 \/ flash[b] = Erased THEN v[b - a]
     ELSE IF v[b - a] = Erased THEN flash[b] ELSE Mixed]

EraseBlock(a) == [b \in Addr |-> IF b \in BlockOf(a) THEN Erased ELSE flash[b]]

-----------------------------------------------------------------------------
\* tc_cbm_read: what is left of the file, at most n bytes.
Read(n) == Min({n, job.file - filepos})

\* The user starts a job, which uses a file of so many bytes.
Start(to, kind, file, arg) ==
  /\ pc = "menu" /\ job.nr < MaxJobs /\ pc' = to
  /\ job' = [kind |-> kind, nr |-> job.nr + 1, file |-> file, arg |-> arg]
  /\ before' = flash /\ filepos' = 0
  /\ UNCHANGED <<geo, flash, len>>

\* write_datafile
WriteDatafile(offset, file) ==
  /\ offset + file <= geo.total
  /\ Start("read", "data", file, offset)
  /\ limit' = -1 /\ flash_offset' = offset /\ pages_erased' = 0
  /\ UNCHANGED <<loadinfo, dump>>

\* write_tcrt: an image whose length field says size, with its load info.
WriteTcrt(size, file) ==
  /\ size <= geo.total
  /\ Start("read", "tcrt", file, size)
  /\ limit' = size /\ flash_offset' = 0 /\ pages_erased' = 0
  /\ loadinfo' \in {NoInfo, size}
  /\ UNCHANGED dump

\* write_onefiler: behind the load address and perhaps a BASIC starter.
WriteOnefiler(starter, file) ==
  /\ starter + 2 + file <= geo.total /\ starter + 2 + file < Word
  /\ Start("first", "onefiler", file, starter)
  /\ limit' = -1 /\ flash_offset' = starter + 2
  /\ pages_erased' = IF geo.erase = 0 THEN 0 ELSE geo.erase - 1
  /\ UNCHANGED <<loadinfo, dump>>

\* The header of a one-filer is byte -k .. -1 of its file.
Byte(i) == <<job.nr, i>>

\* Mutant: the first page is read without room for the header.
FirstPage_Whole == geo.page

\* What the header leaves of the first page.
FirstPage == geo.page - flash_offset

\* The erased first block and its first page.
WriteFirst ==
  LET n == Read(FirstPage) IN
  /\ pc = "first" /\ pc' = "read"
  /\ filepos' = n /\ flash_offset' = flash_offset + n
  /\ LET erased == IF geo.erase = 0 THEN flash ELSE EraseBlock(0)
     IN flash' = [b \in Addr |-> IF b < flash_offset + n THEN Byte(b - flash_offset) ELSE erased[b]]
  /\ UNCHANGED <<geo, loadinfo, job, limit, len, pages_erased, dump, before>>

-----------------------------------------------------------------------------
\* write_file: do { read; erase if need be; write } while (len > 0 && limit != 0)

ReadPage ==
  /\ pc = "read"
  /\ len' = Read(IF limit >= 0 /\ geo.page > limit THEN limit ELSE geo.page)
  /\ filepos' = filepos + len'
  /\ pc' = IF len' = 0 THEN "next"
           ELSE IF geo.erase # 0 /\ pages_erased = 0 THEN "erase" ELSE "write"
  /\ UNCHANGED <<geo, flash, loadinfo, job, limit, flash_offset, pages_erased, dump, before>>

ErasePage ==
  /\ pc = "erase" /\ pc' = "write"
  /\ flash' = EraseBlock(flash_offset) /\ pages_erased' = geo.erase
  /\ UNCHANGED <<geo, loadinfo, job, filepos, limit, len, flash_offset, dump, before>>

WritePage ==
  /\ pc = "write" /\ pc' = "next"
  /\ flash' = Written(flash_offset, len, [i \in 0 .. len - 1 |-> Byte(filepos - len + i)])
  /\ flash_offset' = flash_offset + len /\ limit' = limit - len
  /\ UNCHANGED <<geo, loadinfo, job, filepos, len, pages_erased, dump, before>>

PageDone == (pages_erased - 1) % Word

\* Mutant: the end of the file does not end the loop.
GoOn_UntilLimit == limit # 0

GoOn == len > 0 /\ limit # 0

NextPage ==
  /\ pc = "next"
  /\ pages_erased' = PageDone
  /\ pc' = IF GoOn THEN "read"
           ELSE CASE job.kind = "data"     -> "done"
                  [] job.kind = "onefiler" -> "info"
                  [] job.kind = "tcrt"     -> IF limit > 0 THEN "truncated" ELSE "rest"
  /\ UNCHANGED <<geo, flash, loadinfo, job, filepos, limit, len, flash_offset, dump, before>>

\* The load info of a one-filer goes last.
WriteInfo ==
  /\ pc = "info" /\ pc' = "done"
  /\ loadinfo' = flash_offset % Word
  /\ UNCHANGED <<geo, flash, job, filepos, limit, len, flash_offset, pages_erased, dump, before>>

\* Mutant: what is erased already is not skipped.
ErasedAhead_None == 0

\* The pages behind the image that are erased already; a product of uint16_t.
ErasedAhead == (geo.page * pages_erased) % Word

\* write_tcrt, "erase remaining space in cart".
RestStart ==
  /\ pc = "rest"
  /\ IF geo.erase = 0
     THEN pc' = "fill" /\ UNCHANGED flash_offset
     ELSE /\ pc' = "restErase"
          /\ flash_offset' = flash_offset + geo.page - (flash_offset % geo.page) + ErasedAhead
  /\ UNCHANGED <<geo, flash, loadinfo, job, filepos, limit, len, pages_erased, dump, before>>

\* Mutant: the last bytes are left out.
More_WholeBuffers == flash_offset + BufferSize <= geo.total

More == flash_offset < geo.total

RestErase ==
  /\ pc = "restErase"
  /\ IF More
     THEN /\ flash' = EraseBlock(flash_offset)
          /\ flash_offset' = flash_offset + ((geo.page * geo.erase) % Word)
          /\ UNCHANGED pc
     ELSE pc' = "done" /\ UNCHANGED <<flash, flash_offset>>
  /\ UNCHANGED <<geo, loadinfo, job, filepos, limit, len, pages_erased, dump, before>>

Chunk == Min({geo.total - flash_offset, BufferSize})

\* The same on a cartridge without erase, a buffer at a time.
RestFill ==
  LET n == Chunk IN
  /\ pc = "fill"
  /\ IF More
     THEN /\ flash' = Written(flash_offset, n, [i \in 0 .. n - 1 |-> Erased])
          /\ flash_offset' = flash_offset + n
          /\ UNCHANGED pc
     ELSE pc' = "done" /\ UNCHANGED <<flash, flash_offset>>
  /\ UNCHANGED <<geo, loadinfo, job, filepos, limit, len, pages_erased, dump, before>>

-----------------------------------------------------------------------------
\* dump_flash_to_file, which the user may stop before any buffer.
DumpStart ==
  /\ Start("dump", "dump", 0, 0)
  /\ flash_offset' = 0 /\ dump' = <<>>
  /\ UNCHANGED <<loadinfo, limit, pages_erased>>

DumpStop ==
  /\ pc = "dump" /\ More /\ pc' = "stopped"
  /\ UNCHANGED <<geo, flash, loadinfo, job, filepos, limit, len, flash_offset, pages_erased, dump, before>>

DumpBuffer ==
  LET n == Chunk IN
  /\ pc = "dump"
  /\ IF More
     THEN /\ dump' = dump \o [i \in 1 .. n |-> flash[flash_offset + i - 1]]
          /\ flash_offset' = flash_offset + n
          /\ UNCHANGED pc
     ELSE pc' = "done" /\ UNCHANGED <<dump, flash_offset>>
  /\ UNCHANGED <<geo, flash, loadinfo, job, filepos, limit, len, pages_erased, before>>

\* Back to the menu.
Menu ==
  /\ pc \in {"done", "truncated", "stopped"} /\ pc' = "menu" /\ dump' = <<>>
  /\ UNCHANGED <<geo, flash, loadinfo, job, filepos, limit, len, flash_offset, pages_erased, before>>

-----------------------------------------------------------------------------
Init ==
  /\ geo \in Geometries
  /\ flash = [a \in Addr |-> Old] /\ before = flash
  /\ loadinfo = NoInfo /\ pc = "menu" /\ job = NoJob
  /\ filepos = 0 /\ limit = 0 /\ len = 0 /\ flash_offset = 0 /\ pages_erased = 0
  /\ dump = <<>>

Work ==
  \/ WriteFirst \/ ReadPage \/ ErasePage \/ WritePage \/ NextPage \/ WriteInfo
  \/ RestStart \/ RestErase \/ RestFill \/ DumpBuffer \/ Menu

Ask ==
  \/ \E file \in FileLens :
       \/ \E offset \in Offsets : WriteDatafile(offset, file)
       \/ \E size \in FileLens : WriteTcrt(size, file)
       \/ \E starter \in {0, StarterLen} : WriteOnefiler(starter, file)
  \/ DumpStart

Next == Ask \/ Work \/ DumpStop

Spec == Init /\ [][Next]_vars

FairSpec == Spec /\ WF_vars(Work)

-----------------------------------------------------------------------------
(***************************************************************************)
(* Types of the variables: the counters keep to their widths.              *)
(***************************************************************************)
TypeOK ==
  /\ geo \in Geometries
  /\ DOMAIN flash = Addr /\ DOMAIN before = Addr
  /\ loadinfo \in NoInfo .. Word - 1
  /\ pc \in {"menu", "first", "read", "erase", "write", "next", "info", "rest",
             "restErase", "fill", "dump", "done", "truncated", "stopped"}
  /\ len \in 0 .. BufferSize /\ pages_erased \in 0 .. Word - 1
  /\ filepos \in 0 .. job.file /\ limit \in Int /\ flash_offset \in Nat

\* The flash with n bytes of the file, from its byte i on, at address a and the
\* rest of the erase blocks they lie in erased.
Image(a, i, n) ==
  [b \in Addr |->
     IF b \in a .. a + n - 1 THEN <<job.nr, i + b - a>>
     ELSE IF geo.erase # 0 /\ \E c \in a .. a + n - 1 : b \in BlockOf(c) THEN Erased
     ELSE before[b]]

(***************************************************************************)
(* A data file written to the start of an erase block is in the flash, byte*)
(* for byte; of the rest only what shares its erase blocks has changed.    *)
(* Erasing goes by a count of pages, which must stay in step with the      *)
(* offset through files of any length.  A one-filer is there behind its    *)
(* load address and starter, which shift it against the pages, and the load*)
(* info stored last covers it all.                                         *)
(***************************************************************************)
FilesWritten ==
  /\ (pc = "done" /\ job.kind = "data" /\ (geo.erase = 0 \/ job.arg % Block = 0)) =>
       flash = Image(job.arg, 0, job.file)
  /\ (pc = "done" /\ job.kind = "onefiler") =>
       LET header == job.arg + 2 IN
       /\ flash = Image(0, -header, header + job.file)
       /\ loadinfo = header + job.file

(***************************************************************************)
(* A TCRT image of any length but 0 is in the flash and everything behind  *)
(* it is erased, in whatever page and block it ends; one whose file is     *)
(* shorter than it says is reported.                                       *)
(***************************************************************************)
TcrtWritten ==
  /\ (pc = "done" /\ job.kind = "tcrt" /\ (job.arg > 0 \/ geo.erase = 0)) =>
       flash = [b \in Addr |-> IF b < job.arg THEN <<job.nr, b>> ELSE Erased]
  /\ pc = "truncated" => job.file < job.arg

(***************************************************************************)
(* A dump that was not stopped is the flash, the last buffer included.     *)
(***************************************************************************)
DumpIsFlash ==
  (pc = "done" /\ job.kind = "dump") =>
    dump = [i \in 1 .. geo.total |-> flash[i - 1]]

\* The erase of the rest of a cartridge at a block of 64 KB, whose 16-bit size is 0.
Stuck == pc = "restErase" /\ More /\ Block % Word = 0

(***************************************************************************)
(* Every job ends, with one exception: on a cartridge with blocks of 64 KB *)
(* the erase behind an image stays at its block.  Every other job ends     *)
(* there too.                                                              *)
(***************************************************************************)
JobsEndOrStuck == pc # "menu" ~> (pc = "menu" \/ Stuck)

(***************************************************************************)
(* What doc/ProgRef.md says of the page and erase block sizes, that the    *)
(* flashtool will handle them, on all cartridges it names: every job ends. *)
(* (Blocks of 64 KB are those of its prototypes; see README.)              *)
(***************************************************************************)
JobsEnd == pc # "menu" ~> pc = "menu"

(***************************************************************************)
(* What doc/TCRT Format.md says of the length field: zero specifies that   *)
(* the entire flash memory is erased.  (See README.)                       *)
(***************************************************************************)
ZeroErasesAll ==
  (pc = "done" /\ job.kind = "tcrt" /\ job.arg = 0) =>
    \A a \in Addr : flash[a] = Erased

(***************************************************************************)
(* What the comment on write_file says, "write [...] everything if limit is*)
(* -1", at any offset a user types.  (See README.)                         *)
(***************************************************************************)
EverythingWritten ==
  (pc = "done" /\ job.kind = "data") =>
    \A i \in 0 .. job.file - 1 : flash[job.arg + i] = <<job.nr, i>>
=============================================================================
