--------------------------- MODULE FlashToolProofs -------------------------
(***************************************************************************)
(* Proofs about the flash tool: files, TCRT images and dumps are complete  *)
(* for every geometry, file length and offset.                             *)
(***************************************************************************)
EXTENDS FlashTool, ModArithmetic, SequenceTheorems

-----------------------------------------------------------------------------
(***************************************************************************)
(* The inductive invariant.  A job writes from Base on: Header bytes that  *)
(* are not in its file, and then the file.                                 *)
(***************************************************************************)
Base   == IF job.kind = "data" THEN job.arg ELSE 0
Header == IF job.kind = "onefiler" THEN job.arg + 2 ELSE 0
Aligned == geo.erase = 0 \/ Base % Block = 0

\* The flash when the job has written up to an address, and erased up to an edge.
Filled(upto, edge) ==
  [b \in Addr |-> IF Base <= b /\ b < upto THEN <<job.nr, b - Base - Header>>
                  ELSE IF upto <= b /\ b < edge THEN Erased
                  ELSE before[b]]

\* No more is to come of a file, or to go into an image.
Exhausted == filepos = job.file \/ limit = 0

\* Behind a page: flash_offset lies in the last page begun, whose end is top, and n
\* more pages are erased, up to the end of a block.
CursorAt(n, top, edge) ==
  /\ top % geo.page = 0 /\ flash_offset <= top /\ top < flash_offset + geo.page
  /\ top = flash_offset \/ Exhausted
  /\ edge = top + geo.page * n /\ edge % Block = 0
  /\ flash_offset > Base \/ edge = Base
  /\ flash = Filled(flash_offset, edge)

Cursor(n) == \E top, edge \in Nat : CursorAt(n, top, edge)

\* Before a page of which n pages from its start on are erased.
Ahead(n) ==
  /\ flash_offset % geo.page = 0
  /\ (flash_offset + geo.page * n) % Block = 0
  /\ flash = Filled(flash_offset, flash_offset + geo.page * n)

\* On a cartridge without erase.
Plain == flash = Filled(flash_offset, flash_offset)

Places ==
  /\ geo \in Geometries /\ flash = [b \in Addr |-> flash[b]]
  /\ job.nr \in Nat /\ job.file \in Nat /\ job.arg \in Nat /\ filepos \in 0 .. job.file
  /\ flash_offset \in Nat /\ len \in Nat /\ limit \in Int /\ pages_erased \in Nat

\* write_file, with so many bytes that are read but not written.
InLoop(pending) ==
  /\ job.kind \in {"data", "onefiler", "tcrt"}
  /\ pending <= filepos /\ flash_offset + pending = Base + Header + filepos
  /\ IF job.kind = "tcrt"
     THEN job.arg <= geo.total /\ limit = job.arg - filepos + pending /\ limit >= pending
     ELSE Base + Header + job.file <= geo.total /\ limit < 0
  /\ job.kind = "onefiler" => flash_offset > 0 /\ Header + job.file < Word

ReadInv ==
  /\ InLoop(0) /\ (limit = 0 => job.arg = 0)
  /\ geo.erase = 0 => Plain
  /\ geo.erase # 0 => pages_erased \in 0 .. geo.erase - 1
     /\ (Aligned => Cursor(pages_erased))

EraseInv ==
  /\ InLoop(len) /\ len \in 1 .. geo.page /\ geo.erase # 0
  /\ len < geo.page => filepos = job.file \/ limit = len
  /\ Aligned => Ahead(0)

WriteInv ==
  /\ InLoop(len) /\ len \in 1 .. geo.page
  /\ len < geo.page => filepos = job.file \/ limit = len
  /\ geo.erase = 0 => Plain
  /\ geo.erase # 0 => pages_erased \in 1 .. geo.erase /\ (Aligned => Ahead(pages_erased))

NextInv ==
  /\ InLoop(0)
  /\ len = 0 => (filepos = job.file \/ limit = 0) /\ (limit = 0 => job.arg = 0)
  /\ geo.erase = 0 => Plain
  /\ geo.erase # 0 /\ len = 0 => pages_erased \in 0 .. geo.erase - 1
     /\ (Aligned => Cursor(pages_erased))
  /\ geo.erase # 0 /\ len > 0 => pages_erased \in 1 .. geo.erase
     /\ (Aligned => Cursor(pages_erased - 1))

FirstInv ==
  /\ job.kind = "onefiler" /\ job.arg + 2 <= geo.page
  /\ filepos = 0 /\ flash_offset = Header /\ limit < 0
  /\ Header + job.file <= geo.total /\ Header + job.file < Word
  /\ flash = before
  /\ geo.erase # 0 => pages_erased = geo.erase - 1

\* The file is written; a block is erased when a byte of the file is in it.
FileInv ==
  /\ job.kind \in {"data", "onefiler"} /\ flash_offset = Base + Header + job.file
  /\ job.kind = "onefiler" => flash_offset < Word
  /\ geo.erase = 0 => Plain
  /\ geo.erase # 0 /\ Aligned =>
       \E edge \in Nat :
         /\ edge % Block = 0 /\ flash = Filled(flash_offset, edge)
         /\ \/ flash_offset = Base /\ edge = Base
            \/ Base < flash_offset /\ flash_offset <= edge /\ edge < flash_offset + Block

\* The image is written, and of the rest what lies below an address is erased.
ImageInv(a) ==
  \A b \in Addr : /\ b < job.arg => flash[b] = <<job.nr, b>>
                  /\ job.arg <= b /\ b < a => flash[b] = Erased

RestInv ==
  /\ job.kind = "tcrt" /\ flash_offset = job.arg
  /\ geo.erase = 0 => Plain
  /\ geo.erase # 0 /\ job.arg > 0 => pages_erased \in 0 .. geo.erase - 1
     /\ Cursor(pages_erased)

RestEraseInv ==
  /\ job.kind = "tcrt" /\ geo.erase # 0
  /\ job.arg > 0 =>
       \E edge \in Nat : /\ edge % Block = 0 /\ job.arg <= edge /\ ImageInv(edge)
                         /\ flash_offset \in {edge, edge + geo.page}

FillInv ==
  /\ job.kind = "tcrt" /\ geo.erase = 0 /\ job.arg <= flash_offset /\ ImageInv(flash_offset)

DumpInv ==
  /\ job.kind = "dump" /\ flash_offset <= geo.total
  /\ dump = [i \in 1 .. flash_offset |-> flash[i - 1]]

ToolInv ==
  /\ Places /\ FilesWritten /\ TcrtWritten /\ DumpIsFlash
  /\ pc = "first" => FirstInv
  /\ pc = "read" => ReadInv
  /\ pc = "erase" => EraseInv
  /\ pc = "write" => WriteInv
  /\ pc = "next" => NextInv
  /\ pc = "info" => FileInv /\ job.kind = "onefiler"
  /\ pc = "rest" => RestInv
  /\ pc = "restErase" => RestEraseInv
  /\ pc = "fill" => FillInv
  /\ pc = "dump" => DumpInv

-----------------------------------------------------------------------------
(***************************************************************************)
(* Pages and blocks.                                                       *)
(***************************************************************************)
LEMMA GeometryFacts ==
  ASSUME geo \in Geometries
  PROVE  /\ geo.total \in Nat \ {0} /\ geo.page \in Nat \ {0} /\ geo.page > 2
            /\ geo.erase \in Nat
         /\ 2 + StarterLen <= geo.page /\ StarterLen \in Nat /\ Word \in Nat \ {0}
            /\ BufferSize \in Nat \ {0}
         /\ Addr = 0 .. geo.total - 1
BY FlashToolAssumption DEF Addr

LEMMA BlockFacts ==
  ASSUME geo \in Geometries, geo.erase # 0
  PROVE  /\ Block = geo.page * geo.erase /\ Block \in Nat \ {0} /\ geo.erase > 1
         /\ Block % geo.page = 0 /\ geo.page < Block /\ geo.total % Block = 0
            /\ Block <= Word
         /\ geo.erase <= Word
<1>1. /\ geo.total \in Nat \ {0} /\ geo.page \in Nat \ {0} /\ geo.page > 2
         /\ geo.erase \in Nat
      /\ geo.erase > 1 /\ geo.total % (geo.page * geo.erase) = 0
         /\ geo.page * geo.erase <= Word
      /\ Word \in Nat
  BY FlashToolAssumption
<1>2. geo.page * geo.erase >= geo.page * 2 /\ geo.page * geo.erase \in Nat
  BY <1>1
<1>3. geo.page * geo.erase >= geo.erase
  BY <1>1
<1>4. (geo.page * geo.erase) % geo.page = 0
  BY <1>1, <1>2, Multiple
<1>5. QED  BY <1>1, <1>2, <1>3, <1>4 DEF Block

\* n pages, one page fewer, and the pages that are left of a block.
LEMMA PageProducts ==
  ASSUME NEW p \in Nat \ {0}, NEW n \in Nat
  PROVE  /\ p * n \in Nat /\ p * 0 = 0
         /\ n > 0 => p * (n - 1) = p * n - p /\ p <= p * n
         /\ \A m \in Nat : n < m => p * n + p <= p * m
  OBVIOUS

\* What is erased with an address: the block that starts at a multiple.
LEMMA EraseFrom ==
  ASSUME geo \in Geometries, geo.erase # 0,
         NEW e \in Nat, e % Block = 0, NEW a \in Nat, e <= a, a < e + Block
  PROVE  EraseBlock(a) =
           [b \in Addr |-> IF e <= b /\ b < e + Block THEN Erased ELSE flash[b]]
<1>1. Block \in Nat \ {0}
  BY BlockFacts
<1>2. a \div Block = e \div Block
  BY <1>1, BlockQuotient
<1>3. ASSUME NEW b \in Addr
      PROVE  b \in BlockOf(a) <=> e <= b /\ b < e + Block
  <2>1. b \in Nat
    BY <1>3, GeometryFacts
  <2>2. b \div Block = e \div Block <=> e <= b /\ b < e + Block
    BY <1>1, <2>1, BlockQuotient
  <2>3. QED  BY <1>2, <2>2 DEF BlockOf
<1>4. QED  BY <1>3 DEF EraseBlock

\* The blocks that hold a part of a stretch which starts with a block.
LEMMA Touched ==
  ASSUME geo \in Geometries, geo.erase # 0, NEW s \in Nat, NEW f \in Nat, NEW e \in Nat,
         s % Block = 0, e % Block = 0, s < f, f <= e, e < f + Block, NEW b \in Addr
  PROVE  (\E c \in s .. f - 1 : b \in BlockOf(c)) <=> s <= b /\ b < e
<1>1. Block \in Nat \ {0} /\ b \in Nat
  BY BlockFacts, GeometryFacts
<1>2. PICK d \in Nat : d = e - Block /\ d % Block = 0 /\ s <= d
  <2>1. PICK p \in Nat : s = Block * p
    BY <1>1, Multiple
  <2>2. PICK q \in Nat : e = Block * q
    BY <1>1, Multiple
  <2>3. s + Block <= e
    BY <1>1, <2>1, <2>2, MultipleGap
  <2>4. e - Block \in Nat /\ s <= e - Block
    BY <1>1, <2>3
  <2>5. q >= 1
    BY <1>1, <2>2, <2>3
  <2>6. e - Block = Block * (q - 1) /\ q - 1 \in Nat
    BY <1>1, <2>2, <2>5
  <2>7. (e - Block) % Block = 0
    BY <1>1, <2>4, <2>6, Multiple
  <2>8. QED  BY <2>4, <2>7
<1>3. ASSUME NEW c \in s .. f - 1, b \in BlockOf(c)
      PROVE  s <= b /\ b < e
  <2>1. c \in Nat /\ b \div Block = c \div Block
    BY <1>3 DEF BlockOf
  <2>2. PICK r \in Nat : r = c - (c % Block) /\ r % Block = 0 /\ r <= c /\ c < r + Block
    <3>1. c % Block \in 0 .. Block - 1
      BY <1>1, <2>1, DivMod
    <3>2. c - (c % Block) \in Nat /\ (c - (c % Block)) % Block = 0
      BY <1>1, <2>1, RoundDown
    <3>3. QED  BY <1>1, <2>1, <3>1, <3>2
  <2>3. c \div Block = r \div Block
    BY <1>1, <2>1, <2>2, BlockQuotient
  <2>4. r <= b /\ b < r + Block
    BY <1>1, <2>1, <2>2, <2>3, BlockQuotient
  <2>5. s <= r
    <3>1. SUFFICES ASSUME r < s  PROVE FALSE
      BY <2>2
    <3>2. PICK p \in Nat, q \in Nat : r = Block * p /\ s = Block * q
      BY <1>1, <2>2, Multiple
    <3>3. r + Block <= s
      BY <1>1, <3>1, <3>2, MultipleGap
    <3>4. QED  BY <1>1, <1>3, <2>1, <2>2, <3>3
  <2>6. r + Block <= e
    <3>1. r < e
      BY <1>3, <2>2
    <3>2. PICK p \in Nat, q \in Nat : r = Block * p /\ e = Block * q
      BY <1>1, <2>2, Multiple
    <3>3. QED  BY <1>1, <3>1, <3>2, MultipleGap
  <2>7. QED  BY <2>4, <2>5, <2>6, <2>2, <1>1
<1>4. ASSUME s <= b, b < e
      PROVE  \E c \in s .. f - 1 : b \in BlockOf(c)
  <2>1. CASE b < f
    BY <1>1, <1>4, <2>1 DEF BlockOf
  <2>2. CASE f <= b
    <3>1. f - 1 \in s .. f - 1 /\ f - 1 \in Nat /\ d <= f - 1 /\ f - 1 < d + Block
            /\ d <= b /\ b < d + Block
      BY <1>1, <1>2, <1>4, <2>2
    <3>2. PICK c \in s .. f - 1 : c = f - 1 /\ c \in Nat
      BY <3>1
    <3>3. c \div Block = d \div Block
      BY <1>1, <1>2, <3>1, <3>2, BlockQuotient
    <3>4. b \div Block = d \div Block
      BY <1>1, <1>2, <3>1, BlockQuotient
    <3>5. QED  BY <3>2, <3>3, <3>4 DEF BlockOf
  <2>3. QED  BY <1>1, <2>1, <2>2
<1>5. QED  BY <1>3, <1>4

\* The lesser of two numbers.
LEMMA Lesser ==
  ASSUME NEW m \in Int, NEW n \in Int
  PROVE  Min({m, n}) = IF m <= n THEN m ELSE n
<1>1. PICK k \in {m, n} : \A x \in {m, n} : k <= x
  <2>1. m <= n \/ n <= m
    OBVIOUS
  <2>2. QED  BY <2>1
<1>2. Min({m, n}) \in {m, n} /\ \A x \in {m, n} : Min({m, n}) <= x
  BY <1>1 DEF Min
<1>3. QED  BY <1>2

\* A stretch of addresses holds what the job has written.
LEMMA FilledAt ==
  ASSUME NEW u, NEW e, NEW b \in Addr
  PROVE  /\ Base <= b /\ b < u => Filled(u, e)[b] = <<job.nr, b - Base - Header>>
         /\ ~(Base <= b /\ b < u) /\ u <= b /\ b < e => Filled(u, e)[b] = Erased
         /\ ~(Base <= b /\ b < u) /\ ~(u <= b /\ b < e) => Filled(u, e)[b] = before[b]
BY DEF Filled

\* What a step leaves alone keeps its meaning.
LEMMA SameJob ==
  ASSUME UNCHANGED <<geo, job, before>>
  PROVE  /\ Addr' = Addr /\ Block' = Block /\ Base' = Base /\ Header' = Header
         /\ Aligned' <=> Aligned
         /\ \A u, e \in Nat : Filled(u, e)' = Filled(u, e)
BY DEF Addr, Block, Base, Header, Aligned, Filled

\* Two flashes are one when their bytes are.
LEMMA SameFlash ==
  ASSUME NEW f, NEW g, f = [b \in Addr |-> f[b]], g = [b \in Addr |-> g[b]],
         \A b \in Addr : f[b] = g[b]
  PROVE  f = g
OBVIOUS

\* Only behind the last step of a job is anything claimed of it.
LEMMA NoClaim ==
  ASSUME pc' \notin {"done", "truncated"}
  PROVE  FilesWritten' /\ TcrtWritten' /\ DumpIsFlash'
BY DEF FilesWritten, TcrtWritten, DumpIsFlash

LEMMA StartOffsets ==
  ASSUME ToolInv
  PROVE  Base \in Nat /\ Header \in Nat
BY DEF ToolInv, Places, Base, Header

-----------------------------------------------------------------------------
(***************************************************************************)
(* The loop of write_file.                                                 *)
(***************************************************************************)
\* When more is to come the job is at the start of a page.
LEMMA AtPage ==
  ASSUME NEW n \in Nat, geo \in Geometries, flash_offset \in Nat, Cursor(n), ~Exhausted
  PROVE  Ahead(n)
<1>1. PICK top, edge \in Nat :
        /\ top % geo.page = 0 /\ top = flash_offset
        /\ edge = top + geo.page * n /\ edge % Block = 0
        /\ flash = Filled(flash_offset, edge)
  BY DEF Cursor, CursorAt
<1>2. QED  BY <1>1 DEF Ahead

\* What is read is the next page of the file, or what the limit leaves of it.
LEMMA ReadKeeps ==
  ASSUME ToolInv, ReadPage
  PROVE  ToolInv'
<1>1. /\ Places /\ ReadInv /\ InLoop(0)
      /\ geo \in Geometries /\ filepos \in Nat /\ job.file \in Nat /\ job.arg \in Nat
      /\ filepos <= job.file /\ limit \in Int /\ flash_offset \in Nat
  BY DEF ToolInv, Places, ReadPage, ReadInv
<1>2. geo.page \in Nat \ {0} /\ geo.erase \in Nat
  BY <1>1, GeometryFacts
<1>3. PICK m \in Int : m = IF limit >= 0 /\ geo.page > limit THEN limit ELSE geo.page
  BY <1>1, <1>2
<1>4. m \in Nat /\ m <= geo.page /\ (m < geo.page => m = limit)
        /\ (limit >= 0 => m <= limit)
      /\ (m = 0 => limit = 0) /\ (limit = 0 => m = 0)
  BY <1>1, <1>2, <1>3
<1>5. len' = IF m <= job.file - filepos THEN m ELSE job.file - filepos
  BY <1>1, <1>3, Lesser DEF ReadPage, Read
<1>6. /\ len' \in 0 .. geo.page /\ filepos' = filepos + len' /\ filepos' <= job.file
         /\ filepos' \in Nat
      /\ len' < geo.page => filepos' = job.file \/ limit = len'
      /\ len' = 0 => filepos = job.file \/ limit = 0
      /\ limit >= 0 => len' <= limit
  BY <1>1, <1>2, <1>4, <1>5 DEF ReadPage
<1>7. len' > 0 => ~Exhausted
  BY <1>1, <1>4, <1>5 DEF Exhausted
<1>8. UNCHANGED <<geo, flash, job, limit, flash_offset, pages_erased, before>>
  BY DEF ReadPage
<1>9. Places'
  BY <1>1, <1>6, <1>8, SameJob DEF Places
<1>10. pc' \in {"next", "erase", "write"} /\ (pc' = "next" <=> len' = 0)
  BY <1>6 DEF ReadPage
<1>11. flash_offset = Base + Header + filepos /\ Base \in Nat /\ Header \in Nat
  BY <1>1, StartOffsets DEF InLoop
<1>12. ASSUME NEW n \in Nat, len' = n
       PROVE  InLoop(n)'
  <2>1. n <= filepos' /\ flash_offset + n = Base + Header + filepos'
    BY <1>1, <1>6, <1>11, <1>12
  <2>2. CASE job.kind = "tcrt"
    <3>1. job.arg <= geo.total /\ limit = job.arg - filepos /\ limit >= 0
      BY <1>1, <2>2 DEF InLoop
    <3>2. limit = job.arg - filepos' + n /\ limit >= n
      BY <1>1, <1>6, <1>12, <3>1
    <3>3. QED  BY <1>1, <1>8, <2>1, <2>2, <3>1, <3>2, SameJob DEF InLoop
  <2>3. CASE job.kind # "tcrt"
    BY <1>1, <1>8, <2>1, <2>3, SameJob DEF InLoop
  <2>4. QED  BY <2>2, <2>3
<1>13. Plain' <=> Plain
  BY <1>1, <1>8, SameJob DEF Plain
<1>14. CASE pc' = "next"
  <2>1. len' = 0 /\ filepos' = filepos
    BY <1>1, <1>6, <1>10, <1>14
  <2>2. Exhausted' <=> Exhausted
    BY <2>1, <1>8 DEF Exhausted
  <2>3. \A n \in Nat : Cursor(n)' <=> Cursor(n)
    <3>1. \A n, top, edge \in Nat : CursorAt(n, top, edge)' <=> CursorAt(n, top, edge)
      BY <1>1, <1>8, <2>2, SameJob DEF CursorAt
    <3>2. QED  BY <3>1 DEF Cursor
  <2>4. NextInv'
    BY <1>1, <1>2, <1>6, <1>8, <1>12, <1>13, <2>1, <2>3, SameJob DEF NextInv, ReadInv
  <2>5. QED  BY <1>9, <1>14, <2>4, NoClaim DEF ToolInv
<1>15. CASE pc' # "next"
  <2>1. len' \in 1 .. geo.page /\ ~Exhausted
    BY <1>2, <1>6, <1>7, <1>10, <1>15
  <2>2. geo.erase # 0 => pages_erased \in 0 .. geo.erase - 1
          /\ (Aligned => Ahead(pages_erased))
    BY <1>1, <1>2, <2>1, AtPage DEF ReadInv
  <2>3. \A n \in Nat : Ahead(n)' <=> Ahead(n)
    <3>1. TAKE n \in Nat
    <3>2. PICK k \in Nat : k = flash_offset + geo.page * n
      BY <1>1, <1>2, PageProducts
    <3>3. QED  BY <1>1, <1>8, <3>2, SameJob DEF Ahead
  <2>4. CASE pc' = "erase"
    <3>1. geo.erase # 0 /\ pages_erased = 0
      BY <2>4 DEF ReadPage
    <3>2. EraseInv'
      BY <1>2, <1>6, <1>8, <1>12, <2>1, <2>2, <2>3, <3>1, SameJob DEF EraseInv
    <3>3. QED  BY <1>9, <2>4, <3>2, NoClaim DEF ToolInv
  <2>5. CASE pc' = "write"
    <3>1. ~(geo.erase # 0 /\ pages_erased = 0)
      BY <2>5 DEF ReadPage
    <3>2. WriteInv'
      BY <1>1, <1>2, <1>6, <1>8, <1>12, <1>13, <2>1, <2>2, <2>3, <3>1, SameJob DEF
         WriteInv, ReadInv
    <3>3. QED  BY <1>9, <2>5, <3>2, NoClaim DEF ToolInv
  <2>6. QED  BY <1>10, <1>15, <2>4, <2>5
<1>16. QED  BY <1>14, <1>15

\* The block of the page that was read is erased.
LEMMA EraseKeeps ==
  ASSUME ToolInv, ErasePage
  PROVE  ToolInv'
<1>1. /\ Places /\ EraseInv /\ InLoop(len) /\ geo \in Geometries
         /\ flash_offset \in Nat /\ geo.erase # 0
      /\ len \in 1 .. geo.page
  BY DEF ToolInv, Places, ErasePage, EraseInv
<1>2. geo.page \in Nat \ {0} /\ geo.erase \in Nat /\ geo.erase > 1
        /\ Block \in Nat \ {0} /\ Block = geo.page * geo.erase
      /\ Addr = 0 .. geo.total - 1 /\ geo.total \in Nat
  BY <1>1, GeometryFacts, BlockFacts
<1>3. UNCHANGED <<geo, job, filepos, limit, len, flash_offset, before>> /\ pc' = "write"
      /\ pages_erased' = geo.erase /\ flash' = EraseBlock(flash_offset)
  BY DEF ErasePage
<1>4. Places'
  BY <1>1, <1>2, <1>3, SameJob DEF Places, EraseBlock
<1>5. InLoop(len)'
  BY <1>1, <1>3, SameJob DEF InLoop
<1>6. ASSUME Aligned
      PROVE  Ahead(geo.erase)'
  <2>1. /\ flash_offset % geo.page = 0 /\ flash_offset % Block = 0
        /\ flash = Filled(flash_offset, flash_offset)
    BY <1>1, <1>2, <1>6 DEF EraseInv, Ahead
  <2>2. PICK e \in Nat : e = flash_offset + geo.page * geo.erase /\ e = flash_offset + Block
    BY <1>1, <1>2
  <2>3. e % Block = 0
    <3>1. Block % Block = 0
      BY <1>2
    <3>2. (flash_offset + Block) % Block = 0
      BY <1>1, <1>2, <2>1, <3>1, AddMultiple
    <3>3. QED  BY <2>2, <3>2
  <2>4. flash' = [b \in Addr |-> IF flash_offset <= b /\ b < e THEN Erased ELSE flash[b]]
    <3>1. flash_offset <= flash_offset /\ flash_offset < flash_offset + Block
      BY <1>1, <1>2
    <3>2. EraseBlock(flash_offset) =
            [b \in Addr |->
               IF flash_offset <= b /\ b < flash_offset + Block THEN Erased ELSE flash[b]]
      BY <1>1, <2>1, <3>1, EraseFrom
    <3>3. QED  BY <1>3, <2>2, <3>2
  <2>5. ASSUME NEW b \in Addr
        PROVE  flash'[b] = Filled(flash_offset, e)[b]
    <3>1. b \in Int
      BY <1>2, <2>5
    <3>2. CASE flash_offset <= b
      <4>1. CASE b < e
        BY <1>1, <2>4, <3>1, <3>2, <4>1, FilledAt
      <4>2. CASE ~(b < e)
        <5>1. ~(b < flash_offset)
          BY <1>1, <3>1, <3>2
        <5>2. flash'[b] = flash[b]
          BY <2>4, <4>2
        <5>3. QED  BY <2>1, <3>2, <4>2, <5>1, <5>2, FilledAt
      <4>3. QED  BY <4>1, <4>2
    <3>3. CASE ~(flash_offset <= b)
      <4>1. flash'[b] = flash[b]
        BY <2>4, <3>3
      <4>2. QED  BY <2>1, <3>3, <4>1, FilledAt
    <3>4. QED  BY <3>2, <3>3
  <2>6. flash' = Filled(flash_offset, e)
    BY <2>4, <2>5 DEF Filled
  <2>7. QED  BY <1>1, <1>3, <2>1, <2>2, <2>3, <2>6, SameJob DEF Ahead
<1>7. WriteInv'
  BY <1>1, <1>2, <1>3, <1>5, <1>6, SameJob DEF WriteInv, EraseInv
<1>8. QED  BY <1>3, <1>4, <1>7, NoClaim DEF ToolInv

\* What is written goes where the job was, over what is erased.
LEMMA WriteKeeps ==
  ASSUME ToolInv, WritePage
  PROVE  ToolInv'
<1>1. /\ Places /\ WriteInv /\ InLoop(len) /\ geo \in Geometries /\ flash_offset \in Nat
      /\ len \in 1 .. geo.page /\ filepos \in Nat /\ limit \in Int /\ job.arg \in Nat
  BY DEF ToolInv, Places, WritePage, WriteInv
<1>2. geo.page \in Nat \ {0} /\ geo.erase \in Nat /\ Addr = 0 .. geo.total - 1
        /\ geo.total \in Nat
  BY <1>1, GeometryFacts
<1>3. UNCHANGED <<geo, job, filepos, len, pages_erased, before>> /\ pc' = "next"
      /\ flash_offset' = flash_offset + len /\ limit' = limit - len
      /\ flash' = Written(flash_offset, len,
         [i \in 0 .. len - 1 |-> Byte(filepos - len + i)])
  BY DEF WritePage
<1>4. Places'
  BY <1>1, <1>2, <1>3, SameJob DEF Places, Written
<1>5. /\ flash_offset + len = Base + Header + filepos /\ Base \in Nat
         /\ Header \in Nat /\ len <= filepos
      /\ Base <= flash_offset
  BY <1>1, <1>2, StartOffsets DEF InLoop
<1>6. InLoop(0)'
  <2>1. flash_offset' + 0 = Base + Header + filepos
          /\ (job.kind = "onefiler" => flash_offset' > 0)
    BY <1>1, <1>2, <1>3, <1>5
  <2>2. CASE job.kind = "tcrt"
    BY <1>1, <1>2, <1>3, <2>1, <2>2, SameJob DEF InLoop
  <2>3. CASE job.kind # "tcrt"
    BY <1>1, <1>2, <1>3, <2>1, <2>3, SameJob DEF InLoop
  <2>4. QED  BY <2>2, <2>3
<1>7. len < geo.page => Exhausted'
  BY <1>1, <1>2, <1>3 DEF WriteInv, Exhausted
<1>8. PICK f \in Nat : f = flash_offset + len
  BY <1>1, <1>2
<1>9. ASSUME NEW e \in Nat, f <= e \/ geo.erase = 0,
             geo.erase = 0 => e = f,
             flash = Filled(flash_offset, IF geo.erase = 0 THEN flash_offset ELSE e)
      PROVE  flash' = Filled(f, e)
  <2>1. ASSUME NEW b \in Addr
        PROVE  flash'[b] = Filled(f, e)[b]
    <3>1. b \in Int
      BY <1>2, <2>1
    <3>2. CASE b \in flash_offset .. flash_offset + len - 1
      <4>1. flash_offset <= b /\ b < f /\ Base <= b
        BY <1>1, <1>2, <1>5, <1>8, <3>1, <3>2
      <4>2. PICK i \in 0 .. len - 1 : i = b - flash_offset
        BY <1>1, <1>2, <1>8, <3>1, <4>1
      <4>3. geo.erase = 0 \/ flash[b] = Erased
        <5>1. CASE geo.erase # 0
          <6>1. flash_offset <= b /\ b < e /\ ~(b < flash_offset)
            BY <1>1, <1>2, <1>8, <1>9, <3>1, <4>1, <5>1
          <6>2. QED  BY <1>9, <5>1, <6>1, FilledAt
        <5>2. QED  BY <5>1
      <4>4. flash'[b] = Byte(filepos - len + i)
        BY <1>3, <3>2, <4>2, <4>3 DEF Written
      <4>5. filepos - len + i = b - Base - Header
        BY <1>1, <1>2, <1>5, <3>1, <4>2
      <4>6. QED  BY <4>1, <4>4, <4>5, FilledAt DEF Byte
    <3>3. CASE b \notin flash_offset .. flash_offset + len - 1
      <4>1. flash'[b] = flash[b]
        BY <1>3, <3>3 DEF Written
      <4>2. b < flash_offset \/ f <= b
        BY <1>1, <1>2, <1>8, <3>1, <3>3
      <4>3. CASE b < flash_offset
        <5>1. b < f /\ ~(flash_offset <= b) /\ ~(f <= b)
          BY <1>1, <1>2, <1>8, <3>1, <4>3
        <5>2. CASE Base <= b
          BY <1>9, <4>1, <4>3, <5>1, <5>2, FilledAt
        <5>3. CASE ~(Base <= b)
          BY <1>9, <4>1, <4>3, <5>1, <5>3, FilledAt
        <5>4. QED  BY <5>2, <5>3
      <4>4. CASE f <= b
        <5>1. ~(b < f) /\ ~(b < flash_offset) /\ flash_offset <= b
          BY <1>1, <1>2, <1>8, <3>1, <4>4
        <5>2. CASE geo.erase = 0
          <6>1. ~(b < e)
            BY <1>9, <5>1, <5>2
          <6>2. flash[b] = before[b]
            BY <1>9, <5>1, <5>2, FilledAt
          <6>3. QED  BY <4>1, <5>1, <6>1, <6>2, FilledAt
        <5>3. CASE geo.erase # 0
          <6>1. CASE b < e
            BY <1>9, <4>1, <4>4, <5>1, <5>3, <6>1, FilledAt
          <6>2. CASE ~(b < e)
            BY <1>9, <4>1, <4>4, <5>1, <5>3, <6>2, FilledAt
          <6>3. QED  BY <6>1, <6>2
        <5>4. QED  BY <5>2, <5>3
      <4>5. QED  BY <4>2, <4>3, <4>4
    <3>4. QED  BY <3>2, <3>3
  <2>2. flash' = [b \in Addr |-> flash'[b]]
    BY <1>3 DEF Written
  <2>3. QED  BY <2>1, <2>2 DEF Filled
<1>10. flash_offset' = f
  BY <1>3, <1>8
<1>11. geo.erase = 0 => Plain'
  <2>1. SUFFICES ASSUME geo.erase = 0  PROVE Plain'
    OBVIOUS
  <2>2. flash = Filled(flash_offset, flash_offset)
    BY <1>1, <2>1 DEF WriteInv, Plain
  <2>3. flash' = Filled(f, f)
    BY <1>9, <2>1, <2>2
  <2>4. QED  BY <1>3, <1>10, <2>3, SameJob DEF Plain
<1>12. ASSUME geo.erase # 0, Aligned
       PROVE  Cursor(pages_erased - 1)'
  <2>1. pages_erased \in 1 .. geo.erase /\ Ahead(pages_erased)
    BY <1>1, <1>12 DEF WriteInv
  <2>2. /\ geo.page * pages_erased \in Nat /\ geo.page <= geo.page * pages_erased
        /\ geo.page * (pages_erased - 1) = geo.page * pages_erased - geo.page
    BY <1>2, <2>1, PageProducts
  <2>3. PICK top \in Nat, edge \in Nat :
          top = flash_offset + geo.page /\ edge = flash_offset + geo.page * pages_erased
    BY <1>1, <1>2, <2>2
  <2>4. flash = Filled(flash_offset, edge) /\ edge % Block = 0 /\ f <= edge
    BY <1>1, <1>2, <1>8, <2>1, <2>2, <2>3 DEF Ahead
  <2>5. flash' = Filled(f, edge)
    BY <1>9, <1>12, <2>4
  <2>6. top % geo.page = 0
    <3>1. flash_offset % geo.page = 0 /\ geo.page % geo.page = 0
      BY <1>2, <2>1 DEF Ahead
    <3>2. QED  BY <1>1, <1>2, <2>3, <3>1, AddMultiple
  <2>7. f <= top /\ top < f + geo.page /\ (top = f \/ Exhausted') /\ f > Base
    BY <1>1, <1>2, <1>5, <1>7, <1>8, <2>3
  <2>8. edge = top + geo.page * (pages_erased - 1)
    BY <1>1, <1>2, <2>1, <2>2, <2>3
  <2>9. CursorAt(pages_erased - 1, top, edge)'
    BY <1>3, <1>10, <2>4, <2>5, <2>6, <2>7, <2>8, <1>8, SameJob DEF CursorAt
  <2>10. QED  BY <2>9 DEF Cursor
<1>13. NextInv'
  BY <1>1, <1>2, <1>3, <1>6, <1>11, <1>12, SameJob DEF NextInv, WriteInv
<1>14. QED  BY <1>3, <1>4, <1>13, NoClaim DEF ToolInv

\* The file is written when the loop ends without a limit.
LEMMA LoopEnds ==
  ASSUME ToolInv, NextPage, ~GoOn, job.kind \in {"data", "onefiler"}
  PROVE  FileInv
<1>1. /\ Places /\ NextInv /\ InLoop(0) /\ geo \in Geometries /\ flash_offset \in Nat
         /\ len \in Nat
      /\ limit \in Int /\ filepos \in Nat /\ job.file \in Nat
  BY DEF ToolInv, Places, NextPage, NextInv
<1>2. geo.page \in Nat \ {0} /\ geo.erase \in Nat /\ Base \in Nat /\ Header \in Nat
  BY <1>1, GeometryFacts, StartOffsets
<1>3. limit < 0 /\ flash_offset = Base + Header + filepos
  BY <1>1, <1>2 DEF InLoop
<1>4. len = 0 /\ filepos = job.file
  BY <1>1, <1>3 DEF GoOn, NextInv
<1>5. job.kind = "onefiler" => flash_offset < Word /\ flash_offset > 0 /\ Base = 0
  BY <1>1, <1>2, <1>3, <1>4 DEF InLoop, Base
<1>6. ASSUME geo.erase # 0, Aligned
      PROVE  \E edge \in Nat :
               /\ edge % Block = 0 /\ flash = Filled(flash_offset, edge)
               /\ \/ flash_offset = Base /\ edge = Base
                  \/ Base < flash_offset /\ flash_offset <= edge
                     /\ edge < flash_offset + Block
  <2>1. pages_erased \in 0 .. geo.erase - 1
    BY <1>1, <1>4, <1>6 DEF NextInv
  <2>2. PICK top \in Nat, edge \in Nat : CursorAt(pages_erased, top, edge)
    BY <1>1, <1>4, <1>6 DEF NextInv, Cursor
  <2>3. /\ flash_offset <= top /\ top < flash_offset + geo.page
           /\ edge = top + geo.page * pages_erased
        /\ edge % Block = 0 /\ flash = Filled(flash_offset, edge)
           /\ (flash_offset > Base \/ edge = Base)
    BY <2>2 DEF CursorAt
  <2>4. Block = geo.page * geo.erase /\ Block \in Nat
    BY <1>1, <1>6, BlockFacts
  <2>5. geo.page * pages_erased + geo.page <= Block /\ geo.page * pages_erased \in Nat
    BY <1>2, <2>1, <2>4, PageProducts
  <2>6. flash_offset <= edge /\ edge < flash_offset + Block /\ Base <= flash_offset
    BY <1>1, <1>2, <1>3, <2>3, <2>4, <2>5
  <2>7. (flash_offset = Base /\ edge = Base) \/ Base < flash_offset
    BY <1>1, <1>2, <2>3, <2>6
  <2>8. QED  BY <2>3, <2>6, <2>7
<1>7. geo.erase = 0 => Plain
  BY <1>1 DEF NextInv
<1>8. QED  BY <1>3, <1>4, <1>5, <1>6, <1>7 DEF FileInv

\* It is then in the flash, in erased blocks, and nothing else is touched.
LEMMA FileImage ==
  ASSUME ToolInv, FileInv, Aligned, NEW first \in Int, first + Header = 0
  PROVE  flash = Image(Base, first, Header + job.file)
<1>1. Places /\ geo \in Geometries /\ flash_offset \in Nat /\ job.file \in Nat
  BY DEF ToolInv, Places
<1>2. geo.page \in Nat \ {0} /\ geo.erase \in Nat /\ Base \in Nat /\ Header \in Nat
      /\ Addr = 0 .. geo.total - 1 /\ geo.total \in Nat
  BY <1>1, GeometryFacts, StartOffsets
<1>3. flash_offset = Base + Header + job.file
        /\ Base + (Header + job.file) - 1 = flash_offset - 1
  BY <1>1, <1>2 DEF FileInv
<1>4. PICK edge \in Nat :
        /\ flash = Filled(flash_offset, edge)
        /\ geo.erase = 0 => edge = flash_offset
        /\ geo.erase # 0 => /\ edge % Block = 0 /\ Base % Block = 0
                            /\ \/ flash_offset = Base /\ edge = Base
                               \/ Base < flash_offset /\ flash_offset <= edge
                                  /\ edge < flash_offset + Block
  BY <1>1, <1>2 DEF FileInv, Plain, Aligned
<1>5. ASSUME NEW b \in Addr
      PROVE  flash[b] = Image(Base, first, Header + job.file)[b]
  <2>1. b \in Int
    BY <1>2, <1>5
  <2>2. CASE Base <= b /\ b < flash_offset
    <3>1. b \in Base .. Base + (Header + job.file) - 1
      BY <1>1, <1>2, <1>3, <2>1, <2>2
    <3>2. first + b - Base = b - Base - Header
      BY <1>2, <2>1
    <3>3. flash[b] = <<job.nr, b - Base - Header>>
      BY <1>4, <2>2, FilledAt
    <3>4. QED  BY <3>1, <3>2, <3>3 DEF Image
  <2>3. CASE ~(Base <= b /\ b < flash_offset)
    <3>1. b \notin Base .. Base + (Header + job.file) - 1
      BY <1>1, <1>2, <1>3, <2>1, <2>3
    <3>2. Base .. Base + (Header + job.file) - 1 = Base .. flash_offset - 1
      BY <1>3
    <3>3. CASE geo.erase = 0
      <4>1. ~(flash_offset <= b /\ b < edge)
        BY <1>1, <1>4, <2>1, <3>3
      <4>2. flash[b] = before[b]
        BY <1>4, <2>3, <4>1, FilledAt
      <4>3. QED  BY <3>1, <3>3, <4>2 DEF Image
    <3>4. CASE geo.erase # 0
      <4>1. (\E c \in Base .. flash_offset - 1 : b \in BlockOf(c))
              <=> flash_offset <= b /\ b < edge
        <5>1. CASE flash_offset = Base
          <6>1. Base .. flash_offset - 1 = {} /\ edge = Base
            BY <1>1, <1>2, <1>4, <3>4, <5>1
          <6>2. QED  BY <1>1, <2>1, <5>1, <6>1
        <5>2. CASE flash_offset # Base
          <6>1. /\ edge % Block = 0 /\ Base % Block = 0
                /\ Base < flash_offset /\ flash_offset <= edge
                   /\ edge < flash_offset + Block
            BY <1>4, <3>4, <5>2
          <6>2. (\E c \in Base .. flash_offset - 1 : b \in BlockOf(c))
                  <=> Base <= b /\ b < edge
            BY <1>1, <1>2, <3>4, <6>1, Touched
          <6>3. Base <= b /\ b < edge <=> flash_offset <= b /\ b < edge
            BY <1>1, <1>2, <2>1, <2>3, <6>1
          <6>4. QED  BY <6>2, <6>3
        <5>3. QED  BY <5>1, <5>2
      <4>2. CASE flash_offset <= b /\ b < edge
        <5>1. flash[b] = Erased
          BY <1>4, <2>3, <4>2, FilledAt
        <5>2. QED  BY <3>1, <3>2, <3>4, <4>1, <4>2, <5>1 DEF Image
      <4>3. CASE ~(flash_offset <= b /\ b < edge)
        <5>1. flash[b] = before[b]
          BY <1>4, <2>3, <4>3, FilledAt
        <5>2. QED  BY <3>1, <3>2, <3>4, <4>1, <4>3, <5>1 DEF Image
      <4>4. QED  BY <4>2, <4>3
    <3>5. QED  BY <3>3, <3>4
  <2>4. QED  BY <2>2, <2>3
<1>6. QED  BY <1>4, <1>5 DEF Filled, Image

\* A page is counted as used, and the loop goes on or the job goes on behind it.
LEMMA NextKeeps ==
  ASSUME ToolInv, NextPage
  PROVE  ToolInv'
<1>1. /\ Places /\ NextInv /\ InLoop(0) /\ geo \in Geometries /\ flash_offset \in Nat
         /\ len \in Nat
      /\ limit \in Int /\ filepos \in Nat /\ job.file \in Nat /\ job.arg \in Nat
         /\ job.nr \in Nat
  BY DEF ToolInv, Places, NextPage, NextInv
<1>2. geo.page \in Nat \ {0} /\ geo.erase \in Nat /\ Base \in Nat /\ Header \in Nat
        /\ Word \in Nat \ {0}
  BY <1>1, GeometryFacts, StartOffsets
<1>3. UNCHANGED <<geo, flash, loadinfo, job, filepos, limit, len, flash_offset, dump,
        before>>
      /\ pages_erased' = PageDone
  BY DEF NextPage
<1>4. Places'
  <2>1. pages_erased - 1 \in Int
    BY <1>1 DEF Places
  <2>2. PageDone \in Nat
    BY <1>2, <2>1 DEF PageDone
  <2>3. QED  BY <1>1, <1>3, <2>2, SameJob DEF Places
\* What was erased behind a page still is, and counted.
<1>5. ASSUME geo.erase # 0, len > 0
      PROVE  /\ pages_erased' \in 0 .. geo.erase - 1
             /\ Aligned => Cursor(pages_erased')
  <2>1. pages_erased \in 1 .. geo.erase /\ (Aligned => Cursor(pages_erased - 1))
    BY <1>1, <1>2, <1>5 DEF NextInv
  <2>2. geo.erase <= Word
    BY <1>1, <1>5, BlockFacts
  <2>3. PICK n \in Nat : n = pages_erased - 1 /\ n < Word /\ n <= geo.erase - 1
    BY <1>2, <2>1, <2>2
  <2>4. n % Word = n
    BY <1>2, <2>3
  <2>5. PageDone = n
    BY <2>3, <2>4 DEF PageDone
  <2>6. QED  BY <1>2, <1>3, <2>1, <2>3, <2>5
<1>6. ASSUME NEW n \in Nat
      PROVE  Cursor(n)' <=> Cursor(n)
  <2>1. Exhausted' <=> Exhausted
    BY <1>3 DEF Exhausted
  <2>2. \A top, edge \in Nat : CursorAt(n, top, edge)' <=> CursorAt(n, top, edge)
    BY <1>1, <1>3, <1>6, <2>1, SameJob DEF CursorAt
  <2>3. QED  BY <2>2 DEF Cursor
<1>7. Plain' <=> Plain
  BY <1>1, <1>3, SameJob DEF Plain
<1>8. CASE GoOn
  <2>1. pc' = "read" /\ len > 0 /\ limit # 0
    BY <1>1, <1>8 DEF NextPage, GoOn
  <2>2. InLoop(0)'
    BY <1>1, <1>3, SameJob DEF InLoop
  <2>3. geo.erase # 0 => pages_erased' \in 0 .. geo.erase - 1
          /\ (Aligned => Cursor(pages_erased'))
    BY <1>5, <2>1
  <2>4. PICK n : n = pages_erased'
    OBVIOUS
  <2>5. geo.erase # 0 => n \in Nat
    BY <1>2, <2>3, <2>4
  <2>6. geo.erase # 0 => n \in 0 .. geo.erase - 1 /\ (Aligned => Cursor(n))
    BY <2>3, <2>4
  <2>7. geo.erase # 0 => (Aligned => Cursor(n)')
    BY <1>6, <2>5, <2>6
  <2>8. geo.erase # 0 => (Aligned => Cursor(pages_erased)')
    BY <2>4, <2>7 DEF Cursor, CursorAt
  <2>9. geo.erase = 0 => Plain
    BY <1>1 DEF NextInv
  <2>10. ReadInv'
    BY <1>3, <1>7, <2>1, <2>2, <2>3, <2>8, <2>9, SameJob DEF ReadInv
  <2>11. QED  BY <1>4, <2>1, <2>10, NoClaim DEF ToolInv
<1>9. CASE ~GoOn
  <2>1. job.kind \in {"data", "onefiler", "tcrt"}
    BY <1>1 DEF InLoop
  <2>2. CASE job.kind = "data"
    <3>1. pc' = "done"
      BY <1>9, <2>2 DEF NextPage
    <3>2. ASSUME geo.erase = 0 \/ job.arg % Block = 0
          PROVE  flash = Image(job.arg, 0, job.file)
      <4>1. Base = job.arg /\ Header = 0 /\ 0 + Header = 0 /\ Header + job.file = job.file
        <5>1. Base = job.arg /\ Header = 0
          BY <2>2 DEF Base, Header
        <5>2. QED  BY <1>1, <1>2, <5>1
      <4>2. Aligned
        BY <3>2, <4>1 DEF Aligned
      <4>3. FileInv
        BY <1>9, <2>2, LoopEnds
      <4>4. flash = Image(Base, 0, Header + job.file)
        BY <4>1, <4>2, <4>3, FileImage
      <4>5. QED  BY <4>1, <4>4
    <3>3. Image(job.arg, 0, job.file)' = Image(job.arg, 0, job.file)
      BY <1>3 DEF Image, Addr, BlockOf, Block
    <3>4. FilesWritten' /\ TcrtWritten' /\ DumpIsFlash'
      BY <1>3, <2>2, <3>1, <3>2, <3>3, SameJob DEF FilesWritten, TcrtWritten,
         DumpIsFlash
    <3>5. QED  BY <1>4, <3>1, <3>4 DEF ToolInv
  <2>3. CASE job.kind = "onefiler"
    <3>1. pc' = "info"
      BY <1>9, <2>3 DEF NextPage
    <3>2. FileInv
      BY <1>9, <2>3, LoopEnds
    <3>3. FileInv'
      BY <1>1, <1>2, <1>3, <1>7, <3>2, SameJob DEF FileInv
    <3>4. QED  BY <1>3, <1>4, <2>3, <3>1, <3>3, NoClaim DEF ToolInv
  <2>4. CASE job.kind = "tcrt"
    <3>1. Base = 0 /\ Header = 0 /\ flash_offset = filepos
            /\ limit = job.arg - filepos /\ limit >= 0
      BY <1>1, <1>2, <2>4 DEF InLoop, Base, Header
    <3>2. CASE limit > 0
      <4>1. pc' = "truncated" /\ len = 0 /\ filepos = job.file
        BY <1>1, <1>9, <2>4, <3>2 DEF NextPage, GoOn, NextInv
      <4>2. job.file < job.arg
        BY <1>1, <3>1, <3>2, <4>1
      <4>3. FilesWritten' /\ TcrtWritten' /\ DumpIsFlash'
        BY <1>3, <4>1, <4>2 DEF FilesWritten, TcrtWritten, DumpIsFlash
      <4>4. QED  BY <1>4, <4>1, <4>3 DEF ToolInv
    <3>3. CASE limit = 0
      <4>1. pc' = "rest"
        BY <1>9, <2>4, <3>3 DEF NextPage
      <4>2. flash_offset = job.arg
        BY <1>1, <3>1, <3>3
      <4>3. job.arg > 0 => len > 0
        BY <1>1, <3>3 DEF NextInv
      <4>4. Aligned
        BY <1>1, <3>1, BlockFacts DEF Aligned
      <4>5. geo.erase # 0 /\ job.arg > 0 => pages_erased' \in 0 .. geo.erase - 1
              /\ Cursor(pages_erased')
        BY <1>5, <4>3, <4>4
      <4>6. PICK n : n = pages_erased'
        OBVIOUS
      <4>7. geo.erase # 0 /\ job.arg > 0 => n \in Nat /\ Cursor(n)
        BY <1>2, <4>5, <4>6
      <4>8. geo.erase # 0 /\ job.arg > 0 => Cursor(n)'
        BY <1>6, <4>7
      <4>9. geo.erase # 0 /\ job.arg > 0 => Cursor(pages_erased)'
        BY <4>6, <4>8 DEF Cursor, CursorAt
      <4>10. RestInv'
        BY <1>1, <1>3, <1>7, <2>4, <4>2, <4>5, <4>9 DEF RestInv, NextInv
      <4>11. QED  BY <1>4, <4>1, <4>10, NoClaim DEF ToolInv
    <3>4. QED  BY <1>1, <3>1, <3>2, <3>3
  <2>5. QED  BY <2>1, <2>2, <2>3, <2>4
<1>10. QED  BY <1>8, <1>9

\* With the load info a one-filer is complete.
LEMMA InfoKeeps ==
  ASSUME ToolInv, WriteInfo
  PROVE  ToolInv'
<1>1. /\ Places /\ FileInv /\ job.kind = "onefiler" /\ geo \in Geometries
         /\ flash_offset \in Nat
      /\ job.file \in Nat /\ job.arg \in Nat
  BY DEF ToolInv, Places, WriteInfo
<1>2. UNCHANGED <<geo, flash, job, filepos, limit, len, flash_offset, pages_erased, dump,
        before>>
      /\ pc' = "done" /\ loadinfo' = flash_offset % Word
  BY DEF WriteInfo
<1>3. Base = 0 /\ Header = job.arg + 2 /\ flash_offset = Header + job.file
        /\ flash_offset < Word
  BY <1>1 DEF FileInv, Base, Header
<1>4. Aligned
  BY <1>1, <1>3, BlockFacts DEF Aligned
<1>5. flash = Image(0, -(job.arg + 2), job.arg + 2 + job.file)
  <2>1. -(job.arg + 2) \in Int /\ -(job.arg + 2) + Header = 0
    BY <1>1, <1>3
  <2>2. flash = Image(Base, -(job.arg + 2), Header + job.file)
    BY <1>1, <1>4, <2>1, FileImage
  <2>3. QED  BY <1>3, <2>2
<1>6. loadinfo' = job.arg + 2 + job.file
  <2>1. Word \in Nat \ {0}
    BY <1>1, GeometryFacts
  <2>2. flash_offset % Word = flash_offset
    BY <1>1, <1>3, <2>1
  <2>3. QED  BY <1>2, <1>3, <2>2
<1>7. Image(0, -(job.arg + 2), job.arg + 2 + job.file)'
        = Image(0, -(job.arg + 2), job.arg + 2 + job.file)
  BY <1>2 DEF Image, Addr, BlockOf, Block
<1>8. FilesWritten' /\ TcrtWritten' /\ DumpIsFlash'
  BY <1>1, <1>2, <1>5, <1>6, <1>7 DEF FilesWritten, TcrtWritten, DumpIsFlash
<1>9. Places'
  BY <1>1, <1>2, SameJob DEF Places
<1>10. QED  BY <1>2, <1>8, <1>9 DEF ToolInv

-----------------------------------------------------------------------------
(***************************************************************************)
(* Behind an image.                                                        *)
(***************************************************************************)
\* Where an image that is written ends, the rest is erased up to some address.
LEMMA ImageThere ==
  ASSUME ToolInv, RestInv, NEW e \in Nat, flash = Filled(flash_offset, e)
  PROVE  ImageInv(e)
<1>1. Places /\ job.kind = "tcrt" /\ flash_offset = job.arg /\ job.arg \in Nat
        /\ geo \in Geometries
  BY DEF ToolInv, Places, RestInv
<1>2. Base = 0 /\ Header = 0 /\ Addr = 0 .. geo.total - 1 /\ geo.total \in Nat
  BY <1>1, GeometryFacts DEF Base, Header
<1>3. SUFFICES ASSUME NEW b \in Addr
               PROVE  /\ b < job.arg => flash[b] = <<job.nr, b>>
                      /\ job.arg <= b /\ b < e => flash[b] = Erased
  BY DEF ImageInv
<1>4. b \in Nat /\ 0 <= b /\ b - 0 - 0 = b
  BY <1>2
<1>5. CASE b < job.arg
  <2>1. flash[b] = <<job.nr, b - Base - Header>>
    BY <1>1, <1>2, <1>4, <1>5, FilledAt
  <2>2. b - Base - Header = b /\ ~(job.arg <= b)
    BY <1>1, <1>2, <1>4, <1>5
  <2>3. QED  BY <1>5, <2>1, <2>2
<1>6. CASE ~(b < job.arg)
  BY <1>1, <1>2, <1>4, <1>6, FilledAt
<1>7. QED  BY <1>5, <1>6

\* The first page or block that is not erased comes next.
LEMMA RestKeeps ==
  ASSUME ToolInv, RestStart
  PROVE  ToolInv'
<1>1. /\ Places /\ RestInv /\ geo \in Geometries /\ flash_offset \in Nat /\ job.arg \in Nat
      /\ job.kind = "tcrt" /\ flash_offset = job.arg
  BY DEF ToolInv, Places, RestStart, RestInv
<1>2. geo.page \in Nat \ {0} /\ geo.page > 2 /\ geo.erase \in Nat
        /\ Word \in Nat \ {0} /\ Base = 0
  BY <1>1, GeometryFacts DEF Base
<1>3. UNCHANGED <<geo, flash, loadinfo, job, filepos, limit, len, pages_erased, dump,
        before>>
  BY DEF RestStart
<1>4. CASE geo.erase = 0
  <2>1. pc' = "fill" /\ flash_offset' = flash_offset
    BY <1>4 DEF RestStart
  <2>2. ImageInv(flash_offset)
    BY <1>1, <1>4, ImageThere DEF RestInv, Plain
  <2>3. ImageInv(flash_offset)'
    BY <1>3, <2>1, <2>2 DEF ImageInv, Addr
  <2>4. FillInv'
    BY <1>1, <1>3, <1>4, <2>1, <2>3 DEF FillInv
  <2>5. Places'
    BY <1>1, <1>3, <2>1, SameJob DEF Places
  <2>6. QED  BY <2>1, <2>4, <2>5, NoClaim DEF ToolInv
<1>5. CASE geo.erase # 0
  <2>1. pc' = "restErase"
          /\ flash_offset' = flash_offset + geo.page - (flash_offset % geo.page) + ErasedAhead
    BY <1>5 DEF RestStart
  <2>2. flash_offset % geo.page \in 0 .. geo.page - 1
    BY <1>1, <1>2, DivMod
  <2>3. ErasedAhead \in Nat
    <3>1. pages_erased \in Nat
      BY <1>1 DEF Places
    <3>2. geo.page * pages_erased \in Nat
      BY <1>2, <3>1, PageProducts
    <3>3. QED  BY <1>2, <3>2, DivMod DEF ErasedAhead
  <2>4. flash_offset' \in Nat
    BY <1>1, <1>2, <2>1, <2>2, <2>3
  <2>5. ASSUME job.arg > 0
        PROVE  \E edge \in Nat : /\ edge % Block = 0 /\ job.arg <= edge /\ ImageInv(edge)
                                 /\ flash_offset' \in {edge, edge + geo.page}
    <3>1. pages_erased \in 0 .. geo.erase - 1
      BY <1>1, <1>5, <2>5 DEF RestInv
    <3>2. PICK top \in Nat, edge \in Nat : CursorAt(pages_erased, top, edge)
      BY <1>1, <1>5, <2>5 DEF RestInv, Cursor
    <3>3. /\ top % geo.page = 0 /\ flash_offset <= top /\ top < flash_offset + geo.page
          /\ edge = top + geo.page * pages_erased /\ edge % Block = 0
             /\ flash = Filled(flash_offset, edge)
      BY <3>2 DEF CursorAt
    <3>4. Block = geo.page * geo.erase /\ Block \in Nat /\ Block <= Word
      BY <1>1, <1>5, BlockFacts
    <3>5. geo.page * pages_erased + geo.page <= Block /\ geo.page * pages_erased \in Nat
      BY <1>2, <3>1, <3>4, PageProducts
    <3>6. PICK ahead \in Nat : ahead = geo.page * pages_erased /\ ahead < Word
      BY <1>2, <3>4, <3>5
    <3>7. ErasedAhead = ahead
      <4>1. ahead % Word = ahead
        BY <1>2, <3>6
      <4>2. QED  BY <3>6, <4>1 DEF ErasedAhead
    <3>8. ImageInv(edge) /\ job.arg <= edge
      BY <1>1, <1>2, <3>3, <3>5, ImageThere
    <3>9. flash_offset' \in {edge, edge + geo.page}
      <4>1. CASE flash_offset % geo.page = 0
        <5>1. top = flash_offset
          <6>1. SUFFICES ASSUME flash_offset < top  PROVE FALSE
            BY <1>1, <3>3
          <6>2. flash_offset - (flash_offset % geo.page) + geo.page <= top
            BY <1>1, <1>2, <3>3, <6>1, RoundDown
          <6>3. QED  BY <1>1, <1>2, <3>3, <4>1, <6>2
        <5>2. QED  BY <1>1, <1>2, <2>1, <3>3, <3>6, <3>7, <4>1, <5>1
      <4>2. CASE flash_offset % geo.page # 0
        <5>1. flash_offset < top
          BY <1>1, <3>3, <4>2
        <5>2. flash_offset - (flash_offset % geo.page) + geo.page <= top
          BY <1>1, <1>2, <3>3, <5>1, RoundDown
        <5>3. PICK r \in Nat : /\ r = flash_offset - (flash_offset % geo.page) + geo.page
                               /\ r % geo.page = 0 /\ r <= top /\ top < r + geo.page
          <6>1. flash_offset - (flash_offset % geo.page) \in Nat
                /\ (flash_offset - (flash_offset % geo.page)) % geo.page = 0
            BY <1>1, <1>2, RoundDown
          <6>2. geo.page % geo.page = 0
            BY <1>2
          <6>3. (flash_offset - (flash_offset % geo.page) + geo.page) % geo.page = 0
            BY <1>2, <6>1, <6>2, AddMultiple
          <6>4. QED  BY <1>1, <1>2, <2>2, <3>3, <4>2, <5>2, <6>1, <6>3
        <5>4. top = r
          <6>1. SUFFICES ASSUME r < top  PROVE FALSE
            BY <5>3
          <6>2. r - (r % geo.page) + geo.page <= top
            BY <1>2, <3>3, <5>3, <6>1, RoundDown
          <6>3. QED  BY <1>2, <5>3, <6>2
        <5>5. flash_offset' = edge
          BY <1>1, <1>2, <2>1, <2>2, <3>3, <3>6, <3>7, <5>3, <5>4
        <5>6. QED  BY <5>5
      <4>3. QED  BY <4>1, <4>2
    <3>10. QED  BY <3>3, <3>8, <3>9
  <2>6. \A e \in Nat : ImageInv(e)' <=> ImageInv(e)
    BY <1>3 DEF ImageInv, Addr
  <2>7. Block' = Block
    BY <1>3 DEF Block
  <2>8. RestEraseInv'
    BY <1>1, <1>3, <1>5, <2>5, <2>6, <2>7 DEF RestEraseInv
  <2>9. Places'
    BY <1>1, <1>3, <2>4, SameJob DEF Places
  <2>10. QED  BY <2>1, <2>8, <2>9, NoClaim DEF ToolInv
<1>6. QED  BY <1>4, <1>5

\* A block is erased that starts where the last one ended; the last ends the flash.
LEMMA RestEraseKeeps ==
  ASSUME ToolInv, RestErase
  PROVE  ToolInv'
<1>1. /\ Places /\ RestEraseInv /\ geo \in Geometries /\ flash_offset \in Nat
         /\ job.arg \in Nat
      /\ job.kind = "tcrt" /\ geo.erase # 0 /\ flash = [b \in Addr |-> flash[b]]
  BY DEF ToolInv, Places, RestErase, RestEraseInv
<1>2. /\ geo.page \in Nat \ {0} /\ geo.total \in Nat \ {0} /\ Word \in Nat \ {0}
         /\ Addr = 0 .. geo.total - 1
      /\ Block \in Nat \ {0} /\ Block = geo.page * geo.erase /\ geo.page < Block
         /\ geo.total % Block = 0
  BY <1>1, GeometryFacts, BlockFacts
<1>3. UNCHANGED <<geo, loadinfo, job, filepos, limit, len, pages_erased, dump, before>>
      /\ Addr' = Addr /\ Block' = Block
  BY DEF RestErase, Addr, Block
\* No block ends behind the flash.
<1>4. ASSUME NEW e \in Nat, e % Block = 0, e < geo.total
      PROVE  e + Block <= geo.total
  <2>1. PICK p \in Nat, q \in Nat : e = Block * p /\ geo.total = Block * q
    BY <1>2, <1>4, Multiple
  <2>2. QED  BY <1>2, <1>4, <2>1, MultipleGap
<1>5. CASE More
  <2>1. /\ pc' = "restErase" /\ flash' = EraseBlock(flash_offset)
           /\ flash_offset < geo.total
        /\ flash_offset' = flash_offset + (Block % Word)
    BY <1>2, <1>5 DEF RestErase, More
  <2>2. Block % Word \in Nat
    <3>1. Block \in Nat /\ Word \in Nat \ {0}
      BY <1>2
    <3>2. QED  BY <3>1, DivMod
  <2>3. Places'
    BY <1>1, <1>3, <2>1, <2>2, SameJob DEF Places, EraseBlock
  <2>4. ASSUME job.arg > 0
        PROVE  \E edge \in Nat : /\ edge % Block = 0 /\ job.arg <= edge /\ ImageInv(edge)'
                                 /\ flash_offset' \in {edge, edge + geo.page}
    <3>1. PICK e \in Nat : /\ e % Block = 0 /\ job.arg <= e /\ ImageInv(e)
                           /\ flash_offset \in {e, e + geo.page}
      BY <1>1, <2>4 DEF RestEraseInv
    <3>2. e <= flash_offset /\ flash_offset < e + Block
      BY <1>1, <1>2, <3>1
    <3>3. flash' = [b \in Addr |-> IF e <= b /\ b < e + Block THEN Erased ELSE flash[b]]
      BY <1>1, <2>1, <3>1, <3>2, EraseFrom
    <3>4. PICK f \in Nat : f = e + Block
      BY <1>2
    <3>5. f % Block = 0
      <4>1. Block % Block = 0
        BY <1>2
      <4>2. QED  BY <1>2, <3>1, <3>4, <4>1, AddMultiple
    <3>6. ImageInv(e)' /\ ImageInv(f)'
      <4>1. ASSUME NEW b \in Addr
            PROVE  /\ b < job.arg => flash'[b] = <<job.nr, b>>
                   /\ job.arg <= b /\ b < f => flash'[b] = Erased
        <5>1. b \in Int
          BY <1>2, <4>1
        <5>2. flash'[b] = IF e <= b /\ b < f THEN Erased ELSE flash[b]
          BY <3>3, <3>4
        <5>3. /\ b < job.arg => flash[b] = <<job.nr, b>>
              /\ job.arg <= b /\ b < e => flash[b] = Erased
          BY <3>1 DEF ImageInv
        <5>4. (b < job.arg => ~(e <= b)) /\ (b < e \/ e <= b)
          BY <1>1, <3>1, <5>1
        <5>5. QED  BY <5>2, <5>3, <5>4
      <4>2. e <= f
        BY <1>2, <3>4
      <4>3. \A b \in Addr : b < e => b < f
        BY <1>2, <4>2
      <4>4. QED  BY <1>3, <4>1, <4>3 DEF ImageInv
    <3>7. Block % Word = Block \/ Block % Word = 0
      <4>1. CASE Block = Word
        BY <1>2, <4>1
      <4>2. CASE Block # Word
        <5>1. Block < Word
          BY <1>1, <1>2, <4>2, BlockFacts
        <5>2. QED  BY <1>2, <5>1
      <4>3. QED  BY <4>1, <4>2
    <3>8. CASE Block % Word = Block
      <4>1. job.arg <= f /\ flash_offset' \in {f, f + geo.page}
        BY <1>1, <1>2, <2>1, <3>1, <3>4, <3>8
      <4>2. QED  BY <3>5, <3>6, <4>1
    <3>9. CASE Block % Word = 0
      <4>1. flash_offset' = flash_offset
        BY <1>1, <2>1, <3>9
      <4>2. QED  BY <3>1, <3>6, <4>1
    <3>10. QED  BY <3>7, <3>8, <3>9
  <2>5. RestEraseInv'
    BY <1>1, <1>3, <2>4 DEF RestEraseInv
  <2>6. QED  BY <2>1, <2>3, <2>5, NoClaim DEF ToolInv
<1>6. CASE ~More
  <2>1. pc' = "done" /\ UNCHANGED <<flash, flash_offset>> /\ ~(flash_offset < geo.total)
    BY <1>6 DEF RestErase, More
  <2>2. ASSUME job.arg > 0
        PROVE  flash = [b \in Addr |-> IF b < job.arg THEN <<job.nr, b>> ELSE Erased]
    <3>1. PICK e \in Nat : /\ e % Block = 0 /\ job.arg <= e /\ ImageInv(e)
                           /\ flash_offset \in {e, e + geo.page}
      BY <1>1, <2>2 DEF RestEraseInv
    <3>2. geo.total <= e
      BY <1>1, <1>2, <1>4, <2>1, <3>1
    <3>3. ASSUME NEW b \in Addr
          PROVE  flash[b] = IF b < job.arg THEN <<job.nr, b>> ELSE Erased
      <4>1. b < e /\ b \in Nat
        BY <1>2, <3>2, <3>3
      <4>2. /\ b < job.arg => flash[b] = <<job.nr, b>>
            /\ job.arg <= b /\ b < e => flash[b] = Erased
        BY <3>1 DEF ImageInv
      <4>3. b < job.arg \/ job.arg <= b
        BY <1>1, <4>1
      <4>4. QED  BY <4>1, <4>2, <4>3
    <3>4. QED  BY <1>1, <3>3
  <2>3. FilesWritten' /\ TcrtWritten' /\ DumpIsFlash'
    BY <1>1, <1>3, <2>1, <2>2 DEF FilesWritten, TcrtWritten, DumpIsFlash
  <2>4. Places'
    BY <1>1, <1>3, <2>1, SameJob DEF Places
  <2>5. QED  BY <2>1, <2>3, <2>4 DEF ToolInv
<1>7. QED  BY <1>5, <1>6

\* The rest is filled up to its end.
LEMMA FillKeeps ==
  ASSUME ToolInv, RestFill
  PROVE  ToolInv'
<1>1. /\ Places /\ FillInv /\ geo \in Geometries /\ flash_offset \in Nat /\ job.arg \in Nat
      /\ job.kind = "tcrt" /\ geo.erase = 0 /\ flash = [b \in Addr |-> flash[b]]
      /\ job.arg <= flash_offset /\ ImageInv(flash_offset)
  BY DEF ToolInv, Places, RestFill, FillInv
<1>2. geo.total \in Nat \ {0} /\ BufferSize \in Nat \ {0} /\ Addr = 0 .. geo.total - 1
  BY <1>1, GeometryFacts
<1>3. UNCHANGED <<geo, loadinfo, job, filepos, limit, len, pages_erased, dump,
        before>> /\ Addr' = Addr
  BY DEF RestFill, Addr
<1>4. CASE More
  <2>1. flash_offset < geo.total
    BY <1>4 DEF More
  <2>2. PICK n \in Nat : n = Chunk
    <3>1. PICK m \in Nat : m = geo.total - flash_offset
      BY <1>1, <1>2, <2>1
    <3>2. Min({m, BufferSize}) \in Nat
      BY <1>2, Lesser
    <3>3. QED  BY <3>1, <3>2 DEF Chunk
  <2>3. PICK f \in Nat : f = flash_offset + n
    BY <1>1
  <2>4. /\ pc' = "fill" /\ flash_offset' = f
        /\ flash' = Written(flash_offset, n, [i \in 0 .. n - 1 |-> Erased])
    BY <1>4, <2>2, <2>3 DEF RestFill
  <2>5. Places'
    BY <1>1, <1>3, <2>4, SameJob DEF Places, Written
  <2>6. ASSUME NEW b \in Addr
        PROVE  /\ b < job.arg => flash'[b] = <<job.nr, b>>
               /\ job.arg <= b /\ b < f => flash'[b] = Erased
    <3>1. b \in Int
      BY <1>2, <2>6
    <3>2. /\ b < job.arg => flash[b] = <<job.nr, b>>
          /\ job.arg <= b /\ b < flash_offset => flash[b] = Erased
      BY <1>1 DEF ImageInv
    <3>3. CASE b \in flash_offset .. flash_offset + n - 1
      <4>1. b - flash_offset \in 0 .. n - 1 /\ ~(b < job.arg)
        BY <1>1, <3>1, <3>3
      <4>2. flash'[b] = Erased
        BY <1>1, <2>4, <3>3, <4>1 DEF Written
      <4>3. QED  BY <4>1, <4>2
    <3>4. CASE b \notin flash_offset .. flash_offset + n - 1
      <4>1. flash'[b] = flash[b]
        BY <2>4, <3>4 DEF Written
      <4>2. b < f => b < flash_offset
        BY <1>1, <2>3, <3>1, <3>4
      <4>3. QED  BY <3>2, <4>1, <4>2
    <3>5. QED  BY <3>3, <3>4
  <2>7. ImageInv(f)'
    BY <1>3, <2>6 DEF ImageInv
  <2>8. ImageInv(flash_offset)'
    BY <2>4, <2>7 DEF ImageInv
  <2>9. job.arg <= f
    BY <1>1, <2>3
  <2>10. FillInv'
    BY <1>1, <1>3, <2>4, <2>8, <2>9 DEF FillInv
  <2>11. QED  BY <2>4, <2>5, <2>10, NoClaim DEF ToolInv
<1>5. CASE ~More
  <2>1. pc' = "done" /\ UNCHANGED <<flash, flash_offset>> /\ ~(flash_offset < geo.total)
    BY <1>5 DEF RestFill, More
  <2>2. ASSUME NEW b \in Addr
        PROVE  flash[b] = IF b < job.arg THEN <<job.nr, b>> ELSE Erased
    <3>1. b < flash_offset /\ b \in Nat
      BY <1>1, <1>2, <2>1, <2>2
    <3>2. QED  BY <1>1, <3>1 DEF ImageInv
  <2>3. flash = [b \in Addr |-> IF b < job.arg THEN <<job.nr, b>> ELSE Erased]
    BY <1>1, <2>2
  <2>4. FilesWritten' /\ TcrtWritten' /\ DumpIsFlash'
    BY <1>1, <1>3, <2>1, <2>3 DEF FilesWritten, TcrtWritten, DumpIsFlash
  <2>5. Places'
    BY <1>1, <1>3, <2>1, SameJob DEF Places
  <2>6. QED  BY <2>1, <2>4, <2>5 DEF ToolInv
<1>6. QED  BY <1>4, <1>5

-----------------------------------------------------------------------------
(***************************************************************************)
(* Dumps, and the menu.                                                    *)
(***************************************************************************)
LEMMA Joined ==
  ASSUME NEW f, NEW m \in Nat, NEW n \in Nat
  PROVE  [i \in 1 .. m |-> f[i - 1]] \o [i \in 1 .. n |-> f[m + i - 1]]
           = [i \in 1 .. m + n |-> f[i - 1]]
<1> DEFINE s == [i \in 1 .. m |-> f[i - 1]]
           t == [i \in 1 .. n |-> f[m + i - 1]]
           V == {f[i - 1] : i \in 1 .. m} \cup {f[m + i - 1] : i \in 1 .. n}
<1>1. s \in Seq(V) /\ t \in Seq(V) /\ Len(s) = m /\ Len(t) = n
  <2>1. s \in [1 .. m -> V] /\ t \in [1 .. n -> V]
    OBVIOUS
  <2>2. s \in Seq(V) /\ t \in Seq(V)
    <3>1. \A k \in Nat : \A q \in [1 .. k -> V] : q \in Seq(V)
      BY SeqDef
    <3>2. QED  BY <2>1, <3>1
  <2>3. DOMAIN s = 1 .. m /\ DOMAIN t = 1 .. n
    OBVIOUS
  <2>4. QED  BY <2>2, <2>3, LenProperties
<1>2. s \o t \in Seq(V) /\ Len(s \o t) = m + n
  BY <1>1
<1>3. ASSUME NEW i \in 1 .. m + n
      PROVE  (s \o t)[i] = f[i - 1]
  <2>1. CASE i <= m
    BY <1>1, <2>1
  <2>2. CASE ~(i <= m)
    <3>1. PICK j \in 1 .. n : i = m + j
      BY <2>2
    <3>2. (s \o t)[i] = t[j]
      BY <1>1, <2>2, <3>1
    <3>3. QED  BY <3>1, <3>2
  <2>3. QED  BY <2>1, <2>2
<1>4. QED  BY <1>2, <1>3

\* A dump grows by a buffer that continues it.
LEMMA DumpKeeps ==
  ASSUME ToolInv, DumpBuffer
  PROVE  ToolInv'
<1>1. /\ Places /\ DumpInv /\ geo \in Geometries /\ flash_offset \in Nat
         /\ job.kind = "dump"
      /\ flash_offset <= geo.total /\ dump = [i \in 1 .. flash_offset |-> flash[i - 1]]
  BY DEF ToolInv, Places, DumpBuffer, DumpInv
<1>2. geo.total \in Nat \ {0} /\ BufferSize \in Nat \ {0}
  BY <1>1, GeometryFacts
<1>3. UNCHANGED <<geo, flash, loadinfo, job, filepos, limit, len, pages_erased, before>>
  BY DEF DumpBuffer
<1>4. CASE More
  <2>1. flash_offset < geo.total
    BY <1>4 DEF More
  <2>2. PICK n \in Nat : n = Chunk /\ flash_offset + n <= geo.total
    <3>1. PICK m \in Nat : m = geo.total - flash_offset
      BY <1>1, <1>2, <2>1
    <3>2. Min({m, BufferSize}) \in Nat /\ Min({m, BufferSize}) <= m
      BY <1>2, Lesser
    <3>3. PICK n \in Nat : n = Min({m, BufferSize}) /\ n <= m
      BY <3>2
    <3>4. n = Chunk
      BY <3>1, <3>3 DEF Chunk
    <3>5. QED  BY <1>1, <1>2, <3>1, <3>3, <3>4
  <2>3. PICK f \in Nat : f = flash_offset + n /\ f <= geo.total
    BY <1>1, <2>2
  <2>4. /\ pc' = "dump" /\ flash_offset' = f
        /\ dump' = dump \o [i \in 1 .. n |-> flash[flash_offset + i - 1]]
    BY <1>4, <2>2, <2>3 DEF DumpBuffer
  <2>5. dump' = [i \in 1 .. f |-> flash[i - 1]]
    BY <1>1, <2>3, <2>4, Joined
  <2>6. DumpInv'
    BY <1>1, <1>3, <2>3, <2>4, <2>5 DEF DumpInv
  <2>7. Places'
    BY <1>1, <1>3, <2>4, SameJob DEF Places
  <2>8. QED  BY <2>4, <2>6, <2>7, NoClaim DEF ToolInv
<1>5. CASE ~More
  <2>1. pc' = "done" /\ UNCHANGED <<dump, flash_offset>> /\ flash_offset = geo.total
    BY <1>1, <1>2, <1>5 DEF DumpBuffer, More
  <2>2. FilesWritten' /\ TcrtWritten' /\ DumpIsFlash'
    BY <1>1, <1>3, <2>1 DEF FilesWritten, TcrtWritten, DumpIsFlash
  <2>3. Places'
    BY <1>1, <1>3, <2>1, SameJob DEF Places
  <2>4. QED  BY <2>1, <2>2, <2>3 DEF ToolInv
<1>6. QED  BY <1>4, <1>5

LEMMA StopKeeps ==
  ASSUME ToolInv, DumpStop \/ Menu
  PROVE  ToolInv'
<1>1. UNCHANGED <<geo, flash, job, filepos, limit, len, flash_offset, pages_erased, before>>
      /\ pc' \in {"stopped", "menu"}
  BY DEF DumpStop, Menu
<1>2. Places'
  BY <1>1, SameJob DEF ToolInv, Places
<1>3. QED  BY <1>1, <1>2, NoClaim DEF ToolInv

\* What every job begins with.
LEMMA Begun ==
  ASSUME ToolInv, NEW to, NEW kind, NEW file \in Nat, NEW arg \in Nat,
         Start(to, kind, file, arg),
         flash_offset' \in Nat, limit' \in Int, pages_erased' \in Nat
  PROVE  /\ Places' /\ Places /\ geo \in Geometries /\ UNCHANGED <<geo, flash, len>>
            /\ pc' = to /\ before' = flash /\ filepos' = 0
         /\ job'.kind = kind /\ job'.file = file /\ job'.arg = arg
         /\ Addr' = Addr /\ Block' = Block
         /\ Base' = (IF kind = "data" THEN arg ELSE 0)
            /\ Header' = (IF kind = "onefiler" THEN arg + 2 ELSE 0)
BY DEF Start, ToolInv, Places, Addr, Block, Base, Header

\* Before a job has written anything the flash is as it was.
LEMMA Untouched ==
  ASSUME ToolInv, NEW u \in Nat, Places', before' = flash', Base' \in Nat, u = Base'
  PROVE  Filled(u, u)' = flash'
<1>1. ASSUME NEW b \in Addr'
      PROVE  Filled(u, u)'[b] = flash'[b]
  <2>1. b \in Int
    BY <1>1, GeometryFacts DEF Places, Addr
  <2>2. ~(Base' <= b /\ b < u) /\ ~(u <= b /\ b < u)
    BY <2>1
  <2>3. QED  BY <1>1, <2>2 DEF Filled
<1>2. QED  BY <1>1 DEF Filled, Places

LEMMA DataStarts ==
  ASSUME ToolInv, NEW offset \in Nat, NEW file \in Nat, WriteDatafile(offset, file)
  PROVE  ToolInv'
<1>1. Start("read", "data", file, offset) /\ offset + file <= geo.total
      /\ limit' = -1 /\ flash_offset' = offset /\ pages_erased' = 0
  BY DEF WriteDatafile
<1>2. /\ Places' /\ geo \in Geometries /\ UNCHANGED <<geo, flash>> /\ pc' = "read"
         /\ before' = flash
      /\ filepos' = 0 /\ job'.kind = "data" /\ job'.file = file /\ job'.arg = offset
      /\ Base' = offset /\ Header' = 0 /\ Block' = Block
  BY <1>1, Begun
<1>3. geo.page \in Nat \ {0} /\ geo.erase \in Nat
  BY <1>2, GeometryFacts
<1>4. InLoop(0)'
  BY <1>1, <1>2 DEF InLoop
<1>5. Filled(offset, offset)' = flash'
  BY <1>2, Untouched
<1>6. geo'.erase = 0 => Plain'
  BY <1>1, <1>5 DEF Plain
<1>7. ASSUME geo.erase # 0, Aligned'
      PROVE  Cursor(0)'
  <2>1. offset % Block = 0
    BY <1>2, <1>7 DEF Aligned
  <2>2. offset % geo.page = 0
    BY <1>2, <1>3, <1>7, <2>1, BlockFacts, Divides
  <2>3. offset = offset + geo.page * 0
    BY <1>3, PageProducts
  <2>4. CursorAt(0, offset, offset)'
    BY <1>1, <1>2, <1>3, <1>5, <2>1, <2>2, <2>3 DEF CursorAt
  <2>5. QED  BY <2>4 DEF Cursor
<1>8. geo.erase # 0 => geo.erase > 1
  BY <1>2, BlockFacts
<1>9. (geo.erase # 0 /\ Aligned') => Cursor(pages_erased)'
  BY <1>1, <1>7 DEF Cursor, CursorAt
<1>10. ReadInv'
  BY <1>1, <1>2, <1>3, <1>4, <1>6, <1>8, <1>9 DEF ReadInv
<1>11. QED  BY <1>2, <1>10, NoClaim DEF ToolInv

LEMMA TcrtStarts ==
  ASSUME ToolInv, NEW size \in Nat, NEW file \in Nat, WriteTcrt(size, file)
  PROVE  ToolInv'
<1>1. Start("read", "tcrt", file, size) /\ size <= geo.total
      /\ limit' = size /\ flash_offset' = 0 /\ pages_erased' = 0
  BY DEF WriteTcrt
<1>2. /\ Places' /\ geo \in Geometries /\ UNCHANGED <<geo, flash>> /\ pc' = "read"
         /\ before' = flash
      /\ filepos' = 0 /\ job'.kind = "tcrt" /\ job'.file = file /\ job'.arg = size
      /\ Base' = 0 /\ Header' = 0 /\ Block' = Block
  BY <1>1, Begun
<1>3. geo.page \in Nat \ {0} /\ geo.erase \in Nat
  BY <1>2, GeometryFacts
<1>4. InLoop(0)'
  BY <1>1, <1>2 DEF InLoop
<1>5. Filled(0, 0)' = flash'
  BY <1>2, Untouched
<1>6. geo'.erase = 0 => Plain'
  BY <1>1, <1>5 DEF Plain
<1>7. ASSUME geo.erase # 0
      PROVE  Cursor(0)'
  <2>1. 0 % Block = 0 /\ 0 % geo.page = 0 /\ 0 = 0 + geo.page * 0
    <3>1. Block \in Nat \ {0}
      BY <1>2, <1>7, BlockFacts
    <3>2. 0 % Block = 0 /\ 0 % geo.page = 0
      BY <1>3, <3>1
    <3>3. geo.page * 0 = 0
      BY <1>3
    <3>4. QED  BY <3>2, <3>3
  <2>2. CursorAt(0, 0, 0)'
    BY <1>1, <1>2, <1>3, <1>5, <2>1 DEF CursorAt
  <2>3. QED  BY <2>2 DEF Cursor
<1>8. geo.erase # 0 => geo.erase > 1
  BY <1>2, BlockFacts
<1>9. geo.erase # 0 => Cursor(pages_erased)'
  BY <1>1, <1>7 DEF Cursor, CursorAt
<1>10. ReadInv'
  BY <1>1, <1>2, <1>3, <1>4, <1>6, <1>8, <1>9 DEF ReadInv
<1>11. QED  BY <1>2, <1>10, NoClaim DEF ToolInv

LEMMA OnefilerStarts ==
  ASSUME ToolInv, NEW starter \in {0, StarterLen}, NEW file \in Nat,
         WriteOnefiler(starter, file)
  PROVE  ToolInv'
<1>1. Start("first", "onefiler", file, starter)
      /\ starter + 2 + file <= geo.total /\ starter + 2 + file < Word
      /\ limit' = -1 /\ flash_offset' = starter + 2
      /\ pages_erased' = IF geo.erase = 0 THEN 0 ELSE geo.erase - 1
  BY DEF WriteOnefiler
<1>2. geo \in Geometries /\ starter \in Nat /\ starter + 2 <= geo.page /\ geo.erase \in Nat
  <2>1. geo \in Geometries
    BY DEF ToolInv, Places
  <2>2. StarterLen \in Nat /\ 2 + StarterLen <= geo.page /\ geo.page \in Nat
          /\ geo.erase \in Nat
    BY <2>1, GeometryFacts
  <2>3. CASE starter = 0
    BY <2>1, <2>2, <2>3
  <2>4. CASE starter = StarterLen
    BY <2>1, <2>2, <2>4
  <2>5. QED  BY <2>3, <2>4
<1>3. flash_offset' \in Nat /\ pages_erased' \in Nat /\ limit' \in Int
  BY <1>1, <1>2
<1>4. /\ Places' /\ UNCHANGED <<geo, flash>> /\ pc' = "first" /\ before' = flash
      /\ filepos' = 0 /\ job'.kind = "onefiler" /\ job'.file = file /\ job'.arg = starter
      /\ Header' = starter + 2
  BY <1>1, <1>2, <1>3, Begun
<1>5. FirstInv'
  BY <1>1, <1>2, <1>4 DEF FirstInv
<1>6. QED  BY <1>4, <1>5, NoClaim DEF ToolInv

LEMMA DumpStarts ==
  ASSUME ToolInv, DumpStart
  PROVE  ToolInv'
<1>1. Start("dump", "dump", 0, 0) /\ flash_offset' = 0 /\ dump' = <<>>
        /\ UNCHANGED <<limit, pages_erased>>
  BY DEF DumpStart
<1>2. flash_offset' \in Nat /\ pages_erased' \in Nat /\ limit' \in Int
  BY <1>1 DEF ToolInv, Places
<1>3. /\ Places' /\ geo \in Geometries /\ UNCHANGED <<geo, flash>> /\ pc' = "dump"
         /\ job'.kind = "dump"
  BY <1>1, <1>2, Begun
<1>4. DumpInv'
  BY <1>1, <1>3, GeometryFacts DEF DumpInv
<1>5. QED  BY <1>3, <1>4, NoClaim DEF ToolInv

\* The first page of a one-filer, behind the header, in the first block.
LEMMA FirstKeeps ==
  ASSUME ToolInv, WriteFirst
  PROVE  ToolInv'
<1>1. /\ Places /\ FirstInv /\ geo \in Geometries /\ job.file \in Nat
         /\ job.arg \in Nat /\ job.kind = "onefiler"
      /\ filepos = 0 /\ flash_offset = Header /\ limit < 0 /\ limit \in Int
         /\ job.arg + 2 <= geo.page
      /\ flash = before /\ flash = [b \in Addr |-> flash[b]]
      /\ Header + job.file <= geo.total /\ Header + job.file < Word
  BY DEF ToolInv, Places, WriteFirst, FirstInv
<1>2. /\ geo.page \in Nat \ {0} /\ geo.page > 2 /\ geo.erase \in Nat
         /\ Addr = 0 .. geo.total - 1 /\ geo.total \in Nat
      /\ Base = 0 /\ Header = job.arg + 2
  BY <1>1, GeometryFacts DEF Base, Header
<1>3. PICK room \in Nat : room = FirstPage
  BY <1>1, <1>2 DEF FirstPage
<1>4. Read(FirstPage) = IF room <= job.file THEN room ELSE job.file
  <2>1. Min({room, job.file}) = IF room <= job.file THEN room ELSE job.file
    BY <1>1, Lesser
  <2>2. job.file - filepos = job.file
    BY <1>1
  <2>3. QED  BY <1>3, <2>1, <2>2 DEF Read
<1>5. PICK n \in Nat : n = Read(FirstPage) /\ n <= job.file /\ n <= room
        /\ (n < room => n = job.file)
  BY <1>1, <1>3, <1>4
<1>6. PICK f \in Nat : f = flash_offset + n /\ f <= geo.page /\ f > 1
        /\ (f < geo.page => n = job.file)
                       /\ f = Header + n
  BY <1>1, <1>2, <1>3, <1>5 DEF FirstPage
<1>7. /\ UNCHANGED <<geo, loadinfo, job, limit, len, pages_erased, dump, before>>
         /\ pc' = "read"
      /\ filepos' = n /\ flash_offset' = f
      /\ flash' = [b \in Addr |-> IF b < f THEN Byte(b - flash_offset)
                                  ELSE (IF geo.erase = 0 THEN flash ELSE EraseBlock(0))[b]]
  BY <1>5, <1>6 DEF WriteFirst
<1>8. Places'
  <2>1. flash_offset' \in Nat /\ filepos' \in 0 .. job'.file
    BY <1>1, <1>5, <1>7
  <2>2. flash' = [b \in Addr' |-> flash'[b]]
    BY <1>7, SameJob
  <2>3. QED  BY <1>1, <1>7, <2>1, <2>2 DEF Places
<1>9. InLoop(0)'
  <2>1. 0 <= filepos' /\ flash_offset' + 0 = Base + Header + filepos' /\ flash_offset' > 0
    BY <1>1, <1>2, <1>5, <1>6, <1>7
  <2>2. Base + Header + job.file <= geo.total
    BY <1>1, <1>2
  <2>3. QED  BY <1>1, <1>7, <2>1, <2>2, SameJob DEF InLoop
<1>10. ASSUME NEW b \in Addr
       PROVE  /\ b \in Nat
              /\ b < f => flash'[b] = Filled(f, f)[b] /\ \A e : flash'[b] = Filled(f, e)[b]
              /\ ~(b < f) => flash'[b] = (IF geo.erase = 0 THEN flash ELSE EraseBlock(0))[b]
  <2>1. b \in Nat /\ b - Base - Header = b - flash_offset /\ Base <= b
    BY <1>1, <1>2, <1>10
  <2>2. b < f => \A e : Filled(f, e)[b] = Byte(b - flash_offset)
    BY <2>1, FilledAt DEF Byte
  <2>3. QED  BY <1>7, <2>1, <2>2
<1>11. geo.erase = 0 => Plain'
  <2>1. SUFFICES ASSUME geo.erase = 0  PROVE Plain'
    OBVIOUS
  <2>2. ASSUME NEW b \in Addr
        PROVE  flash'[b] = Filled(f, f)[b]
    <3>1. CASE b < f
      BY <1>10, <3>1
    <3>2. CASE ~(b < f)
      BY <1>1, <1>10, <2>1, <3>2, FilledAt
    <3>3. QED  BY <3>1, <3>2
  <2>3. flash' = Filled(f, f)
    BY <1>7, <2>2 DEF Filled
  <2>4. QED  BY <1>7, <2>3, SameJob DEF Plain
<1>12. ASSUME geo.erase # 0
       PROVE  pages_erased = geo.erase - 1 /\ Cursor(geo.erase - 1)'
  <2>1. Block = geo.page * geo.erase /\ Block \in Nat \ {0} /\ geo.page < Block
          /\ geo.erase > 1
    BY <1>1, <1>12, BlockFacts
  <2>2. geo.page * (geo.erase - 1) = Block - geo.page
    <3>1. geo.page \in Nat \ {0} /\ geo.erase \in Nat /\ geo.erase > 0
      BY <1>2, <2>1
    <3>2. geo.page * (geo.erase - 1) = geo.page * geo.erase - geo.page
      BY <3>1, PageProducts
    <3>3. QED  BY <2>1, <3>2
  <2>3. Block % Block = 0 /\ geo.page % geo.page = 0 /\ 0 % Block = 0 /\ 0 + Block = Block
    BY <1>2, <2>1
  <2>4. EraseBlock(0) =
          [b \in Addr |-> IF 0 <= b /\ b < 0 + Block THEN Erased ELSE flash[b]]
    <3>1. 0 <= 0 /\ 0 < 0 + Block /\ 0 \in Nat
      BY <2>1
    <3>2. QED  BY <1>1, <1>12, <2>3, <3>1, EraseFrom
  <2>5. ASSUME NEW b \in Addr
        PROVE  flash'[b] = Filled(f, Block)[b]
    <3>1. CASE b < f
      BY <1>10, <3>1
    <3>2. CASE ~(b < f)
      <4>1. flash'[b] = IF b < Block THEN Erased ELSE before[b]
        BY <1>1, <1>10, <1>12, <2>3, <2>4, <3>2
      <4>2. f <= b
        BY <1>10, <3>2
      <4>3. QED  BY <3>2, <4>1, <4>2, FilledAt
    <3>3. QED  BY <3>1, <3>2
  <2>6. flash' = Filled(f, Block)
    BY <1>7, <2>5 DEF Filled
  <2>7. (geo.page = f \/ Exhausted') /\ f <= geo.page /\ geo.page < f + geo.page /\ f > Base
    BY <1>2, <1>6, <1>7 DEF Exhausted
  <2>8. Block = geo.page + geo.page * (geo.erase - 1)
    BY <1>2, <2>1, <2>2
  <2>9. CursorAt(geo.erase - 1, geo.page, Block)'
    <3>1. /\ geo.page % geo.page = 0 /\ flash_offset' <= geo.page
          /\ geo.page < flash_offset' + geo.page
          /\ (geo.page = flash_offset' \/ Exhausted') /\ flash_offset' > Base
      BY <1>7, <2>3, <2>7
    <3>2. flash' = Filled(flash_offset, Block)'
      BY <1>7, <2>1, <2>6, SameJob
    <3>3. QED  BY <1>7, <2>3, <2>8, <3>1, <3>2, SameJob DEF CursorAt
  <2>10. geo.page \in Nat /\ Block \in Nat /\ geo' = geo
    BY <1>2, <1>7, <2>1
  <2>11. Cursor(geo.erase - 1)'
    BY <2>9, <2>10, SameJob, <1>7 DEF Cursor
  <2>12. QED  BY <1>1, <1>12, <2>11 DEF FirstInv
<1>13. geo.erase # 0 => Cursor(pages_erased)'
  BY <1>7, <1>12 DEF Cursor, CursorAt
<1>14. geo.erase # 0 => pages_erased \in 0 .. geo.erase - 1
  <2>1. geo.erase # 0 => geo.erase > 1
    BY <1>1, BlockFacts
  <2>2. geo.erase # 0 => geo.erase - 1 \in 0 .. geo.erase - 1
    BY <1>2, <2>1
  <2>3. QED  BY <1>12, <2>2
<1>15. ReadInv'
  BY <1>1, <1>7, <1>9, <1>11, <1>13, <1>14, SameJob DEF ReadInv
<1>16. QED  BY <1>7, <1>8, <1>15, NoClaim DEF ToolInv

-----------------------------------------------------------------------------
LEMMA ToolInit ==
  ASSUME Init
  PROVE  ToolInv
<1>1. pc = "menu" /\ geo \in Geometries /\ flash = [a \in Addr |-> Old] /\ job = NoJob
      /\ filepos = 0 /\ limit = 0 /\ len = 0 /\ flash_offset = 0 /\ pages_erased = 0
  BY DEF Init
<1>2. Places
  BY <1>1 DEF Places, NoJob
<1>3. QED  BY <1>1, <1>2 DEF ToolInv, FilesWritten, TcrtWritten, DumpIsFlash

LEMMA ToolStep ==
  ASSUME ToolInv, [Next]_vars
  PROVE  ToolInv'
<1>1. ASSUME Ask
      PROVE  ToolInv'
  <2>1. FileLens \subseteq Nat /\ Offsets \subseteq Nat
    BY FlashToolAssumption
  <2>2. ASSUME NEW file \in FileLens, NEW offset \in Offsets, WriteDatafile(offset, file)
        PROVE  ToolInv'
    BY <2>1, <2>2, DataStarts
  <2>3. ASSUME NEW file \in FileLens, NEW size \in FileLens, WriteTcrt(size, file)
        PROVE  ToolInv'
    BY <2>1, <2>3, TcrtStarts
  <2>4. ASSUME NEW file \in FileLens, NEW starter \in {0, StarterLen},
               WriteOnefiler(starter, file)
        PROVE  ToolInv'
    BY <2>1, <2>4, OnefilerStarts
  <2>5. QED  BY <1>1, <2>2, <2>3, <2>4, DumpStarts DEF Ask
<1>2. ASSUME Work
      PROVE  ToolInv'
  BY <1>2, FirstKeeps, ReadKeeps, EraseKeeps, WriteKeeps, NextKeeps, InfoKeeps,
     RestKeeps, RestEraseKeeps, FillKeeps, DumpKeeps, StopKeeps DEF Work
<1>3. ASSUME UNCHANGED vars
      PROVE  ToolInv'
  <2>1. UNCHANGED <<geo, flash, loadinfo, pc, job, filepos, limit, len, flash_offset,
          pages_erased, dump, before>>
    BY <1>3 DEF vars
  <2>2. Places' /\ Places /\ geo \in Geometries /\ flash_offset \in Nat
    BY <2>1, SameJob DEF ToolInv, Places
  <2>3. FilesWritten' /\ TcrtWritten' /\ DumpIsFlash'
    BY <2>1 DEF ToolInv, FilesWritten, TcrtWritten, DumpIsFlash, Image, Addr, Block,
       BlockOf
  <2>4. (Exhausted' <=> Exhausted) /\ (Plain' <=> Plain)
    BY <2>1, <2>2, SameJob DEF Exhausted, Plain
  <2>5. ASSUME NEW n
        PROVE  (Cursor(n)' <=> Cursor(n)) /\ (Ahead(n)' <=> Ahead(n))
    BY <2>1, <2>4, SameJob DEF Cursor, CursorAt, Ahead, Filled, Base, Header, Addr,
       Block
  <2>6. \A n : InLoop(n)' <=> InLoop(n)
    BY <2>1, SameJob DEF InLoop
  <2>7. \A n : ImageInv(n)' <=> ImageInv(n)
    BY <2>1, SameJob DEF ImageInv
  <2>8. (pc = "read" => ReadInv)' /\ (pc = "erase" => EraseInv)'
          /\ (pc = "write" => WriteInv)'
    BY <2>1, <2>4, <2>5, <2>6, SameJob DEF ToolInv, ReadInv, EraseInv, WriteInv
  <2>9. (pc = "next" => NextInv)' /\ (pc = "first" => FirstInv)'
          /\ (pc = "dump" => DumpInv)'
    BY <2>1, <2>4, <2>5, <2>6, SameJob DEF ToolInv, NextInv, FirstInv, DumpInv
  <2>10. (pc = "info" => FileInv /\ job.kind = "onefiler")' /\ (pc = "rest" => RestInv)'
    BY <2>1, <2>2, <2>4, <2>5, SameJob DEF ToolInv, FileInv, RestInv
  <2>11. (pc = "restErase" => RestEraseInv)' /\ (pc = "fill" => FillInv)'
    BY <2>1, <2>4, <2>7, SameJob DEF ToolInv, RestEraseInv, FillInv
  <2>12. QED  BY <2>2, <2>3, <2>8, <2>9, <2>10, <2>11 DEF ToolInv
<1>4. QED  BY <1>1, <1>2, <1>3, StopKeeps DEF Next

LEMMA ToolCorrect == Spec => []ToolInv
BY ToolInit, ToolStep, PTL DEF Spec

(***************************************************************************)
(* Data files and one-filers, of any length and wherever a block or the    *)
(* flash begins, are in the flash byte for byte when their job is done, and*)
(* nothing outside of their erase blocks has changed (write_file).         *)
(***************************************************************************)
THEOREM FilesAreWritten == Spec => []FilesWritten
<1>1. ToolInv => FilesWritten
  BY DEF ToolInv
<1>2. QED  BY ToolCorrect, <1>1, PTL

(***************************************************************************)
(* A TCRT image is in the flash with everything behind it erased, whatever *)
(* page and block it ends in, or is reported as truncated (write_tcrt).    *)
(***************************************************************************)
THEOREM ImagesAreWritten == Spec => []TcrtWritten
<1>1. ToolInv => TcrtWritten
  BY DEF ToolInv
<1>2. QED  BY ToolCorrect, <1>1, PTL

(***************************************************************************)
(* A dump that runs to its end is the flash (dump_flash_to_file).          *)
(***************************************************************************)
THEOREM DumpsAreFlash == Spec => []DumpIsFlash
<1>1. ToolInv => DumpIsFlash
  BY DEF ToolInv
<1>2. QED  BY ToolCorrect, <1>1, PTL
=============================================================================
