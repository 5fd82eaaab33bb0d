------------------------------- MODULE ElfLoad -------------------------------
(***************************************************************************)
(* What becomes of the image of a native library: it is validated          *)
(* (loader/validation.c), its segments are copied to blocks of their own   *)
(* and its own addresses relocated (loader/image.c), its imports are bound *)
(* (loader/relocation.c), and its unwinding table can be asked for         *)
(* (loader.c).  A file is a record of the tables that matter here; offsets,*)
(* sizes and addresses are small numbers, and pages of Page units stand    *)
(* for those of 4096 bytes.  Names and the header's constants are left out.*)
(***************************************************************************)
EXTENDS Integers, Sequences, FiniteSets

CONSTANTS
  Files,      \* the images to load
  Page,       \* PAGE_SIZE
  Word,       \* sizeof(uint32_t)
  MaxSpan,    \* LIBRARY_MAX_SPAN
  MaxSegments,\* DYNALIB_MAX_SEGMENTS
  Base,       \* library->base, as __window found it
  Limit,      \* LIBRARY_ADDRESS_LIMIT
  Exports,    \* the symbols of the other libraries, in the order of their slots
  Bridge,     \* loader_get_bridge_proc_address: the bridged functions
  Layouts     \* the tables of the game's audio provider, by what its code looks like

VARIABLES
  file,       \* the image
  phase,      \* "check", "map", "relocate", "bind", "ready" or "failed"
  next,       \* the segment, relocation or import that is next
  memory,     \* the values of words in the blocks, by address
  blocks,     \* library->blocks: <<first, size>> of each
  unresolved  \* unresolved_symbols

vars == <<file, phase, next, memory, blocks, unresolved>>

Down(value) == (value \div Page) * Page
Up(value) == Down(value + Page - 1)
Maps(p) == p.load /\ p.memsz > 0
InFile(f, offset, size) == offset <= f.size /\ size <= f.size - offset

\* __mapped_range and __file_backed_range: inside one loaded segment.
Within(p, address, size, length) ==
  p.load /\ address >= p.vaddr /\ address + size <= p.vaddr + length
MappedRange(f, address, size) ==
  \E k \in DOMAIN f.programs : Within(f.programs[k], address, size, f.programs[k].memsz)
FileBacked(f, address, size) ==
  \E k \in DOMAIN f.programs : Within(f.programs[k], address, size, f.programs[k].filesz)

\* Mutant: the bytes of two segments may not meet, their pages may.
ShareByte(p, q) ==
  p.vaddr < q.vaddr + q.memsz /\ q.vaddr < p.vaddr + p.memsz

\* __segments_ok: no two segments may share a page.
SharePage(p, q) ==
  Down(p.vaddr) < Up(q.vaddr + q.memsz) /\ Down(q.vaddr) < Up(p.vaddr + p.memsz)
SegmentsOk(f) ==
  LET loads == {k \in DOMAIN f.programs : Maps(f.programs[k])} IN
  /\ \A k \in DOMAIN f.programs :
       LET p == f.programs[k] IN p.load =>
         /\ p.filesz <= p.memsz
         /\ InFile(f, p.offset, p.filesz)
         /\ p.vaddr + p.memsz <= MaxSpan
  /\ Cardinality(loads) \in 1..MaxSegments
  /\ \A k \in loads, j \in loads : j < k => ~SharePage(f.programs[j], f.programs[k])

\* __sections_ok and __symbols_ok: the constructors lie in mapped memory, and
\* a symbol names a section of the file, is absolute, or is undefined.
SectionsOk(f) ==
  /\ f.symbols # <<>>
  /\ MappedRange(f, f.ctors.address, f.ctors.size) /\ f.ctors.size % Word = 0
SymbolsOk(f) ==
  \A k \in DOMAIN f.symbols : f.symbols[k].section \in {"undef", "here", "abs"}

\* __rels_ok: a relocation has a symbol of the table and a mapped word.
RelocationsOk(f) ==
  \A k \in DOMAIN f.rels :
     /\ f.rels[k].symbol \in DOMAIN f.symbols
     /\ f.rels[k].type # "none" => MappedRange(f, f.rels[k].offset, Word)

\* loader_elf_check.
ElfOk(f) == SegmentsOk(f) /\ SectionsOk(f) /\ SymbolsOk(f) /\ RelocationsOk(f)

Init ==
  /\ file \in Files
  /\ phase = "check"
  /\ next = 1
  /\ memory = << >>
  /\ blocks = {}
  /\ unresolved = {}

Check ==
  /\ phase = "check"
  /\ phase' = IF ElfOk(file) THEN "map" ELSE "failed"
  /\ UNCHANGED <<file, next, memory, blocks, unresolved>>

\* The block of a segment: whole pages around it.
BlockOf(p) == <<Base + Down(p.vaddr), Up(p.vaddr - Down(p.vaddr) + p.memsz)>>
Cells(start, size) == start..start + size - 1

\* loader_load_sections, one segment: a block at its address, filled with zeros
\* and with what the file has of it.  An address beyond the limit fails.
MapSegment ==
  /\ phase = "map" /\ next <= Len(file.programs)
  /\ next' = next + 1
  /\ LET p == file.programs[next]
         block == BlockOf(p)
         cells == Cells(block[1], block[2])
         content == [a \in cells |-> IF a \in Cells(Base + p.vaddr, p.filesz)
                                     THEN file.content[p.offset + a - Base - p.vaddr + 1] ELSE 0]
     IN IF ~Maps(p) THEN UNCHANGED <<phase, memory, blocks>>
        ELSE IF block[1] + block[2] > Limit THEN phase' = "failed" /\ UNCHANGED <<memory, blocks>>
        ELSE /\ memory' = [a \in DOMAIN memory \cup cells |->
                             IF a \in cells THEN content[a] ELSE memory[a]]
             /\ blocks' = blocks \cup {block}
             /\ UNCHANGED phase
  /\ UNCHANGED <<file, unresolved>>

EndOf(to) ==
  /\ phase' = to
  /\ next' = 1
  /\ UNCHANGED <<file, memory, blocks, unresolved>>

MapDone == phase = "map" /\ next > Len(file.programs) /\ EndOf("relocate")

-----------------------------------------------------------------------------
\* loader_addr.
AddressOf(symbol) == IF symbol.section = "abs" THEN symbol.value ELSE Base + symbol.value

Rel == file.rels[next]
SymbolOf(rel) == file.symbols[rel.symbol]
Target(rel) == Base + rel.offset

\* __relocate, with the address of a symbol of the library, or 0 for any other.
Known(symbol) == IF symbol.section = "undef" THEN 0 ELSE AddressOf(symbol)
Relocated(rel, old) ==
  CASE rel.type = "abs32" -> old + Known(SymbolOf(rel))
    [] rel.type = "relative" -> old + Base
    [] rel.type = "glob" -> Known(SymbolOf(rel))

Relocate ==
  /\ phase = "relocate" /\ next <= Len(file.rels)
  /\ IF Rel.type \in {"abs32", "relative", "glob"}
       THEN /\ memory' = [memory EXCEPT ![Target(Rel)] = Relocated(Rel, @)]
            /\ next' = next + 1
            /\ UNCHANGED phase
       ELSE /\ UNCHANGED memory
            /\ IF Rel.type = "none" THEN next' = next + 1 /\ UNCHANGED phase
                                    ELSE phase' = "failed" /\ UNCHANGED next
  /\ UNCHANGED <<file, blocks, unresolved>>

RelocateDone == phase = "relocate" /\ next > Len(file.rels) /\ EndOf("bind")

\* Mutant: a relative word is bound as well.
BindableAll(rel) == rel.type # "none" /\ SymbolOf(rel).section = "undef"

\* loader_lookup: the first other library that has the symbol.
Lookup(name) ==
  LET slots == {k \in DOMAIN Exports : name \in DOMAIN Exports[k]} IN
  IF slots = {} THEN 0 ELSE Exports[CHOOSE k \in slots : \A j \in slots : k <= j][name]

\* loader_get_import_proc_address.  The table of the audio provider depends on
\* the code that calls it, and nothing else may stand in for it.
ImportOf(name) ==
  IF name = "provider"
    THEN IF file.calls \in DOMAIN Layouts THEN Layouts[file.calls] ELSE 0
    ELSE IF Lookup(name) # 0 THEN Lookup(name)
    ELSE IF name \in DOMAIN Bridge THEN Bridge[name] ELSE 0

\* loader_bind, one relocation: those of an undefined symbol get its import.
\* Without one, a weak symbol is left as it is and any other is counted, once.
Bindable(rel) == rel.type \notin {"none", "relative"} /\ SymbolOf(rel).section = "undef"
Bind ==
  /\ phase = "bind" /\ next <= Len(file.rels)
  /\ LET target == ImportOf(SymbolOf(Rel).name) IN
     IF ~Bindable(Rel) THEN UNCHANGED <<memory, unresolved>>
     ELSE IF target = 0
       THEN /\ unresolved' = IF SymbolOf(Rel).weak THEN unresolved ELSE unresolved \cup {Rel.symbol}
            /\ UNCHANGED memory
       ELSE /\ memory' = [memory EXCEPT ![Target(Rel)] = IF Rel.type = "abs32" THEN @ + target ELSE target]
            /\ UNCHANGED unresolved
  /\ next' = next + 1
  /\ UNCHANGED <<file, phase, blocks>>

BindDone ==
  /\ phase = "bind" /\ next > Len(file.rels)
  /\ EndOf(IF unresolved = {} THEN "ready" ELSE "failed")

Next == Check \/ MapSegment \/ MapDone \/ Relocate \/ RelocateDone \/ Bind \/ BindDone

-----------------------------------------------------------------------------
\* loader_find_exidx of an address in the library: <<table, count>>, or <<0, 0>>.
\* The address must lie in executable code that the file has, and the table in
\* what the file has; the program header goes before the section header.
NoTable == <<0, 0>>
ExidxTable(f, address, size) ==
  IF size = 0 \/ address % Word # 0 \/ size % (2 * Word) # 0 \/ ~FileBacked(f, address, size)
    THEN NoTable ELSE <<Base + address, size \div (2 * Word)>>
FindExidx(f, pc) ==
  LET code == {k \in DOMAIN f.programs : f.programs[k].exec /\ Within(f.programs[k], pc - Base, 1, f.programs[k].filesz)}
  IN IF pc < Base \/ code = {} \/ f.exidx.from = "none" THEN NoTable
     ELSE IF f.exidx.from = "program" /\ f.exidx.filesz # f.exidx.memsz THEN NoTable
     ELSE ExidxTable(f, f.exidx.address, f.exidx.filesz)

-----------------------------------------------------------------------------
Mapped == UNION {Cells(b[1], b[2]) : b \in blocks}

\* Of an image that was accepted, segments go to blocks that do not overlap, the
\* copy stays inside the file, and every word that will be relocated, every
\* constructor and any table the unwinder is given, whatever address it asks
\* for, lies in a block.
ImageFitsBlocks ==
  phase \in {"relocate", "bind", "ready"} =>
    /\ \A b, c \in blocks : b # c => Cells(b[1], b[2]) \cap Cells(c[1], c[2]) = {}
    /\ DOMAIN memory = Mapped
    /\ \A k \in DOMAIN file.rels : file.rels[k].type # "none" =>
         Cells(Target(file.rels[k]), Word) \subseteq Mapped
    /\ Cells(Base + file.ctors.address, file.ctors.size) \subseteq Mapped
    /\ \A pc \in 0..Limit :
         LET found == FindExidx(file, pc) IN
         found # NoTable =>
           /\ pc \in Mapped /\ found[2] > 0
           /\ Cells(found[1], found[2] * 2 * Word) \subseteq Mapped

\* What the ABI wants in the word of a relocation: the symbol of the library
\* itself, or else its import, or 0 for a weak one nobody defines.
Symbol(symbol) == IF symbol.section = "undef" THEN ImportOf(symbol.name) ELSE AddressOf(symbol)
Addend(rel) ==
  LET p == CHOOSE p \in {file.programs[k] : k \in DOMAIN file.programs} :
             Within(p, rel.offset, Word, p.memsz)
      at == rel.offset - p.vaddr
  IN IF at < p.filesz THEN file.content[p.offset + at + 1] ELSE 0
AbiValue(rel) ==
  CASE rel.type = "abs32" -> Symbol(SymbolOf(rel)) + Addend(rel)
    [] rel.type = "relative" -> Base + Addend(rel)
    [] rel.type = "glob" -> Symbol(SymbolOf(rel))

\* The two passes over the relocations, one for the library's own symbols and one
\* for its imports, give each word its value exactly once, and a library is only
\* started when every name it needs was found.
RelocationsMeetAbi ==
  phase = "ready" =>
    \A k \in DOMAIN file.rels :
      /\ file.rels[k].type # "none" => memory[Target(file.rels[k])] = AbiValue(file.rels[k])
      /\ Bindable(file.rels[k]) =>
           SymbolOf(file.rels[k]).weak \/ ImportOf(SymbolOf(file.rels[k]).name) # 0
=============================================================================
