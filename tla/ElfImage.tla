------------------------------ MODULE ElfImage ------------------------------
(***************************************************************************)
(* The executable's own file, mapped and searched by cldm_elf.c.  An image *)
(* is a record of what the reader looks at: the headers, the sections, the *)
(* symbol table with its strings; bias is where the loader put it, and     *)
(* memory has the test records.                                            *)
(***************************************************************************)
EXTENDS MainThread, Integers, Sequences, FiniteSetsExt, SequencesExt

CONSTANT Images   \* the executables cldm may be linked into

VARIABLES image,   \* the one that is running
          mapped   \* is its file mapped

elfVars == <<image, mapped>>

\* An SHT_STRTAB section with this name.
HasStrtab(img, name) == \E i \in DOMAIN img.sections :
                            img.sections[i] = [type |-> "STRTAB", name |-> name]

\* cldm_elf_map_sections: how many of the two string tables there are.
MapSections(img) == Cardinality({n \in {".strtab", ".dynstr"} : HasStrtab(img, n)})

\* cldm_elf_sym: the first symbol with the name, 0 if there is none.
Sym(img, name) == SelectInSeq(img.symtab, LAMBDA s : s.name = name)

\* cldm_elf_baseaddr: how far main is from where the file has it.  An
\* executable that is loaded there has base 0, which counts as a failure.
BaseAddr(img) ==
    LET main == img.symtab[Sym(img, "main")]
    IN  IF main.shndx \in {"UNDEF", "ABS"} THEN 0
        ELSE (img.bias + main.value) - main.value - Min(ToSet(img.vaddrs))

\* cldm_elf_symaddr.
SymAddr(img, s) ==
    CASE s.shndx = "UNDEF" -> 0
      [] s.shndx = "ABS"   -> s.value
      [] OTHER             -> BaseAddr(img) + s.value

\* cldm_elf_symlookup: an address, or 0.
SymLookup(img, name) ==
    IF Sym(img, name) = 0 THEN 0 ELSE SymAddr(img, img.symtab[Sym(img, name)])

\* The linker puts the name of every record into .strtab, once; the records in
\* memory are the ones at the addresses of these names, if each of them has an
\* address, and no two names belong to the same record.
ASSUME ImageAssumption ==
    \A img \in Images :
        /\ img.strtab \in Seq(ToSet(img.strtab))
        /\ \A n \in img.tests : \E i \in DOMAIN img.strtab : img.strtab[i] = n
        /\ \A i, j \in DOMAIN img.strtab :
              img.strtab[i] = img.strtab[j] /\ img.strtab[i] \in img.tests => i = j
        /\ (BaseAddr(img) # 0 /\ \A n \in img.tests : SymLookup(img, n) # 0) =>
              /\ DOMAIN img.memory = {SymLookup(img, n) : n \in img.tests}
              /\ \A m, n \in img.tests :
                    img.memory[SymLookup(img, m)] = img.memory[SymLookup(img, n)] => m = n

\* cldm_is_elf64 and cldm_elf_is_executable.
IsElf64(img)      == img.elf64
IsExecutable(img) == img.type \in {"EXEC", "DYN"}

ElfInit ==
    /\ image \in Images
    /\ mapped = FALSE

\* cldm_map_elf.  Only a file without section names is unmapped again.
MapElf ==
    /\ at = "map"
    /\ \/ /\ Fails                      \* open, fstat or mmap
          /\ Goto("unprepared")
          /\ UNCHANGED mapped
       \/ /\ Succeeds
          /\ ~image.shstrndx
          /\ Goto("unprepared")
          /\ UNCHANGED mapped
       \/ /\ Succeeds
          /\ image.shstrndx
          /\ mapped' = TRUE
          /\ Goto(IF MapSections(image) = 2 /\ BaseAddr(image) # 0 THEN "needed"
                                                                   ELSE "unprepared")
    /\ UNCHANGED image

\* cldm_unmap_elf.
UnmapElf ==
    /\ at = "unmap"
    /\ Goto("restore")
    /\ \/ Succeeds /\ mapped' = FALSE
       \/ Fails /\ UNCHANGED mapped
    /\ UNCHANGED image
=============================================================================
