------------------------------ MODULE MCMemory ------------------------------
(* Memory for TLC: a pool of seven pages, enough for a loaded page, its two  *)
(* tables and a fork that copies it (root, two tables and the copy).        *)
EXTENDS Memory

\* A stored word that reads as a valid user leaf if the page were a table.
MCStoreWords == {[flags |-> {"V", "R", "U"}, ppn |-> 1]}

\* The first page of an executable file (the ELF and program headers)
\* and a text page: one instruction word, then zeros.
MCHead == [i \in Idx |-> IF i = 0 THEN [flags |-> {"R"}, ppn |-> 1] ELSE NullPte]
MCText == [i \in Idx |-> IF i = 0 THEN [flags |-> {"X"}, ppn |-> 2] ELSE NullPte]

\* The executable file, two pages, as the iolit elf_load reads.
MCFile == Lit!IolitInit(<<MCHead, MCText>>, 2)

\* A program header: PT_LOAD or another type, the pages it covers, whether
\* p_memsz is page aligned, its R/W/X, p_offset and p_filesz in pages.
Phdr(type, vas, aligned, fl, off, filesz) ==
    [type |-> type, vas |-> vas, aligned |-> aligned, fl |-> fl,
     off |-> off, filesz |-> filesz]

Image(phdrs) == [file |-> MCFile, phdrs |-> phdrs]

\* The executables exec may be given: after a non-loadable header, text
\* at the first user page and a zero-filled data page (p_filesz 0) at the
\* next; text placed in the kernel half; text whose p_memsz is not page
\* aligned; text whose p_filesz runs past the end of the file.
MCImages ==
    { Image(<< Phdr("note", <<>>, TRUE, {}, 0, 0),
               Phdr("load", << <<UserIdx, 0, 0>> >>, TRUE, {"R", "X"}, 1, 1),
               Phdr("load", << <<UserIdx, 0, 1>> >>, TRUE, {"R", "W"}, 2, 0) >>),
      Image(<< Phdr("load", << <<KernIdx, 1, 0>> >>, TRUE, {"R", "X"}, 1, 1) >>),
      Image(<< Phdr("load", << <<UserIdx, 0, 0>> >>, FALSE, {"R", "X"}, 1, 1) >>),
      Image(<< Phdr("load", << <<UserIdx, 0, 0>> >>, TRUE, {"R", "X"}, 1, 2) >>) }

\* A stack pointer in the top user page, and one outside the user range.
MCStackPages == {<<UserIdx, 1, 1>>, <<KernIdx, 1, 1>>}
====
