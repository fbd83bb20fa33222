# asmc: models and proofs

asmc starts a computer from a few kilobytes of machine code and builds, step by
step, everything a C compiler needs: a kernel, a compiler for a small language
(G), and, written in G, an allocator, containers, file systems, an assembler, a
64-bit arithmetic and a C compiler. Nothing is protected from anything: there is
one address space, no preemption, and an assertion that fails stops the machine.
What can go wrong is therefore mostly *long sequences of legal calls*, *state that
several routines share by convention*, *agreement between repeated readings of the
same file*, *a stop between two writes*, and *arithmetic at the edge of a word*.
The modules in this directory are about these. Paths are relative to `src/`.

## 1. Inventory

Status: **M** modelled, **p** partly, **-** not modelled (section 7 has the reasons).

| Part | Source | State it keeps | Operations | St. |
|---|---|---|---|---|
| Break allocator | `lib/kernel.asm` | `heap_ptr` | `platform_allocate` | M |
| kmalloc | `asmg/kmalloc.g`, `malloc_utils.g` | 28 free lists, the headers of the chunks, statistics | `malloc`, `free`, `realloc` | M |
| Other allocators | `simple_malloc.g`, `triv_malloc.g`, `check_malloc.g` | list of blocks / none / log of blocks | the same | - |
| Kernel, ramdisk | `lib/kernel.asm`, `lib/ar.asm` | table of open files, terminal, serial port | open, read and reset a file; print | p |
| G compiler | `asmg/asmg.asm`, `lib/library.asm` | symbol table, stack of variables, stage, location, labels | one per kind of token; `platform_g_compile` | p |
| G compiler in C | `attic/gstaging.c` | the same | the same, and the lexer | p |
| G programs | the code it emits | processor stack | the emitted instructions | p |
| Maps | `rb_map.g` (used), `map.g`, `avl_map.g` | nodes, keys owned by the map | set, erase, at, has, size, foreach, destroy | p |
| Vectors, utilities | `vector.g`, `utils*.g` | size, capacity | push, pop, at | - |
| VFS | `vfs.g` | mount points | open, dispatch | M |
| /init | `lib/ar.asm`, `lib/kernel.asm`, `vfs.g` | the kernel's table of open files | open, read, reset | p |
| /ram | `ramfs.g` | files and descriptors | open, read, write, truncate, seek, close | p |
| /diskN | `diskfs.g`, `create_diskfs.py` | table of files; descriptors, each with a sector | scan, open, read, seek, close | p |
| debugfs | `debugfs.g`, `extract_debugfs.py` | position on the disk, buffer of one sector | begin, write, finish, copy | p |
| Drives | `mbr.g`, `atapio.g` | drive registers; partitions | scan, read, write | - |
| Assembler | `asm_*.g` | stage, location, symbols | one per directive, ten handlers of mnemonics | p |
| Assembler in C | `attic/staging.c`, `asmasm/` | the same, two stages | one per kind of instruction | p |
| 64-bit integers | `int64.asm`, `int64_div.g` | none (the stack frame of the division) | arithmetic, shifts, comparisons, division | p |
| C preprocessor | `c_preproc.g` | macros, the groups of conditions, files being read | directives, expansion | p |
| C expressions | `c_ast.g` | stacks of operators and operands | parse, evaluate | p |
| C compiler | `c_compile.g` | three readings, types, globals, labels, the picture of the stack | one per statement and operator | p |
| C library, files | `diskfs/stdlib/stdio.h`, `fcntl.h`, `unistd.h` | streams | open, fputs, fwrite, ... | p |
| C library, rest | `string.h`, `_strtox.h`, `_printf.h`, `_scanf.h`, `_qsort.h` | the status of one call | strings, numbers, formats, sorting | p |
| mescc-tools, drivers of tinycc, fasm, mcpp | `mescc_*.g`, ... | - | - | - |
| Other stages | `boot/`, `asmg0/`, `cc/`, `empty/` | - | - | - |

**How the parts interact.** `platform_allocate` moves the break; kmalloc, the
assembler (its output), the G compiler (`asmg/kernel-asmg.asm` puts the code of a
file at the break) and C programs all call it, in any order. Everything written
in G takes its memory from `malloc`. Maps hold the mount points, the disk's table of
files, the symbols and opcodes of the assembler, and most of the C compiler. The
VFS calls the descriptors of a file system through pointers in their first words,
and the C library of compiled programs calls the VFS.
`int64.g` has `int64.asm` assembled by the assembler and calls it through the
symbols it gets. `main.g` compiles all files in a fixed order with
`platform_g_compile`: the symbols of one file are what the next one is compiled
against. The preprocessor and the compiler share one parser of expressions. The G
compiler and the assembler exist twice: in C, to be run on another system, and in
assembly or G, to be run here.

**What is hard.**

* *Memory*: the same word of a chunk is a header while in use and a link while
  free; other clients of the break come between the chunks.
* *Two and three readings*: the G compiler reads a file twice, the assembler and the
  C compiler three times; label numbers, sizes and locations must agree although
  symbols have no value at first. A difference shows as a panic or as code next to
  its symbols.
* *Compile time against run time*: both compilers keep a static picture of the
  stack; it is right only if every path to a place arrives with the same depth.
* *Twins*: two programs that must do the same, byte by byte, were written in
  different languages by hand.
* *Rebalancing*: deletion in `rb_map.g` follows pointers it never tests; the keys
  are owned, and move between nodes.
* *Positions and caches*: descriptors keep a position, and on disk a sector, while
  other calls change the file or the position.
* *Crashes*: debugfs writes sector by sector and is what remains after a panic; the
  next run writes over it.
* *Deferred work*: text waits until the next directive and is expanded then;
  arguments are pasted before they are expanded; conditions nest across files.
* *Formats and grammars*: flags, widths, prefixes and precedences that are each
  simple and change one another's meaning.
* *Widths*: 32-bit signed comparisons, shift counts taken modulo 32, a division
  that traps, limits of types that are found without overflow.

There are no threads. The interleavings are those of callers: several descriptors
of one file, several users of the break, files compiled one after another, the
machine and the host that reads its disk.

## 2. Modules

| Module | Of | State and actions |
|---|---|---|
| `HeapSpec` | what an allocator promises | regions in use; allocate disjointly, release, move |
| `Kmalloc` | `kmalloc.g`, `realloc`, the break | `km` is the record of the globals: the table, the list heads, and one word per chunk; actions `malloc`, `free`, `realloc`, `platform_client` |
| `KmallocProofs` | theorems about `Kmalloc` | |
| `ProofLibrary` | what several proofs need: induction on sets of numbers, functions defined by recursion, parts laid out one after another, division | |
| `GCompiler` | `asmg.asm`, its tables, `platform_g_compile` | `s` is the record of the compiler's globals and of what it emitted; one action per token of a reading, `ReadNew` in the first stage and `ReadAgain` in the second; operators named after the routines |
| `GMachine` | the code that was emitted | extends `GCompiler`; when a compilation is over, `Start` enters any function, and the instructions run on a stack whose cells remember what they are |
| `GStaging` | `gstaging.c` | extends `GMachine`; `g` is the state of the compiler in C, which reads each token when the one in assembly does; `TSpec` is the lock-step |
| `GLexer` | the lexer and the literals of `gstaging.c` | the six states of the lexer over character codes |
| `MapSpec` | what a map promises | a partial function and the answer of the last call |
| `RbMap` | `rb_map.g` | nodes as in memory (key, value, colour, parent, children), owned copies of keys, and a program counter for the routines of the rebalancing: each recursive call is a step |
| `TreeProofs`, `RbMapProofs`, `ColorProofs` | theorems about `RbMap`: trees and rotations; links, owned keys, the order of keys and the refinement of `MapSpec`; colors and assertions | |
| `FileSpec` | what a file system promises | contents, and descriptors with a position; read, write, truncate, seek, open, close |
| `RamFs` | `ramfs.g` | files with a vector of words and a size, descriptors |
| `InitFs` | `ar.asm`, the table of open files | the archive byte by byte, entries that are never removed, descriptors that refer to them |
| `DiskFs` | `diskfs.g`, the image of `create_diskfs.py` | the bytes of the image, the scanner as one step per byte read, descriptors with a cached sector |
| `DebugFs` | `debugfs.g`, `extract_debugfs.py` | the sectors, the position, the buffer; the machine may stop and boot at any step |
| `Vfs` | `vfs.g`, and `fcntl.h`, `stdio.h` | composes the four: the descriptor decides whose routine is called; `open`, `fputs`, `fwrite` and `debugfs_copy_file` are sequences of calls |
| `Prefixes` | sums and joins of the parts of an image or an archive | |
| `VfsProofs`, `FileProofs` | theorems about `Vfs`: each file system by itself; the refinement of `FileSpec` and copies for the host | |
| `Int64` | `int64.asm`, `int64_div.g` | operands and the result of each routine; the frame of the division, whose slots overlap as declared |
| `X86` | *external*: how a processor decodes the instructions the assemblers write | `Decode` |
| `AsmOpcodes` | the table in `asm_opcodes.g`, registers | one record per mnemonic, grouped by handler |
| `Assembler` | `asm_preproc.g`, `asm_compile.g`, the handlers | `ctx` is the context (stage, location, symbols, memory, error); a step per line and reading, and one for the end of a reading |
| `AssemblerProofs` | theorem about `Assembler` | |
| `Staging` | `staging.c`, with the table of `asmasm.asm` | the same for the assembler in C: a line is an opcode and its operands |
| `CString`, `Printf`, `Scanf`, `Qsort` | the headers of these names (`CString`: also `ctype.h`, `_digits.h`, `_strtox.h`) | functions from arguments and memory to results; the status records of the code; `Qsort` has one step per partition |
| `CLibrary` | calls of the above | a job is a call, an action runs it |
| `CAst` | `c_ast.g` and the evaluation of constants | the two stacks as a fold over tokens |
| `CPreproc` | `c_preproc.g` | the context (macros, groups, output, files) as a record, one operator per directive |
| `CFrontend` | calls of these two, and C's own rules | a grammar by levels, the meaning of expressions, and macro expansion with hide sets |
| `CStatements` | functions, statements and local variables of `c_compile.g` | `c` is the context of the compiler, with the local one; `todo` has the frames of the recursive descent; an action per statement and per end of a nested one |
| `CMachine` | the code that was emitted; C's control flow | extends `CStatements`; `m` is the processor; the edges between the places of a program are what C allows to follow |

`MC*` modules and their `.cfg` files give the constants their values; `MCAssembler`
also joins the two assemblers, each on files of its own. Operators keep
the names of the routines. A definition whose name ends in `_Something` and that is
introduced as a mutant is a plausible mistake in the definition after it: with the
mistake in place, the property it belongs to is violated.

**Functions.** The C library and the front end of the C compiler keep no state from one
call to the next. There a behaviour is one call: the initial state holds the
arguments, a step runs the routine, and the invariant compares its result with a
definition that does not follow the code: the limits of a type as powers of two, the
text that a format asks for, a permutation in order, a grammar, the hide sets of the
C standard's algorithm. Loops and recursion that the code writes are written as
such where they decide something (`memmove`'s direction, the scan for a `##`), and as
"the first place where" when they only search.

**Failed assertions.** An action whose assertion fails leads to a state in which
nothing else happens (`panicked`, `halted`, an `error`, `pc = "panic"`); the properties
say which assertions can fail and which cannot. This is why most runs do not look for
deadlocks: the system does stop there, and compilations and assemblies end. The run
`cmachine` does look for them: a program that goes wrong is one that cannot go on, and
whoever has finished stays where he is by an action of his own (`Over`).

## 3. Runs

| Run | Bounds | What it shows |
|---|---|---|
| `kmalloc` | 3 buckets (8, 16, 32 bytes), words of 7 bits, up to 6 calls, sizes at both edges of buckets, refused and negative ones, foreign blocks of 9 bytes (unaligned), break up to 76 | `NoOverlap`, `FreeListsExact`: what was handed out is disjoint from everything, also from the allocator's own words; no chunk is lost or listed twice. `FreeAccepted`: assertions in free hold. `ReuseBeforeGrow`: memory is requested only when the bucket has nothing free. `ImplementsHeap`: refinement of `HeapSpec`. `IInv`: the inductive invariant of the proofs |
| `gmachine` | eight alphabets of tokens, programs of up to 4 to 11 tokens, two files in a row where symbols cross files; tables of a few symbols and 4 variables, so that they fill; processor stack of 5 | `StagesAgree`, `LabelsAreOfThisFile`: the two readings, and the symbols of one file and the next. `BranchesLand`, `SlotsResolve`: on every path, jumps and calls go to instructions, a function returns to its caller, a variable is read from its own slot. `TwinsAgree`: after every token the compiler in C has the same location, labels, depth and symbols, and has written the same bytes |
| `gmachine_loops` | variables and loops, 10 tokens | finding: see section 6 |
| `rbmap` | five keys, six nodes, all sequences of calls | `RedBlack`, `KeysOwned`, `AssertionsHold`; `ImplementsMap`; `CallsReturn` (liveness) |
| `files` | /ram with a file of up to 3 bytes in words of 2, /init with two files of odd and even length, /disk1 with three images (empty; two files; three) in sectors of 3 bytes, two descriptors, at most two open files of the kernel, texts with the byte 255; for copies, 8 sectors of 2 bytes and one restart | `ImplementsFiles`: whatever the file system, and whatever the other descriptor does, a program reads the byte at its position. `CacheIsCurrent`, `TableIsImage`, `InternalAssertions`: what the three rely on. `TextWritten`: what `fputs` and `fwrite` leave in a file. `CopiesArrive`, `NothingElse`: wherever the machine stops, the host extracts the finished copies, with the bytes of their sources, and at most the beginning of another |
| `ramfs_eof` | the same | finding |
| `int64` | two words of 4 bits, all operands | `ArithmeticExact`, `NoTrap`, `WideWithinOne` |
| `int64_wide` | the same | finding |
| `assembler` | every mnemonic with every list of two operands out of seven kinds (and of three where there are any); every register, 14 shapes of addresses in 4 sizes; programs of three lines out of two dozen; four lines around the reach of a short jump; two places for the code, two values of unset words. For the assembler in C: its whole table, its operands, and short programs, with a table of 3 symbols | `BothStagesAgree`: what the first reading accepts is refused later only for labels and reach. `BothAsWritten`: decoding the code gives the lines back. `SymbolsPlaced`, `InsideBlock` |
| `assembler_cdq` | one line | finding |
| `library` | one call each: every pair of places and length in a memory of ten bytes; all texts of up to 4 of six characters and texts around the limits of types of 8 and 12 bits, in four bases; every conversion with every set of flags, with widths and precisions on both sides of the digits, in buffers that are too short; inputs of up to 4 characters for every reader; arrays of up to 9 with equal keys, and longer ones in many orders (threshold 3); sources of three pieces. Expressions with every pair of operators in every position, three from chosen levels, and all sequences of four tokens out of eight; three macros that use one another; groups of up to three branches in a group, files that include one another | `StringsExact`, `ConversionsExact`, `PrintsExact`, `ScansExact`, `SortsExact`, `LexesAsWritten`, `ExpressionsAsC`, `PreprocessesAsC` |
| `cmachine` | 2373 programs: loops in loops with break and continue at every place; switches with up to four items, cases in nested blocks; labels and jumps in any order, missing and double ones; scopes whose names hide one another, short circuits; two functions with the same label. Stack of 13 words | `RunsAsC`: what is evaluated, in which order, and when a function returns, is what C says for every outcome of the conditions. `VariablesInPlace`: whenever a variable is read or written, the stack is as high as the compiler took it to be |

**Why the bounds are enough.** kmalloc treats buckets alike, and a list needs three
chunks for a link in the middle. A red-black tree of five keys has every case of the
insertion and of the deletion, each on both sides, as the coverage of the run shows.
The G compiler's rules look at one token and at the innermost block; eight alphabets
stand for the features that interact, a single alphabet with all tokens being out
of reach. Sectors of two and three bytes have a first, a last and (in diskfs) a
middle byte. Two descriptors are one that makes a call and one that must not notice.
The routines of `int64` are uniform in the width of a word, and four
bits are the smallest even width for which counting leading zeros has two halving
steps, as 32 bits have five. Handlers of mnemonics look at kinds, sizes and two
special register numbers (4 and 5), all of which occur. The parser of expressions
compares the operator at hand with the one on top of its stack, so that pairs are what
matters, and triples are for what a pop uncovers. A statement of C compiles to code that depends on the
innermost loop, switch and block and on the labels of the function, which the families of
programs combine.

*Reductions.* `MCVfs` has a VIEW that leaves out what the last call returned and
where reading stopped in entries of the kernel's table that no descriptor refers to any
more: no action reads either (`ImplementsFiles` relates what is returned to the state in the
step itself). The descriptors are addresses, which nothing compares but for
equality, and are symmetric. Programs and copies are two kinds of users whose behaviours are
explored apart, by `user`: a copy uses the other file systems for reading only.

**Fairness.** Only `RbMap` states any: `WF_vars(Steps)`, a call that has begun goes
on. There is one processor, no preemption and no waiting, so that a routine that can
take its next step does. Which calls are made, and how many, is left open.

## 4. Abstract specifications

`HeapSpec`, `MapSpec` and `FileSpec` say what the users of a component rely on.
`Kmalloc!ImplementsHeap`, `RbMap!ImplementsMap` and `Vfs!ImplementsFiles`
are refinements (`INSTANCE ... WITH`), checked as properties and proved (section 5).
Three file systems with different state implement one `FileSpec` together, through one
set of descriptors; a read-only one implements the part without writes, and what it does not
support stops the system. The content of a file is for /ram the bytes of its vector up to its
size, for /init a slice of the archive, for /disk1 a slice of the image. The map of
`RbMap` is the content of the nodes in use; in the middle of the rebalancing of an insertion
it is already the content after the call, and of a deletion still the one before, so that those
steps stutter.

`CMachine` has another kind of reference: a program is a tree, its text is what the compiler
reads, and C's control flow is a set of edges between the places of the tree, given by recursion
on the tree with the targets of break, continue, return and the labels. Nothing in
it knows positions, labels' numbers or the stack. `RunsAsC` says that what the processor
evaluates next is always at the end of such an edge. An expression is one token that returns
any of the values a condition can tell apart.

## 5. What is proved

Three components have proofs, for every value of their constants: the allocator, the maps, and
the file systems with what is built on them.

### The allocator

`KmallocProofs` holds for every number of buckets, every set of sizes and any number
of calls:

| Theorem | Says |
|---|---|
| `Invariance` | `Spec => []IInv` |
| `Typing` | `Spec => []TypeOK`: types, and the break stays a multiple of 4 (a part of `IInv`) |
| `Separation` | `Spec => []NoOverlap` |
| `HeadersIntact` | the first word of a chunk in use is the number of its bucket |
| `NoSpuriousPanic` | `Spec => []FreeAccepted` |
| `ListsStayExact` | `Spec => []FreeListsExact`: following the links from a head one meets the free chunks of the bucket, each once |
| `MemoryIsReused` | `Spec => ReuseBeforeGrow` |
| `Refinement` | `Spec => ImplementsHeap`: the allocator implements `HeapSpec` |

*Assumptions*: `NBUCKETS` is positive, the heap starts at a positive multiple of 4,
sizes are signed words, the size of a bucket is at least 8 (`BucketSizes`,
which TLC evaluates for the instance), and `NoHugeSize`: no size `s` with `s + 4`
beyond the largest signed word. The last one is necessary (section 6).

*Argument*. `NoOverlap` is not inductive: whether a chunk may be handed out depends
on what the free list holds. `IInv` adds (a) `Layout`: chunks, the table and foreign
blocks are below the break and apart; (b) `Links`: every list head and every link of
a free chunk is 0 or a free chunk of the same bucket, and no two of them meet; (c)
`LargeEnough`: the bucket of a chunk in use holds what was asked for; (d) the count
of mallocations. Describing a list by its links and not by walking it keeps the
invariant free of recursion, and the head of a list can be moved to a chunk in use
without looking at the rest. Each action has a lemma, with a step per conjunct;
`realloc` is a composition of the lemmas about taking and returning a chunk.
`FreeListsExact` follows the links; its invariant `ListInv` says that every bucket has a sequence of
free chunks without repetition in the order of the links: `malloc` takes its first one, `free` puts one in
front. Along such a sequence `Hop` is computed by induction, and it is no longer than there are
chunks. The refinement maps the state to the set `Regions` of what is handed out: `malloc` and
`platform_client` are `Alloc`, `free` is `Release`, `realloc` is `Move`, a panic is a
stutter. A new region is fresh because `NoOverlap` holds after the step; that the copy
made by `realloc` does not overlap its original, which is no longer handed out then,
follows from `Layout` and `LargeEnough`.

### The file systems

`VfsProofs` and `FileProofs` hold for every archive and every set of images,
for words and sectors of any size, any number of descriptors, names, texts and restarts:

| Theorem | Module | Says |
|---|---|---|
| `InternalAssertionsHold` | `VfsProofs` | `Spec => []InternalAssertions`: those of ramfs.g |
| `TextIsWritten` | `VfsProofs` | `Spec => []TextWritten`: what `fputs` and `fwrite` leave in a file |
| `CacheStaysCurrent` | `VfsProofs` | `Spec => []CacheIsCurrent`: the sector kept is that of the position |
| `TableIsRead` | `VfsProofs` | `Spec => []TableIsImage`: mounting reads back what `create_diskfs.py` wrote |
| `FilesAreImplemented` | `FileProofs` | `Spec => ImplementsFiles`: the three file systems implement `FileSpec` |
| `CopiesAreFound` | `FileProofs` | `Spec => []CopiesArrive`: the host finds what was finished, whole |
| `NothingElseIsFound` | `FileProofs` | `Spec => []NothingElse`: and nothing but the beginning of one more |

*Assumptions* (in `Vfs`, evaluated by the runs). `RamConstants`, `ProgramConstants`: what is
written are bytes, a word is not empty. `InitConstants`: the archive has distinct names of bytes that are not 0,
and magic and headers of even length. `DiskConstants`: a sector has at least 2 bytes, the
partition begins with a sector, names are distinct and not empty, positions and sizes fit in the four bytes
of a table's number, and the table in the size that the mount gives its own descriptor (`HUGE`). `DebugConstants`: the name of
a copy fits in one sector with its end, and the sources have no byte of value 0, which the format on the disk
cannot hold.

*Argument*. `Control` says who may have which descriptor: one descriptor belongs to one
file system, and a function that makes several calls has the one it began with. Each file
system has an invariant over its own variables, and lemmas (`RamStep`, `InitStep`,
`DiskStep`) reduce a step of the whole to one of its own or a stutter:

* `RamInv`: the vector of a file has room for its size and less than one word more, a whole
  number of words. Without the second half the truncation would not be inductive.
* `TextInv`: in the middle of `fputs` or `fwrite`, the file has the text so far, and what is left
  begins where the position is.
* `InitInv`: every place of the kernel's table has the bounds of a file of the archive, a
  position between them, and no two descriptors share one. That `walk_initrd` finds a file where
  the archive has it is shown by following its steps from one header to the next.
* `DiskInv`: what each descriptor caches is the sector of its position, and the scanner stands
  in one of five places of entry `i`, with the entries before it in the table, and the
  part of a name or a number that it has read.
* `DebugInv`: what the script has seen when it comes to the position is what was finished and
  the flushed part of the file being written; after the position are either zeros or what an
  earlier run left. `CopyInv` adds that this part is a prefix of the source.

For the refinement, `AbsContent` and `AbsFds` map the state to `FileSpec`. Each action of each file
system has a lemma which says what it does to contents, positions and the answer;
every one is an action of `FileSpec` or a stutter (a step of the scanner, a byte of a copy to
the disk, a call that stops the system).

### The maps

`TreeProofs`, `RbMapProofs` and `ColorProofs` hold for every number of nodes, every set of keys and
every sequence of calls:

| Theorem | Module | Says |
|---|---|---|
| `LinksHold` | `RbMapProofs` | `Spec => []LinkInv`: a tree at every step, and the routine stands where it expects to |
| `KeysAreOwned` | `RbMapProofs` | `Spec => []KeysOwned` |
| `MapIsImplemented` | `RbMapProofs` | `Spec => ImplementsMap`: every call does what `MapSpec` promises |
| `NoAssertionFails` | `ColorProofs` | `Spec => []AssertionsHold`: and nothing goes through a null pointer |
| `TreeIsRedBlack` | `ColorProofs` | `Spec => []RedBlack` |

*Assumption*: `RbConstants`, the number of nodes is a natural number and settings are pairs of integers.

*Argument*. The code follows `parent` upwards and `child` downwards, and neither is a
definition by recursion in the invariant. `LinkInv` says of the nodes (`Tree`) that a child's parent is
the node it is a child of, that the children differ, that what is not in use is zero, and
that no set of nodes but the empty one is closed under `parent`: this is what excludes circles, and
it is stable under rotations, which change three links. Of the call
(`Control`) it says which node it stands at: the node to be removed has at most one child,
and there is a `Way`, a set of nodes, from it up to the node whose height is
wanting. With it, the node to be removed is never the sibling or a nephew that a
rotation would move. Of the keys (`Owned`) it counts the nodes that have one.

That the map is one (`ImplementsMap`) rests on the order of keys, `OrderInv`. An order stated over
*all nodes below* a node would need a recursive definition; instead there is a function
`bound` which names, for each node and side, the nearest node above it on that side (0 if
none). `Sorted` says that a node lies between its bounds and that bounds are
inherited from the parent, which is local: a rotation changes two bounds, a new leaf
gets two, and when a node is unlinked its bounds take its place as a bound. Between calls what is
compared is the keys. During a deletion it cannot be: after the trade of keys the node to be
removed has the key of a node above it, out of place. So `Sorted` is stated for any
*rank* of the nodes, and `Agrees` says that the rank orders them like their keys, except for the
leaving one; that no key lies between the traded two is what makes the trade harmless
(`Predecessor`). From the order: a lookup that ends at null has missed no node, since the set of nodes
between whose bounds the key lies is a single way down (`OneWay`), and a descent ends at the node where the
key belongs; the walk lists nodes with rising keys, so none twice (`VisitOnce`). `Distinct` and
`Counted` complete the invariant: keys differ, and `size` counts the nodes but the leaving one.
Each action then has a lemma that says which operation of `MapSpec` it is: `map_set` and
the calls that answer are one step, `map_erase` takes effect at `unlink` (at once when the key is not
there), and every other step of the chains is a stutter (`StepsStutter`).

`RedBlack` is false in the middle of a call. `ColorInv` says what is true instead: there is a
function of *heights*, one number for each node, which agrees with colors and
children everywhere but at one node, `n`, where one black node is missing (deletion) or a red
node may have a red parent (insertion); and `Found` says what each routine has tested before it
passes control to the next (`delete5`: the sibling is black and a child of it is red). Each
routine then has a lemma that gives the new heights. That the sibling is never null follows
from the heights: it has one more black node below it than `n`, so it is at least 2. Between calls `n` and
the node to be removed are 0 and heights agree everywhere; that the recursive function
`BlackHeights` computes them is shown along the depth of the nodes.

### The assembler

`AssemblerProofs` holds for every kind of file of any number of lines, and every place where
the code may be put:

| Theorem | Module | Says |
|---|---|---|
| `SymbolsArePlaced` | `AssemblerProofs` | `Spec => []SymbolsPlaced`: the symbols that the program gets are the labels of the file, each where the third reading put its line |

*Assumptions* (in `Assembler`, evaluated by the runs). `LinesParsed`: a line is what
`asmctx_parse_line` makes of a text. A name that the table has begins an instruction, with one or more lists
of operands; a label is not empty (asm_compile.g:482 and 486 take the end of a line or of the
file before a label is read); data have one of the directives; an operand is a register of the table, terms in
brackets, or values.

*Argument*. The second reading is the only one that adds symbols, and the third one checks them;
but between the label of a line and the next one there is all the code of operands and
handlers, which gets the context as well. So the larger part is `Keeps`: whatever the
row of the table, the operands and their number, a step of the ten handlers leaves the stage and the
symbols alone. The handlers of `add` and of jumps write a value whose size they compute, which
is one that `emit_size` knows only since the size of every operand is (`OperandIs`, by induction on its terms) and
the table says how many operands there are (`TableRows`, for each of its 16 groups). The invariant `IInv` then says
for each reading what it has seen so far: in the second one the symbols are the labels of the first
`line` lines, none of them defined twice (`Once`), in the third one they are those of the whole file, and
the lines so far went where the labels say (`Placed`). `Once` is what makes the label's line the only
one, which `LabelAt` needs. After an error the assembler stops, and `IInv` says nothing of the symbols.

### How recursion was dealt with

The induction theorems of the library have an operator as a parameter, which none of the
provers here can instantiate. `ProofLibrary` states induction over a *set* of numbers (a set of
naturals has a least element, which `WFMin` gives without such a parameter), and that a
function defined by recursion on a length exists and is unique, over an explicit graph. Both are
used wherever a sum, a join, a scan or a walk down a tree is unrolled.

### What is only model-checked

* Liveness (`CallsReturn`) and what depends on `ENABLED` is outside what the prover does.
* The properties of modules with recursive operators (`Staging`, `GLexer`, the C library, the C
  front end, `CStatements`, `CMachine`, and what extends or joins them: `MCLibrary`, `MCMachine`,
  `MCAssembler`, `GStaging`): the prover loses its arithmetic in them.
* `StagesAgree` of `GCompiler`, and what rests on it (`LabelsAreOfThisFile`, `BranchesLand`,
  `SlotsResolve`): it does not hold for every alphabet of tokens. In `const X f`, where `f` is declared with `ifun` and not
  defined yet, the first reading takes the placeholder for the value of the constant.
  A theorem needs a condition on the order of definitions, which the code does not state.
* `StagesAgree`, `StaysInside` and `AssembledAsWritten` of `Assembler`, of which `BothStagesAgree`,
  `InsideBlock` and `BothAsWritten` are the same for both assemblers. They compare two readings of
  a line, or a line and its bytes. As they are stated they do not hold for every alphabet: `align` to
  an expression with `shr` is not seen by `Relocates`, which gives `shr` its meaning where the code
  shifts to the left.
* `Int64`: widths are constants, and the products of words are not linear.

## 6. Disagreements between the code and what it says

* **`while` with more than one value in its condition** (`gmachine_loops`). README.md:632
  allows any sequence of tokens as a condition. At the end of an iteration the
  code jumps back with the additional values still on the stack, and variables are
  read from the wrong slots. `SlotsResolve` holds where no condition does this.
* **Reading twice at the end of a /ram file** (`ramfs_eof`). The position moves on past the end,
  where the next read fails the assertion at ramfs.g:50.
* **Unsigned division by a denominator wider than a word** (`int64_wide`). The correction of
  the quotient compares addresses in place of numbers: the quotient may be off by one.
* **`cdq`** (`assembler_cdq`). The table has the code of `cwde`; `i64_from_32` uses it.

Seen while modelling, without a run. Where a property would fail on one of these, the
model has the code's behaviour and the property names the exception.

*Memory and G.* `kmalloc.g:80`: for sizes from 2^31-4 `size 4 +` wraps and the smallest bucket
is used. `simple_malloc.g:84`: freeing a block behind all free ones
writes the back pointer of a block that is not there, at address 8. `asmg.asm:406` collects a token in a buffer of fixed
length without a check. A function that leaves a value in a block leaves `temp_depth` at 1 for
the next function (README.md:573 says that the stack is empty there); slots are still right. A
function declared with `ifun` and defined in another file is called at -1.

*Files.* A seek to a negative position is accepted in `ramfs.g:167` and in `diskfs.g`.
`diskfs.g:216` sets one byte of a word that is compared as a whole. `kernel.asm:748` has no check
of its table of 1024 open files, from which nothing is removed. `extract_debugfs.py:53`: a sector of
zeros in a file ends it, and what follows is taken for file names. `fcntl.h:28`: the second
condition of `open` is always true, and `O_RDWR` equals 1. `string.h:185`: `strdup` allocates
`strlen(s+1)` bytes. `ctype.h:17`: `isdigit` tests for letters. `_scanf.h:144`: `%*` is obeyed
for numbers only; the other conversions store all the same.

*Assemblers.* `movsd` has the code of `movsb`; `[eax+ebx+ecx*2]` drops `ebx`, past an
assertion meant to refuse it; `shr` in an expression shifts to the left;
segment registers spill over their field; `bsf`, `bsr` and the `bt` family
(`asm_opcodes.g:1935`) accept operands of 8 bits, the latter reading a field of the table that
nobody set. `AssembledAsWritten` names these as its exceptions (`Usual`).
`align` to more than 4 bytes fails "asmctx_compile: error 1" unless the block
happens to be aligned: the first reading starts at 0. `rb` with a label has a
size of 0 at first and is written past the end of the block (`Relocates`). In `staging.c`,
`process_int2` (724) tests `res` where its result is elsewhere; `align` adds a whole block
when the location is aligned already; `equ` with a symbol fails in stage 1; and
`assert(mod == mod & 0x3)` is always true.

*64-bit integers.* `int64.asm:77`: `i64_lnot` leaves `edx` in the upper word of its result.

*Preprocessor.* A call of a macro with parameters that is the first token after a
directive, or a name at the very end, stops the compiler (`push_token` takes back a token that is not there), which
the comment at c_preproc.g:1402 does not expect. Macros that name each other never stop
expanding. `##` in a macro without parameters is not seen, `# x` with a blank asserts, and a
second definition that differs in blanks at its end is refused, as is a `#` alone. Conditions
are evaluated in groups that are skipped, too; a macro in one counts as if it were in parentheses;
numbers there have one word and no sign. `&&`, `||` and `?` evaluate all their operands; unary
`+` and `,` are refused. More tokens after `#else` or `#endif` stop the compiler. The assertion in
`collapse_strings` has lost its comparison.

*Parser and compiler.* c_ast.g:368: a comma between the arguments of a call is the
operator. c_compile.g:5409: the test of a `case` moves the stack to where the case needs it before it
jumps, and leaves it there when the jump is not taken: a case in the scope of a variable of
the body of its switch makes the next cases, and the function's return, miss their places
(`VariablesInPlace` is stated with this exception). c_compile.g:3488: `&&` and `||` of
operands of 8 bytes pop one word of each. `break` and `continue` outside of a loop jump to a label that
nobody set. Two cases with the same value are accepted, and the first is taken.

## 7. What is not modelled, and why

* *Characters* of the lexers in assembly and G (`get_token` of `asmg.asm`, `asmctx_get_token`, the
  tokeniser of the preprocessor): the models have tokens and lines. The lexer of `gstaging.c`,
  which `get_token` was written after, is in `GLexer`.
* *Most of the C compiler's expressions*: types, sizes, layout of structures, conversions,
  initialisers, the code of the operators other than those that jump, global variables. They are
  tables of cases in 3000 lines without state that outlives the expression; a model short enough
  to be read would keep only what is certain. The statements and the stack picture,
  where an error takes several steps, are modelled.
* *Floating point* in `_strtox.h`, `_printf.h`, `_scanf.h` (the code reads it and gives 0), and
  reading from streams, where `getc` always returns EOF.
* *Output, dumps, stack traces*: nothing depends on them.
* *Hardware*: ports, BIOS, the ATA protocol and its unbounded polling, the boot loader. The scan of
  partitions is a loop over four entries; the models start from a partition that is found.
* *Code that the system is not built with*: `simple_malloc.g`, `triv_malloc.g`, `check_malloc.g`,
  `map.g` and `avl_map.g` are behind switches in `main.g` that are off, as are the three programs of
  mescc-tools; `asmg0` is a separate experiment.
* *`cc/cc.c` and `cc/cc2.c`*: two unfinished compilers that nothing builds. Neither compiles a
  program as it stands: the loop of `find_matching_rev` (cc.c:98) has its condition reversed, and
  `decode_number` (cc.c:477) compares one character with both `0` and `x`.
* *Programs not in the repository* (tinycc, fasm, mcpp, iPXE) and what drives them.
* *`asmasm`* beyond what it shares with `staging.c`: its registers and buffers.
* *Memory below the level of the modules*: `malloc` succeeding is assumed by modules
  other than `Kmalloc` (there is no failure: it panics), and words of a stack frame are
  looked at only where the code depends on them (`Int64`, `GMachine`, `CMachine`).
* *Bytes of value 0* in debugfs files, which its format cannot hold; destruction of
  mounts at shutdown; the console, `setjmp`, `exit` and `abort`.

## 8. What could come next

Proofs, in this order: the carries of `Int64` for every width; the location invariants of
`GCompiler`; the half of `BothStagesAgree` that is about `Assembler`, for files without `shr`. Each starts from an invariant that a
run checks today. Of the code, the sizes and conversions of types in `c_compile.g` are
what is left of the program's own logic.

## 9. Running

    tlc -config MCKmalloc.cfg MCKmalloc        # and likewise for the other configurations
    tlapm KmallocProofs.tla                     # and ProofLibrary, VfsProofs, FileProofs, TreeProofs,
                                                # RbMapProofs, ColorProofs, AssemblerProofs

The longest, `RbMapProofs` and `ColorProofs`, take about eight minutes each, the others a few. `PROJECT.json` lists components, runs, mutants, the source lines of each definition,
findings, hazards and theorems.
