# Alpha OS in TLA+

A verification development for Alpha OS (`src/`): TLA+ modules of its parts, TLC
configurations that model-check them on small instances, and TLAPS proofs of the
results that hold for every size.  `PROJECT.json` is the index: components, runs,
the lines of C behind each definition, findings, hazards, theorems.

The reference is the kernel build (`src/Makefile`: `gcc -m32 -ffreestanding`): a
single thread that polls, no interrupts, 32-bit `size_t`.  The `TEST_MODE` halves of
`memory.c`, `console.c` and `keyboard.c` wrap the host's C library and are not the
program.

## 1. The system

`kernel_main` (main.c) initialises console, memory, keyboard, system, file system and
shell, in this order, and enters `shell_run`, which never returns.

| part | state | operations | what makes it correct |
|---|---|---|---|
| heap (`kernel/memory.c`) | `heap[]`, block list, `free_memory` | malloc, calloc, realloc, free, statistics | blocks tile the heap and keep their headers, clients' blocks are disjoint and large enough, no needless refusal, nothing leaks |
| file system (`kernel/fs.c` 14-53, 158-277) | `entries`, `data[]`, `data_used` | create, write, read, delete, exists, size | one entry per name, every file inside `data[]`, a read returns the last write, `/` stays |
| paths and directories (`fs.c` 55-156, 279-374) | none (text) | normalise, absolute, parent, split, list, change | one spelling per path, `..` means one thing everywhere, ls shows the directory |
| shell (`kernel/shell.c`) | `current_dir`, `username`, `hostname`, `is_root`, history, command table | 24 commands | privilege and name agree, history and listings hold what they should |
| keyboard (`kernel/keyboard.c` 94-190) | ring, head, tail | poll, read, available, clear, get_line | keys in order, none lost, the line fits its buffer and ends |
| console (`kernel/console.c` 54-193) | cursor, color, VGA cells | putchar, write, clear, color, cursor | the cursor stays on the screen, scrolling loses nothing |
| libc (`libc/`) | `strtok`'s position, `rand`'s seed | strings, numbers, formatting | words of a line, numbers that read back, a print that stops at its limit |
| system (`kernel/system.c`) | a counter | uptime, delay | - |
| boot (`arch/x86`) | the stack | - | - |

How they interact: everything is a call on one stack.  The shell calls `keyboard_get_line`,
which polls the controller and echoes with `console_putchar`; it then calls one handler,
which calls the file system and prints.  State that is shared without being passed:
`current_dir` (shell and `fs_change_directory`), `strtok`'s position (the shell's splitting,
`ls -l` and `fs_normalize_path`), the cursor (echo and all output).  The heap has one
user, `strdup`, with which `shell_register_command` (shell.c:90-93) copies the names and help texts of the
commands at boot; no command allocates, and nothing frees.

The one concurrent actor is the user, whose keys enter the controller at any time.  Nothing
is persistent and nothing times out, so there are no crashes, retries or lost messages to
model.  What is hard here is protocol: long sequences of legal calls, offsets and positions
kept from one call to a later one, limits, and size arithmetic.

The hazards, each at its line and with the properties for it, are in `PROJECT.json`.

## 2. The modules

| module | models | abstract specification |
|---|---|---|
| `Heap` | memory.c | `Allocator`: extents that are disjoint and stay put |
| `FileSystem` | fs.c's table and data | |
| `FileClient` | `FileSystem` and what a caller may expect | `FileStore`: a map from names to contents |
| `Paths`, `PathLaws` | fs.c's path functions; a user who types paths and changes directory | a walk piece by piece, and the names no `..` takes back |
| `Shell` | the state-changing commands on `FileSystem` and `Paths`, and `fs_list_directory` | |
| `Listing` | `ls` and `ls -l` on `Shell`: the text of a directory, taken apart with `strtok` | the entries of the table |
| `Libc` | `strtok`, `atoi`, `itoa`, `vsprintf`, and the arithmetic of an `int` | (of numbers) the value of a numeral, in `CommandLine` |
| `CommandLine` | `shell_process_command`: history, words, `history`, `echo`, `calc` | the lines typed, as a list; words; exact arithmetic |
| `Console` | console.c | `Teletype`: a printer with one roll of paper |
| `Keyboard` | the ring of keyboard.c | `KeyQueue`: a bounded queue |
| `Terminal` | `keyboard_get_line` between `Keyboard` and `Console`, under `shell_run` | |
| `HeapProofs`, `FileSystemProofs`, `FileClientProofs`, `TextProofs`, `ShellProofs`, `CommandLineProofs`, `TerminalProofs`, `NatInduction` | theorems | |
| `MC*` | instances for TLC | |

`Terminal` composes `Console` and `Keyboard`; `Shell` composes `FileSystem` and `Paths`; `Listing`
composes `Shell` and `Libc`.  `MCKernel` (heap, screen, ring) and `MCPrompt` (paths, lines, keys) put parts
that share nothing into one run, each used while the others rest.

How state and actions correspond:

* **Heap.** `blocks` is the linked list from `heap_start`, in link order; a block's `addr` is
  the offset of its header.  The order of addresses is not built in: `Tiling` says it.
  `MallocGrants/MallocRefuses`, `Calloc`, `Free` and the four outcomes of `realloc` are actions;
  `AlignUp` computes modulo `SizeMod`.  `owned` is the client: pointers it holds and the sizes
  it asked for.  Clients pass only pointers they hold.  Of the bytes that `realloc` copies and
  `calloc` clears, the model has where they fall: `spoiled` is the set of headers they have run over,
  which have lost their magic word, and the search, the merge, `free` and `realloc` stop at such a header
  as the code does.  Two assumptions: what is written over a header is never the magic word, and clients
  stay inside their payloads.
* **FileSystem.** `entries[0..num_entries-1]` is the sequence `entries`; deletion swaps the last
  entry into the hole.  Every operation has one disjunct per return value.  `fs_init` is the list
  `BootCalls`, made one call at a time before anyone else may call.  Times, permissions and
  `parent_index` are never read back by the kernel and have no field.
* **Paths.** A path is the sequence of pieces between slashes, so the C code's text operations are
  sequence operations and a trailing slash is an empty last piece.  Paths are shorter than
  `FS_MAX_FILENAME_LENGTH`.
* **Shell.** One action per command.  `cwd` keeps its trailing slash as `current_dir` does.
  (`shell_set_current_dir`, shell.c:142, has no caller.)
* **Libc, CommandLine, Listing.** A text is a sequence of characters; one character stands for a
  whole name where nothing looks into it.  `strtok`'s static position is the text that is left, and a
  second user of it in a loop is a loop that goes on from there (`LinesSeen`).  `vsprintf` is a fold
  over the format, with the directives it does not know copied to the output and its limit.  A line
  that is entered is one action: into the history, into words, and the answer of the command.  A trap
  of the processor (the least `int` divided by -1; there is no interrupt table) is a reset, after
  which the history is that of a new boot.
* **Console.** `scr` holds row, column, color and cells; `PutChar` is a function of it, so that
  callers compose it.  `scr.above` is a history: the lines scrolled off since the last clear.
* **Keyboard, Terminal.** `port` is the controller, external: a queue of scancodes that loses what
  does not fit.  An iteration of `keyboard_get_line` is an action (poll for a key, take a key, stop
  because the buffer is full); the user presses keys between any two of them.

Definitions with an underscore (`Absorb_NoHeader`, `Erase_Halfway`, ...) are plausible mistakes; each
stands before the definition it would replace, and shows that a property fails with it.

## 3. The runs

| run | expected | bounds | what it shows |
|---|---|---|---|
| `kernel` | pass | heap of 128 bytes, 16-byte headers, six request sizes, counts 0 and 3; screen of 2 x 3, tab stop 2, 2 colors, one line scrolled off, two cells with ink; ring of 4, one scancode waiting | up to five blocks: `Tiling`, `Coalesced`, `ClientView`, `GrantsRequest`, `Integrity`, `AccountingExact`, `AllFreedRestores`, `NoFalseRefusal`; `Allocator`, `Teletype` and `KeyQueue` are implemented |
| `heap_wrap` | violation of `GrantsRequest` | 8-bit `size_t` | rounding and calloc's product wrap |
| `file_client` | pass | 3 entries, 4 bytes, 2 per file, 4 names, two byte values | the table: `UniqueNames`, `ExtentsInBounds`, `RootStays`, `OneNameAtATime`, `SpaceSpent`; careful callers: `FileStore` is implemented, `ReadBack`, `RoomsDisjoint` |
| `fs_overlap` | violation of `ReadBack` | two files | callers that create and then write see another file's bytes |
| `prompt` | pass | paths: two names, 5 pieces, two deep, depth limit 3; lines: up to nine characters, a history of 3, a 6-bit `int`, printing limit 17; keys: 2 x 3 cells, ring of 2, two scancodes waiting, a buffer of 4 bytes, prompts of 0 and 1 | `KeepsSurvivors`, `WalksTogether`, `OneSpelling`, `SplitsAndJoins`; `HistoryKept`, `WordsExact`, `EchoExact`, `NumbersReadBack`, `CalcRight`; `EchoFits`, `NoKeyDropped`, `EnterEndsLine`, no overrun |
| `history` | violation of `HistoryShows` | up to three lines, some of them `history` | `history` prints formats instead of lines |
| `shell` | pass | 5 entries, 6 path arguments | `IdentityAgrees`, `ListsItsFiles`, `LinesNameEntries` |
| `mkdir` | violation of `DirectoriesFound` | a file table of 3 entries, a boot that makes `/home` | a directory made with `mkdir` is in no listing, and `rm` does not find it |
| `shell_cd` | violation of `CdEnters` | a `/home` made by `fs_init` | `cd /home` fails after boot |
| `ls_long` | violation of `LsLongShowsAll` | a directory of two entries | `ls -l` stops after the first |
| `ls_names` | violation of `LsShowsNames` | the same | `ls` prints formats instead of names |
| `terminal_wrap` | violation of `EchoShows` | a line that wraps | backspace does not cross the wrap on the screen |

Why the bounds are enough.  The heap has exact fits, remainders just too small and just large
enough to split, free blocks on both sides of a freed one, and refusals; nothing in the code
depends on a further block.  The file table and `data[]` both fill, a file is deleted and made again
while another lives, deletions move a file and a directory, a rewrite is longer and shorter than
before, and a write is too long.  That run has careful callers only; for the properties that
`FileSystem` promises to any caller the theorems `TypeCorrect`, `Bounds`, `Unique`, `RootKept`,
`OneName` and `SpaceIsSpent` say the rest.  Two names and five pieces give every pattern of names, `..`, `.` and empty
pieces around two levels, and paths on both sides of the depth limit.  A line of nine letters and
blanks has more words than `argv` holds (4 here) with blanks on all sides of them; the history goes
round more than twice; the 6-bit `int` has all its numbers read and written, and its boundary numbers
in every operation, among them sums and products that do not fit; the printing limit falls inside an
argument.  The screen has a last row, a last column, a tab stop in the row and one past it; the real
one has more of the same, and 80 is a multiple of 4 as 3 is not of 2, so both ways for a tab to end a
row occur in the small one.  The ring's indices go round several times.  In `Terminal` the ring has
room for one key, which is all that `get_line` ever uses (`NoKeyDropped`).  Its buffer of four bytes is
longer than a row of three cells, as the 512 of a command are longer than 80: a line may end within the row
or go beyond it, by a character typed or because the prompt has taken a cell.

Deadlock is checked in every run.

Fairness.  Only `Terminal` assumes any: `WF_tvars(GetLine)`, which `MCPrompt` keeps.  The processor has nothing to do but
the loop of `keyboard_get_line`, so its next step is taken.  Nothing is assumed of the user:
`EnterEndsLine` says that once Enter is in the controller the read ends.

### What the violations mean

* `heap_wrap`: memory.c:97 and 160 compute in `size_t` and do not notice that the result wrapped.
  A block so granted may have no byte at all, and then `realloc`'s `memcpy` (153) and `calloc`'s `memset`
  (163) run over the headers behind it.
* `fs_overlap`: `fs_create_file` takes the offset `data_used` without reserving anything (171), and
  rewriting copies there without advancing `data_used` (199-201).  The test in
  `scripts/test_fs_shell.c` does exactly this.  `fs_init` writes every file once and the shell
  never writes, so the kernel as it stands is a careful caller.
* `shell_cd`: the lookup in `fs_change_directory` is for a name with a slash at its end, and `fs_init`
  makes names without.
* `ls_long`: `cmd_ls` loops with `strtok` over the listing (shell.c:395, 414) and calls
  `fs_normalize_path` for each line (399), which runs `strtok` over another text to its end;
  `strtok` has one static position (string.c:200), so the loop ends after its first turn, though the
  comment at 395 says "Parse buffer and show detailed info".
* `ls_names`: `vsprintf` knows no flag and no width and copies what it does not know
  (stdio.c:168-173), so `%-20s` (shell.c:427) is printed as it stands and takes no argument.  The
  formats of `ls -l` and `help` go the same way.
* `history`: the row's format `%3d  %s` (shell.c:622) is another one.  The width takes no argument, so the
  `%s` takes the number of the row for an address: none of the lines is shown, although the ring has kept
  them and `cmd_history` finds them there (`HistoryKept`).
* `mkdir`: `cmd_mkdir` stores a directory with a slash at its end (shell.c:503-510).  `fs_list_directory`
  takes such a name for something further down (fs.c:309), and `rm` looks up a path without the slash; the
  help texts say "List directory contents" (shell.c:50) and "Remove a file or directory" (56).  So
  `mkdir /home` also makes a second entry beside the one of `fs_init`.
* `terminal_wrap`: `console_putchar` ignores `\b` in column 0, so the echo of a backspace stops there.

## 4. The proofs

`HeapProofs` (for all `HeapSize`, `HeaderSize`, `SizeMod`, `Requests`, `Counts`, from `HeapAssumption`).  Every
theorem is under `RequestsFit`: no request wraps in `size_t`.  `heap_wrap` shows what becomes of the heap when one
does: a block smaller than asked, and headers that are written over, after which nothing holds.

* `HeapTiled`, `HeapCoalesced`, `ClientsAgree`: `Tiling`, `Coalesced` and `ClientView` always hold.
  None is inductive alone: a merge finds its neighbours by position, which is adjacency only in a
  tiled heap, and `free` finds its block only because clients and list agree.  The invariant
  `HInv` joins the three with the type of the list and with `Integrity`.  The argument goes call by call: what
  `split_block`, the marking of a block and the whole loop of `merge_free_blocks` do to a tiled list
  (by induction on the turns of the loop, `MergeTurn`, `MergeKeeps`), then `malloc`, `free` and the
  moving `realloc` as compositions of these (`GrantEffect`, `FreeEffect`, `MoveEffect`).
* `HeadersKept`: `Integrity` always holds.  What `calloc` clears is no more than it asked of `malloc`, and what
  `realloc` copies is less than the size it asked for, so both end inside the new block; and in a tiled heap no
  header lies inside a payload.
* `EnoughIsGranted`: `GrantsRequest` always holds.  `GInv` adds to `HInv` that each block is as large as
  its holder's request.
* `AccountingHolds`, `HeapTyped`, `NothingLeaks`, `RefusedForWantOfRoom`: `AccountingExact`, `TypeOK`,
  `AllFreedRestores` and `NoFalseRefusal`.  The invariant
  `AInv` adds to `HInv` that the counter and the bytes of the blocks in use make up the heap.  The
  bytes in use are a recursive function of the position in the list (`PayloadBytes`), and what a
  call does to them is told from the one or two blocks it changes (`OneBlockChanged`,
  `OneBlockMore`), turn by turn for a merge (`MergedBytes`).  That the counter is what the
  property says takes the other half, that a tiled list has no bytes besides its blocks
  (`TilingBytes`).
* `HeapImplementsAllocator`: the heap implements `Allocator`; each call is a step of
  it on the extents of the blocks in use.

`FileSystemProofs` (from `FileSystemAssumption`, any callers): `TypeCorrect`, `Bounds`
(`ExtentsInBounds`, which needs that every offset is at most `data_used`), `Unique` and `RootKept`,
each from the invariant before it; and `OneName`: the swap of a deletion moves an entry and loses
none, so the set of entries changes at one name (`OneNameAtATime`).  `SpaceIsSpent` (`SpaceSpent`) reads off the
four effects of a call that only a new entry moves `data_used`.

`FileClientProofs` (from these and `FileClientAssumption`): `RoomsKept` (`RoomsDisjoint`), `ReadsBack`
(`ReadBack`) and `IsAFileStore` (`FileStoreSpec`), for careful callers.  `RoomsDisjoint` alone is not
inductive, as it does not say what is in the rooms, and `ReadBack` is not, as the bytes a rewrite
would spoil are those of another entry: `FInv` says of every entry that its room holds what its
caller was promised (`Honest`) and of every two that their rooms are `Apart`.  The return paths of
the calls have four effects (`NotedCases`): nothing, `Adds`, `Overwrites`, `Drops`; each keeps
`FInv` (`AddsKeeps`, ...) and is a step of `FileStore` (`FilesAdded`, ...).  Besides `Careful` the
theorems assume `BootNamesDiffer`, that the calls made at boot each name another file: `fs_init` does
(fs.c:14-53), and one that wrote a file twice might not be careful.

`TextProofs` (from `PathsAssumption` and `LibcAssumption`) has the lemmas about text that the next two
need: the stack of `fs_normalize_path` as a recursive function of the number of pieces read (`StackDef`),
what is on it, when a slash or an empty piece is forgotten, that a normal path is kept
(`NormalizeKeeps`), parents, and positions in ascending order (`Rising`, `Ranked`); what one call of
`strtok` returns of any text and leaves for the next (`StrtokFacts`, `RestIs`); and the loop of
`vsprintf`, turn by turn (`PrintfDef`, `TurnOpens`, `TurnCopies`, `TurnConverts`, `PrintfWord`).

`ShellProofs` (from these, `ListingAssumption`, `ShellAssumption`, which has that `root`, `home` and `user` are names
and that a path may be two deep, and `BootAssumption`, that `fs_init` names paths that are absolute and normal but
for a slash at a directory's end, as fs.c:14-53 does):

* `IdentityKept` (`IdentityAgrees`): only `root`, `exit` and `su` touch the session (`SessionCases`),
  and each sets both variables.
* `SessionTyped`: `STypeOK`.
* `FilesListed` (`ListsItsFiles`): `fs_list_directory` finds the files of a directory by comparing text, so
  the theorem is about the spelling of what is stored.  `Places` says it: every stored path is normal but for
  a slash at its end, and only directories have one.
* `LinesNamed` (`LinesNameEntries`): the text of a directory is a fold over the table and its lines are
  what successive calls of `strtok` return of it, so that both are recursive functions.  What
  has been read after *k* entries of the table (`Read`) is a line for each of them that is below the
  directory, and what is left in the buffer begins where the text of those entries ends: one call of
  `strtok` takes off exactly the line of the next such entry (`TakesLine`), since a line is never
  empty, no name has a newline in it (`ListingAssumption`), and only the last line ends with the buffer.
  That a line leads back to its entry is from the spelling of
  what is stored (`Places`).

`CommandLineProofs` (from `PathLawsAssumption` and `CommandLineAssumption`):

* `PathsOneSpelling`, `PathsSplitAndJoin`: `OneSpelling`, `SplitsAndJoins`, from the lemmas on paths.
* `SurvivorsKept` (`KeepsSurvivors`): the stack holds the names that no later `..` takes back.  This is no
  invariant of the loop as it stands, since which name the next `..` takes is not seen from the
  stack.  `Tracks` adds the positions in the path that the names came from, and counts for each how many
  more names than `..`s come after it: as many as there are names above it, so that only the top one
  can be lost (`TracksName`, `TracksDots`, `TracksSame`).  `Open` limits it to the pieces before the stack is
  full; from there on nothing is read (`FullStays`).
* `WalkedTogether` (`WalksTogether`): two ways that lead to the same stack stay together whatever pieces
  follow (`WaysMeet`), so `cd` leads where the walk does from either spelling of `cwd`.
* `LastLinesKept` (`HistoryKept`): `RingInv` says that slot *j* mod *n* holds line *j* for the last
  *n* lines.  It needs that two lines less than *n* apart have different slots (`Apart`), which the
  provers are led to without remainders by a variable.
* `WordsFound` (`WordsExact`): from `StrtokFacts`; the words of the line are put in order beforehand
  (`Ordered`), and `Reached` says how far among them `strtok` has come after *n* calls, for the loop as a
  recursive function of *n* (`Taken`).
* The next three are about the answer to the last line, which `Answered` says `out` is.
* `Echoed` (`EchoExact`): a word under `%s` is printed up to the limit and not looked into (`PrintfWord`);
  the words and the blanks between them, two at a time, are the pieces that are printed (`FlatPairs`).
* `ReadBackExactly` (`NumbersReadBack`).  `atoi` wraps around on the way, but what it has read always
  differs from the sum that the digits mean by a multiple of 2^`IntBits` (`Alike`), and two ints that do
  are the same (`AtoiValue`); that includes the least int, whose digits are read as a positive number.
  The digits of a number come out lowest first, so its remainders are read backwards: `Horner` is the
  value that the digits have from the left, which is what is left of the number after the divisions
  that were not made yet (`DigitsSpell`), and which adds up to the places of the numeral (`SpelledValue`).  An
  int has at most `IntBits` digits in any base (`RunsOut`), so the loop ends.
* `CalculatesRight` (`CalcRight`) puts these together: the words are read as they were meant
  (`AtoiValue`), the result is exact if an int holds it (`CalculatedExact`; for the quotient that there is
  one number with the property that `Exact` asks for, `QuotDivides`), and the 14 characters of calc's
  format print the three numerals one after the other (`PrintfCalc`).  They fit in `printf`'s buffer as
  no number has more digits than the least (`FewerDigits`), whose length `CommandLineAssumption` bounds:
  3 * 11 + 7 characters of 1023 in the code.

`TerminalProofs` (from `ConsoleAssumption`, `KeyboardAssumption` and those of `Terminal`), the screen:

* `ScreenTyped` (`CTypeOK`): the whole record has its type; `PutChar` keeps it character by character,
  through `Scroll` and `NextLine`.
* `ConsolePrints` (`PrinterSpec`): the console implements `Teletype`.  The paper is the lines scrolled
  off followed by those on the screen (`PaperIs`); a scroll moves the boundary and pulls out a blank
  line (`Scrolled`, `Fed`), every other character writes one place of it or none (`PaperWritten`).

The ring:

* `RingTyped` (`KTypeOK`) and `RingIsAQueue` (`QueueSpec`).  The provers do no arithmetic with remainders
  by a variable, so `WaitingShape` first says without them which slots hold the characters that wait,
  for each order of the two indices; then a poll appends or drops one (`AcceptsOne`), and a read takes
  the first (`TakesOne`).

The two under `keyboard_get_line`:

* `TerminalQueue`: each step of the composition is a step of the keyboard or leaves it alone
  (`TerminalKeys`), so the ring still is a queue.
* `NoKeyIsDropped` (`NoKeyDropped`) needs `RingSize > 1`: a ring of one has room for no key.
* `LineFits` (`TTypeOK`) composes the types of screen and ring with that of the line; the prompt is a
  recursive function, and its type is by induction over its length (`PromptExists`, `PromptType`).
* `EchoKept` (`EchoFits`): that the row shows the line is not inductive, as a character typed says nothing
  of the cells after it.  `EchoInv` adds that nothing stands at the cursor or after it (`Clean`), which
  holds because the echo of a backspace leaves a blank at the cursor and a scroll brings in a blank line.
  The condition of `EchoFits` is about the longest that the line has been (`longest`, a history variable), so
  the invariant asks for room for one more character than that.

`NatInduction` proves the one induction principle the others use, for a set of numbers, since the
library's takes an operator for its argument.

Model-checked and not proved: `EnterEndsLine`, as liveness under fairness is out of the prover's
reach.  Every other property that a passing run checks is also a theorem: those of `Heap` under
`RequestsFit`, those of `FileClient` under `Careful`.

Out of reach is also induction over data other than numbers: where a theorem needs one, it goes by the
number of pieces, blocks, characters or divisions, and the operator is a recursive function of that
number (`Stack`, `Taken`, `PayloadBytes`, `Merged`, `Divided`, the turns of `Printf`, the prompt).  That such a function
exists is a lemma each time, in most from `Runs` of `NatInduction`.

## 5. Not modelled

* What clients write into their payloads; times and permissions of files.
* The wording, headings and colors of messages, and the commands that only print (`stat`, `mem`,
  `pwd`, `whoami`, `info`, `help`, `tree`, `date`, `uptime`, `banner`).
* Texts longer than the buffers they are copied to: paths, lines, and what `snprintf` would cut.
* Of libc, the functions without a state that other modules have as assignment, equality and
  membership (`strcpy`, `strcmp`, `strchr`, `memcpy`, ...), `snprintf`, the stub `fgets`, and `atof`,
  `rand`, `abs`, `exit`, which nothing in the kernel calls.  What `%d` prints for the least `int` is
  undetermined in the model, as `vsprintf` (stdio.c:117) negates it, which C leaves undefined.
* The frame sizes of handlers on the 16 KiB stack: they depend on the compiler.
* `system.c` (a counter and a busy wait), the assembler entry, the link map, the host-mode halves.

## 6. Plan

Done: the heap, file system, file client, paths, shell session, listing, command line, console,
keyboard and terminal as models; as theorems every safety property of all of them and the refinements
of `Allocator`, `FileStore`, `Teletype` and `KeyQueue`.

Left: that `data_used` never goes down, and that `rm` may remove the directory the user is in, are in the
models and promised or forbidden nowhere, so they have no property; nor has `cat`, which is not modelled.
