# PiTrezor in TLA+: the build that makes the image

This directory is a verification project for the repository that contains
PiTrezor: the shell scripts at its top (`bake.sh`, `easy-bake.sh`,
`scripts/verify-base.sh`), the Buildroot external tree `br-ext/` with the
board scripts and the init scripts of the image, and the copy of Buildroot in
`buildroot/`, whose configuration, download, package and image infrastructure
does the work. The specifications are TLA+ modules, checked by TLC on small
instances and, where a property matters for every size, proved with TLAPS.

Contents: [the system](#the-system-part-by-part) ·
[modules](#the-modules) · [runs](#the-runs) · [bounds](#bounds) ·
[fairness and assumptions](#fairness-and-assumptions) ·
[proofs](#what-is-proved) · [disagreements](#where-code-and-documents-disagree) ·
[seen while modelling](#seen-while-modelling) ·
[not modelled](#what-is-not-modelled) · [plan](#plan)

## The system, part by part

How the parts interact: `bake.sh` runs Buildroot's `make` on a defconfig of
`br-ext/`; the Kconfig programs (`conf`, `mconf`, `nconf`) turn that defconfig
and what the user changes into `.config`, `auto.conf` and the headers that say
what changed; make takes every package through its steps, of which the first
calls `dl-wrapper`, which calls a backend such as `git`, and in which every call
of the cross compiler goes through the toolchain wrapper; when all packages are
installed the target directory becomes file system images (`fs/`), for which
`makedevs` sets owners and modes and makes device nodes, and `post-image.sh`
makes `sdcard.img` of them. `bake.sh` keeps that file as the base image,
`easy-bake.sh` customises copies of it, and a device boots the result with the
init scripts of `br-ext/overlay`. The steps share no memory: they talk through
files (configurations, downloads, locks, stamps, trees, images) that survive the
processes that write them. So almost every hard question is about a process that
stops half-way, about two of them at the same file, or, inside a Kconfig
program, about flags and cached values that many functions set and clear.

### Shared download directory (`buildroot/support/download`, `package/pkg-download.mk`)

*State*: `BR2_DL_DIR/<pkg>/<file>` (the published download), the lock file
`.lock` beside it, the file of the same name in the legacy location
`BR2_DL_DIR/<file>`, per build a temporary directory in `BUILD_DIR`, a
temporary file next to the output, and the stamp `.stamp_downloaded`.
*Operations*: `DOWNLOAD` (flock, then `dl-wrapper`), legacy link or copy,
check of an existing file (`check-hash`), the loop over the URIs, publishing by
rename, and the extract step, which reads the file without the lock.
*Hard*: several builds at once, kills at any point, partial failures under
`set -e`, the check of a file long before its use.
*Correct when*: a file appears whole and at once, is removed only by a build
for which it is wrong, and stays as it was for as long as a build that was told
it is good may use it; nothing is left behind by a run that fails.

### Git backend (`buildroot/support/download/git`)

*State*: the clone `$(PKG)_DL_DIR/git` that all downloads of a package share:
its commits, tags, branches, HEAD, working copy, and whether it is damaged; the
environment variable that says that the script has started afresh already.
*Operations*: `git init`, three fetches, `rev-parse`, checkout, clean,
submodules, expansion of `$Format:…$` hints, archive; `_on_error` removes the
clone and runs the script again.
*Hard*: everything a killed run leaves behind; one name looked up by three git
commands with three different rules; upstream moving tags meanwhile.
*Correct when*: the archive is the whole commit that the version names and
nothing else, and a damaged clone does not stop a package for good (the code has
[one exception](#where-code-and-documents-disagree)).

### Package build steps (`package/pkg-generic.mk`, `support/scripts/apply-patches.sh`)

*State*: the stamps `.stamp_<step>` and their times, the sources in `$(@D)`,
`.applied_patches_list`, what was compiled, what STAGING_DIR and TARGET_DIR
hold, `.files-list.before` and `.files-list.txt`.
*Operations*: one recipe per step, and `<pkg>-reinstall`, `-rebuild`,
`-reconfigure`, `-dirclean`.
*Hard*: make knows nothing but which stamps exist and which is older; it stops
anywhere, and what the next run finds is half of a step.
*Correct when*: whenever make says there is nothing to do, what is installed is
what the sources and patches make, and what a user asked to rebuild was rebuilt.

### Image scripts (`bake.sh`, `post-image.sh`, `easy-bake.sh`, `verify-base.sh`)

*State*: the output directory of a deconfig with its `sdcard.img`, the base
image, the final image, the lines of `config.txt` in each; the environment.
*Operations*: `bake.sh` removes the output, configures, makes, and saves the
base image if it was given neither overlays nor rotation; `easy-bake.sh` copies
the base image and edits its `config.txt`.
*Hard*: one script copies what the other writes; copies are not atomic; two
ways to the same `config.txt`.
*Correct when*: the base image is never a customised one, and both ways give
the same `config.txt`.

### Kconfig: expressions (`support/kconfig/expr.c`)

*State*: none of its own: trees of symbols, comparisons, `!`, `&&`, `||` that
are rewritten in place.
*Operations*: building, simplification (`expr_eliminate_yn`, `expr_transform`,
`expr_trans_bool`, `expr_trans_compare`), removal of duplicates
(`expr_eliminate_dups` with `expr_join_or` and `expr_join_and`), comparison of
two trees (`expr_eliminate_eq`, `expr_eq`), values, printing.
*Hard*: two logics in one code (bool and tristate); a join that is right for one
of them; each pass feeding the next.
*Correct when*: no rewriting changes what a dependency means, and what is
printed reads back as the same.

### Kconfig: symbols, menus, files (`symbol.c`, `menu.c`, `confdata.c`)

*State*: the menu tree with its properties; for each symbol its value, its
visibility, what selects and implies it, the flags `VALID`, `WRITE`,
`DEF_USER`, …; the global change counter; `.config`, the minimal defconfig,
`auto.conf` and one header per symbol.
*Operations*: the parser's calls and `menu_finalize`; `sym_calc_value`,
`sym_set_tristate_value`, `sym_set_string_value`, the choices;
`conf_read`, `conf_write`, `conf_write_defconfig`, `conf_write_autoconf`,
`conf_set_all_new_symbols`; the search for dependency loops.
*Hard*: values are cached, calculated recursively and in the order of a hash
table; queries set flags; menus are moved while they are walked over; a file
that was written is read by a later process against other Kconfig files.
*Correct when*: a cached value is the one a new calculation gives; conditions
and selects mean what the files say; files that are written read back; what has
changed, and only that, has its header touched before `auto.conf` takes it over;
and quitting without a question loses nothing.

### Kconfig: conf (`conf.c`)

*State*: the input that is left, the walk over the menus (a recursion through
`conf`, `check_conf`, `conf_choice`), `rootEntry`, `conf_cnt`.
*Operations*: the questions of `oldconfig`, `oldaskconfig`, `syncconfig` and
the list of `listnewconfig`; the modes that ask nothing.
*Hard*: each answer changes what is visible before and behind it; the input may
end at any time.
*Correct when*: it ends, asks for everything that is new and for nothing twice,
keeps the answers, and stops a build instead of asking when it is told to.

### Kconfig: the full-screen front ends (`mconf.c` with `lxdialog/`, `nconf.c` with `nconf.gui.c`)

*State*: the stack of functions, each with its dialog; per dialog the items, the
highlight, the scroll, the cursor; what is to be saved; the terminal.
*Operations*: every key of every dialog, resizes, searches and jumps, loading,
saving, leaving, SIGINT.
*Hard*: counters that each key adjusts by itself; a dialog that comes back over
a list that has changed meanwhile; dialogs that fail on a small terminal; ways
out that ask, that save and that do neither.
*Correct when*: the highlight and the window stay in the list and reach all of
it, each row shows the item that it is taken for, one comes back to where one was,
and nothing unsaved is taken for saved.

### Toolchain wrapper (`toolchain/toolchain-wrapper.c`)

*State*: the arguments that were given and those that the compiler will get.
*Operations*: one pass that refuses paths of the build machine, one `if` per
option of the target (position independence, relro, floats, dates), ccache.
*Hard*: an option may have its path in the same argument or the next one;
options that exclude each other may stand anywhere.
*Correct when*: the compiler never looks into the build machine, the user's
options win, and the wrapper's own fit to them and to each other.

### makedevs (`package/makedevs/makedevs.c`)

*State*: the tree of the root file system, the line of the table, the last file
that a line named, the exit status so far.
*Operations*: lines for files, directories, recursive directories, device nodes,
capabilities; `nftw` over a directory for a recursive one.
*Hard*: later lines apply to what earlier ones made or named; links; a line that
fails half-way.
*Correct when*: a table that is said to have worked has the tree it asks for,
and nothing outside was touched.

### Smaller parts

| Part | State and operations | Hard | Correct when |
| --- | --- | --- | --- |
| Boot of the device (`br-ext/overlay/etc`) | `fstab`, `rcS`, `S05calibrate`, `S20firewall`, `S99trezor` | each ignores the failures of what it calls | the wallet uses the calibration that was made |
| Branch workflow (`.github/workflows`) | `audit/fixes`, `dev`, `main`; two jobs on clones of their own | a clone is stale when it pushes | `main` has what went through `dev` |
| PiTrezor packages (`br-ext/package`) | declarations for the steps above | `trezor-core` has a branch as version | a rebuild takes the sources that it names |
| Parallel build (`pkg-utils.mk`, per-package directories) | one sysroot per package, put together from those of its dependencies | packages built at the same time, files that two of them write | a package sees exactly its dependencies |
| File system images (`fs/common.mk`, `support/scripts/mkusers`) | a copy of the target directory, the tables of users and devices | uids and gids handed out next to fixed ones, until the range is full | no id or name is given twice |
| Other backends (`curl`, `wget`, `svn`, `scp`, …) | one command each | their exit code | a wrong file is not reported as good (the wrapper checks) |
| Post-processing (`cargo-post-process`, `go-post-process`) | unpack, vendor, repack | reproducible archive | as above |
| Kconfig parser (`zconf.l`, `zconf.y`) | grammar, lexer | — | the calls of `menu.c` that `KBuild` makes |
| Graphical configurators (`qconf.cc`, `gconf.c`) | widgets of Qt and GTK | signals between widgets | as for the other front ends |
| br2-external (`support/scripts/br2-external`) | list of trees, generated files | validation | names and paths are unique |
| Graphs and statistics (`support/scripts/graph-*`, `size-stats`) | what make prints | removal of transitive dependencies | reachability is kept |

## The modules

| Module | Models | State ↔ code |
| --- | --- | --- |
| `CheckHash` | `check-hash` as an operator from the lines of the `.hash` files and a file to the exit code | a line is a record: is its type known, which contents have that hash |
| `DlWrapper` | `DOWNLOAD`, `dl-wrapper`, the download and extract recipes, for any number of builds | `pc[p]` is the place of one build in the script, `output` the published file, `tmpd`, `tmpf`, `tmpOutput` the temporaries, `litter` those nobody will remove |
| `AtomicStore` | what the download directory promises: a file that is there at once or not at all, and stays for those who are sure of it | abstract |
| `GitCache` | `support/download/git` with its clone; git itself is external, its commands have what they do to refs, HEAD and working copy | `tag` and `branch` are the tag and the branch that bear the version's name, `copy` the working copy, `archive` what came out; `kind` says what a version is; `locked` is the lock file of the branch of that name, `corrupt` any other damage |
| `PkgSteps` | the stamps and recipes of one package, `-reinstall` and its relatives, `apply-patches.sh` | `stamps` and `newer` are what make sees; `tree`, `built`, `staging`, `target` what is really there |
| `Bake` | `bake.sh`, `post-image.sh`, `easy-bake.sh` running at the same time | `out`, `base`, `final` are the images |
| `KTerms` | `expr.c` as far as one operand or two go: comparisons, and the rules of rewriting | an expression is a record; the C code rewrites in place, the operators return the new one |
| `KExpr` | `expr.c` on whole trees, which it takes apart into the operands of `KTerms` | as in `KTerms`; recursive |
| `ExprRewrite` | the rewritings of `KExpr` in any order, on one expression or two | `e1`, `e2` |
| `KMenu` | `menu.c`: the calls of the parser, `menu_finalize` | the tree is a record `K` of pointers, node 1 is `rootmenu`, 0 the null pointer |
| `KSymbol` | `symbol.c`: calculation, setting, choices, loops | `K` is the tree, `D` the memory that changes: `curr`, `def`, `visible`, `flags`, `rev`, `imp` |
| `KConfdata` | `confdata.c`, and what front ends ask of the tree | a file is a sequence of lines `[sym, v, quoted]` |
| `KBuild` | `conf_parse` on every Kconfig file that can be put together from some entries and blocks | `open` the blocks that are open, `meant` the conditions the file gives |
| `KSession` | processes one after the other that read, change and write one `.config`: a front end, or a mode of `conf` that asks nothing | `D` is the memory of the running one; `dotconfig`, `defconfig`, `auto` the files; `headers` those that are newer than `auto.conf`, `generated` what a running syncconfig has still to rename; `refused`: changes stopped counting because a load was refused |
| `ConfAsk` | `conf` in the modes that ask | `todo` is what the functions on the C stack have still to do |
| `LxDialog` | what the dialogs of `lxdialog/` share, and the terminal | `list`, `choice`, `scroll`, `button` as in the code |
| `MenuBox`, `CheckList`, `InputBox`, `TextBox`, `Dialogs` | one dialog each, key by key; `Dialogs` has the question of yesno.c and shows all of them in turn | counters by their names; a text is a number of lines; `drawn` in `MenuBox` is the item that each row shows |
| `Menus` | what both full-screen front ends list, over an abstract configuration | `value`, `changed`, `inFile` (the file has what is configured), `refused` (as in `KSession`) |
| `Mconf` | `mconf.c`, a dialog in one step | `stack` of frames `[fn, menu, active]` |
| `Nconf`, `NconfGui` | `nconf.c`, its windows in one step; `nconf.gui.c` key by key | `windows`, `items`, `cur`; `pad`, `chars`, … |
| `ToolchainWrapper` | `toolchain-wrapper.c`, one action per block of `main` | `args` as it grows, `room` what the memory is for, `exec_args` |
| `MakeDevs` | `makedevs.c`, a line at a time, a recursive one entry by entry | `fs` the tree, `walk` what nftw has still to visit |
| `Frontends` | the two front ends, the dialogs and the windows of `nconf.gui.c`, one of which runs in a behaviour | |
| `*Proofs` | the theorems about the module of that name (`ToolsProofs`: about `ToolchainWrapper` and `MakeDevs`); `Induction` the induction on naturals that they use | |
| `MC*` | instances for TLC; `MCKPrograms` the Kconfig files of `MCKSession` and `MCConfAsk`; `MCTools` takes two programs, one of which runs in a behaviour | |

Every handler is one action per step at which the process can be stopped or
another one can run. In `DlWrapper` each command of the script that touches a
shared file is a step; in `PkgSteps` each recipe has a Begin (from there on it
may have left half of its work behind) and a Finish (the rest, and the touch of
its stamp); in `GitCache` each git command is a step, the checkout two; in
`Bake` each command that writes an image is one, each copy two. The Kconfig
programs are alone with their files and cannot be seen half-way, except while
they write (a save whose rename fails, a syncconfig that is stopped between the
headers and `auto.conf`): there, an operation of the user, a question of `conf` or a key is
one step, and whatever the code calls for it is an operator.

How they fit together. `DlWrapper` extends `CheckHash` and is shown to implement
`AtomicStore` (`StoreSpec`, with `store` the published file unless it is
half-copied, and `sure` the builds whose download step succeeded). `GitCache` is
what happens inside the step `Backend` of `DlWrapper`, under its lock;
`DlWrapper` has in turn what happens inside `BeginDownload` of `PkgSteps`. These
are not composed into one: each is checked against everything its caller may do
(start it again, stop it, start it for another version), which is more than the
composition would do. The Kconfig modules are: `KConfdata` extends `KSymbol`,
that `KMenu`, that `KExpr`, that `KTerms`, and `KBuild`, `KSession` and `ConfAsk` run
all five.
`Mconf` and `Nconf` have a configuration of their own, abstract, as what they do
wrong or right is about dialogs and menus; that setting, loading and saving do
what is assumed there is what `KSession` checks. `Mconf` in turn takes a dialog
for one step with any of its answers, and `Dialogs` has the dialogs themselves.

A definition whose comment begins with *Mutant* is a plausible mistake in the
definition below it. None of them is used; replacing the definition by it makes
a named property fail, which shows that the property depends on that code.

### What the abstractions leave out

* `PkgSteps`: host packages, the images step, hooks, the actual-source download,
  everything computed at parse time.
* `GitCache`: errors inside the script's subshells, for which `set -E` runs
  `_on_error` in the subshell.
* `Bake`: the choice of device tree and firmware, the build mode, rotation from
  the environment.
* Kconfig: warnings, texts, positions; the marks that tell a window what to draw
  again; allocation. Texts are values with a given order, numbers are what a
  given table says (`StrRanks`, `Nums`), with the width of the machine.
* `Mconf`: titles and subtitles; the count that tells whether a menu has entries
  (`RootAssumption`: the main menu always has one); lists of a choice that are
  empty; the stack is at most `Depth` frames.
* `InputBox`, `TextBox`, `NconfGui`: of a text only its length, in characters or
  lines; a text ends in a newline.
* `Nconf`: scrolling of the curses menu, drawing.
* `ToolchainWrapper`: the search for its own directory, debug output, failing
  `malloc` and `exec`; an option where another's path should be (`Plausible`);
  `-fno-pic` and `-fno-PIC`, which the code does not look for.
* `MakeDevs`: links lead to something that is no link, or nowhere; makedevs runs
  under fakeroot, where `chown` leaves modes and capabilities as they are.

## The runs

| Run | Shows |
| --- | --- |
| `dl_same` | Two builds with the same hashes, kills and failing temporaries, a legacy file that may be linked, copied or half copied: what a build was told is good is there, whole and the same, when it unpacks it (`VerifiedDone`, `BuiltFromGood`); `DlWrapper` implements `AtomicStore` (`StoreSpec`); the inductive invariant of the proofs, with the type invariant (`IInv`). |
| `dl_other` | Three builds that disagree: one has the hashes of one release, one those of another and a type that is unknown, one a `.hash` file that does not name the archive. The file is only removed by a build for which it is wrong (`OnlyWrongRemoved`), no temporary stays (`NoLitter`), nobody waits for ever (`Termination`). |
| `pkg` | A package from an archive with two patches, edited once, make or a dirclean stopping anywhere and leaving any entries of the build directory; and one with `OVERRIDE_SRCDIR` edited twice, whose binaries the architecture check refuses. When make is satisfied, what is installed comes from whole sources (`Delivered`) with every patch, and a rebuild that was asked for happens (`BuildRight`); make gets there, or jams at an interrupted patch (`Recovers`). |
| `git` | Versions that are sha1s, annotated or lightweight tags, branches, or the name of git's default branch, sharing one clone over kills, damage and failing commands. Every archive is a whole commit and nothing else, and the one that was asked for if it is a sha1 or annotated tag (`ArchiveRight`); the script says that a commit is missing, and throws a clone away, only after a fault or, for the first, where the version is the default branch (`Inv`); once the faults stop the archive is made, unless a kill has left the lock file of the branch that the version names (`Heals`). |
| `bake` | `bake.sh` and `easy-bake.sh` at the same time: the base image is never a customised one (`Inv`), the two ways to a customised image agree (`FinalAsAsked`), an interrupted copy of the base image is replaced by the next clean bake (`BaseRecovers`). |
| `kexpr` | Every expression of a bounded size, simplified in any order. Its meaning is kept, also of what two expressions differ in, and of a dependency turned into a comparison (`MeaningKept`); what is printed is read back as the same, by the precedences of the grammar (`PrintedReadsBack`); equality, dependence on a symbol and the list of selecting symbols are right (`AnswersSound`). |
| `kbuild` | Every Kconfig file of up to two blocks and three entries, parsed and finalized. No entry is lost, moved out of order or under one that is not shown (`TreeRight`); each property has the condition that the file gives it, and a symbol is selected when the file says so (`FilesMeant`); a dependency loop is found from wherever the search begins, and without one values do not depend on the order of calculation, whatever the user set (`NoHiddenLoop`). |
| `ksession` | Two processes, one after the other, on five Kconfig trees and on files that users edited by hand, with the Kconfig files updated in between; or up to three runs of syncconfig, any number of others that are stopped, and other `.config` files between them. A value that is marked valid is the one a calculation from nothing gives, in any order, and looking at menus changes none (`ValuesRight`); of a choice exactly one value is y (`ChoiceExclusive`); quitting without a question loses nothing, unless a rename failed or a load was refused before (`QuitLosesNothing`); `.config` and the minimal defconfig give back what they were made from (`RoundTrips`); what is set, for one symbol or by allyesconfig and allnoconfig, is so (`ValuesAsSet`); when a new `auto.conf` is put in place, each symbol whose line it changes has a header that is newer than the old one, wherever runs before were stopped and whatever `.config` was between, and no run touches more than has changed (`SyncTouches`). |
| `confask` | `conf` in the modes that ask. When it has ended nothing is new and the answers hold (`AllAnswered`); run again it asks nothing, and with `KCONFIG_NOSILENTUPDATE` nothing is ever asked (`AsksNoMore`); it ends, but for the two questions that have no answer (`Ends`). |
| `menuconfig` | `mconf` and `nconf`, their functions and, by itself, each of their dialogs. Neither ends as if all was saved when something is not, unless a load was refused after the last change (`QuitsSaved`); every highlight, window and cursor stays in what it is over, and each row of a menu shows the item that Enter picks there, unless a resize has left `first_item` behind (`CursorsRight`), and the keys reach all of it (`KeysRight`); one comes back to the entry one left, and jumps arrive (`PlaceKept`); nconfig's search finds a line if there is one, and fails only where the code does (`SearchRight`); a terminal that is too small does not keep the program busy, but for the three functions that have no case for it (`Responds`). |
| `tools` | The toolchain wrapper on every call with up to three of fifteen arguments, for two ways to compile it: refused exactly when a path of the build machine is used or the date is none, and else executed with the user's arguments last, within the memory for them (`CallRight`), and with options of its own that fit to them (`FlagsAgree`). makedevs on every table of up to three of twenty-two lines: the last line for a file wins, nodes and capabilities are those of the usage text, a recursive line stays in its directory (`TableApplied`). |
| `makedevs_links` | *violation* of `DanglingSkipped`, see below. |

A property is often a conjunction of named parts, each with its own comment in
the module, for questions that one state space answers.

What `Recovers` says deserves a remark: make does *not* always recover. When it
is stopped between the line of a patch in `.applied_patches_list` and its stamp,
each later run fails at that patch ("duplicate") until the user removes the
build directory. The property says that this is the only such place. `Ends`,
`Responds`, `SearchRight` and `Heals` are of the same kind: they say where the code
does not go on, and that it does everywhere else. So do `QuitLosesNothing`,
`QuitsSaved`, `CursorsRight` and `SyncTouches` for the cases named above, each of
which is [listed](#where-code-and-documents-disagree) [below](#seen-while-modelling).

## Bounds

* `dl_same`: 2 builds, 2 contents, 2 URIs, each build started twice. Every race
  in the script is between two processes at one file; two starts give the run
  after a failure. The proofs have no bounds.
* `dl_other`: 3 builds, because three `.hash` files can disagree in three ways;
  two starts, so that who lost can come back.
* `pkg`: 2 patches (a first on the list and a second that is not), 1 or 2 edits,
  1 stop, which leaves a half-done step; a stopped dirclean may leave any subset
  of the stamps, which covers what several stops would leave.
* `git`: 3 commits (the version before, the one asked for, the one upstream
  moves to), 3 faults (one to damage the clone or leave a lock in it, one to make
  the second attempt fail, one later).
* `bake`: three lists (none, one with an empty element, one with a repeated
  overlay and one that `config.txt` has already), two rotations, two faults.
* `kexpr`: a tristate, a bool and a hex symbol with every value, and all
  constants that `expr.c` treats by themselves; all pairs of 17 operands and
  their negations, three operands out of 5, four out of 3. The joins look at
  pairs; a third and a fourth operand make a pass feed the next one. Rewriting
  has a fixed point, so the number of steps is not bounded, except for turning
  an expression into a comparison (`MaxCompares`), which makes it longer.
* `kbuild`: three entries, the second a tristate, each with one of four bodies
  (with a self-reference, a disjunction, a select, a conditional default), in
  `if`, `menu` and `choice` blocks, two of them, nested or in a row.
* `ksession`, `confask`: five trees of three to seven symbols, each about one
  mechanism (modules and select; a choice of bools in a menu; a choice of
  tristates; numbers with ranges and changing defaults; visibility and
  automatic submenus; for `confask` instead an answer that shows an earlier
  entry, a number without a default, and a choice that may be empty). 2
  processes, so that each reads what another one wrote; 2 edits, as a value
  that is set may be made stale by another one; 6 lines of input, more than any
  of the trees has questions for the first time round. `syncconfig` starts after one
  run of `olddefconfig`, and from then on only it, a user with another `.config`
  (`Bring`, any of the files of the tree) and updates of the tree run: what a program
  wrote into `.config` matters to it no more than that. It replaces `auto.conf` 3
  times at most (`MaxSyncs`): once when there is none, once over an old one, and once
  over one that a line has gone from. Runs that are stopped are not counted.
* `menuconfig`: ten entries, of which one is below a member of a choice, frames 3
  deep (a menu, a dialog above it, one above that); sizes are scaled: windows of 2 to
  4 rows over up to 9 lines or 5 items, menus of 2 and 7 rows over lists of no, one and
  8 items (the list must not fit into either window for a resize to go astray),
  fields of 3 characters for texts of up to 6, the least sizes of terminals as
  they are, four terminals around them.
* `tools`: 3 arguments, as an option, its path and one more are what the blocks
  of the wrapper relate; `DEFAULT_MAX_ARGS` is scaled from 1024 to 19, so that
  some calls need more memory and some just fit. 3 lines, for one that makes a
  file, one that changes it and one that walks over it.

## Fairness and assumptions

* `DlWrapper`: weak fairness of each build's steps (a process that can run
  does). `Start` and `Kill` have none. It is enough for `Termination` since each
  build is started finitely often, so nobody can hold the lock for ever.
* `PkgSteps`: weak fairness of `Progress` (make goes on until it ends), strong
  fairness of `Make(Len(Chain))`: the user runs plain make again and again, and
  `Recovers` is a promise to such a user only.
* `GitCache`: weak fairness of `Progress` and of `Start`, the build that is run
  again.
* `Bake`: weak fairness of each script, strong fairness of a bake without
  arguments: a base image is baked now and then.
* `ConfAsk`: a single program that reads what there is, so it takes steps until
  it has ended (`Runs`, which is weak fairness of `Next`; `beat` makes going
  round in place a step). Its input is finite, and then empty.
* `Mconf`: weak fairness of `DisplayTooSmall` only: a dialog that does not fit
  returns at once, while users press keys when they like.
* The rest has safety properties only, and no fairness.
* Assumed: flock works on the file system of `BR2_DL_DIR`; a rename is atomic;
  one build tree runs one make at a time; one `bake.sh` and one `easy-bake.sh`
  per deconfig; make runs one recipe of a tree at a time (`.NOTPARALLEL`); a
  damaged clone makes some git command fail that goes through `_on_error`, at the latest
  the checkout, unless the damage is a lock file of the branch named like the version; one
  Kconfig program at a time works on a `.config`. Hashes have no collisions
  except where an instance gives two files one weak hash.

## What is proved

Seven parts have their safety properties proved for every value of the constants,
each from an inductive invariant `IInv` of its own (`TWInv` and `MDInv` in
`ToolsProofs`). The theorems in the table are those whose properties say
something about the code; `Invariance`, which each module has, is
`Spec => []IInv` (`CallInvariance` and `TableInvariance` in `ToolsProofs`), and
`MenusInvariance` of `FrontendsProofs` is the same for its stronger invariant
`MenusInv`. Of the expressions of Kconfig the rules are proved by which operands
are rewritten; those theorems are about operators and not about a specification.

| Module | Theorem | Statement |
| --- | --- | --- |
| `DlWrapperProofs` | `TypeCorrect` | `Spec => []TypeOK` |
| | `DownloadStaysGood` | `Spec => []VerifiedDone` |
| | `BuiltHasAllHashes` | `Spec => []BuiltFromGood` |
| | `RenameReplacesNothing` | `Spec => []NothingToReplace` |
| | `NothingLeftBehind` | `Spec => []NoLitter` |
| | `OnlyWrongGoes` | `Spec => OnlyWrongRemoved` |
| | `ImplementsStore` | `Agree` and `Protected` imply `Spec => StoreSpec` |
| | `HashOKMeansAllMatch` | exit code 0 of `check-hash`: every line that names the file has a known type and its hash |
| `PkgStepsProofs` | `TypeCorrect` | `Spec => []TypeOK` |
| | `BuildsAreRight` | `Spec => []BuildRight` |
| | `AllIsDelivered` | `Spec => []Delivered` |
| `GitCacheProofs` | `InvHolds` | `Spec => []Inv` |
| | `ArchivesRight` | `Spec => ArchiveRight` |
| `BakeProofs` | `InvHolds` | `CleanEnvironment` implies `Spec => []Inv` |
| | `FinalIsAsAsked` | `CleanEnvironment` implies `Spec => []FinalAsAsked` |
| `FrontendsProofs` | `QuitsAreSaved` | `FrontSpec => []QuitsSaved` |
| | `CursorsStay` | `FrontSpec => []CursorsRight` |
| | `KeysAreRight` | `FrontSpec => KeysRight` |
| | `PlaceIsKept` | `FrontSpec => PlaceKept` |
| | `SearchIsRight` | `FrontSpec => []SearchRight` |
| `ToolsProofs` | `CallsAreRight` | `TWSpec => []CallRight` |
| | `FlagsDoAgree` | `TWSpec => []FlagsAgree` |
| | `TableIsApplied` | `MDSpec => TableApplied` |
| `KTermsProofs` | `JoinOrRight` | what `expr_join_or` makes of two operands is worth their `\|\|` |
| | `JoinAndRight` | what `expr_join_and` makes of two operands is worth their `&&`, if `ConstantsDiffer` |
| | `NegatedRight` | `expr_transform` of `!` before a symbol or a comparison is worth the negation |
| | `BoolCompareRight` | what `expr_transform` puts for a bool compared with y, m or n is worth the same |
| | `TransBoolRight` | `expr_trans_bool` of a symbol or a comparison is n exactly when that is |
| | `TransCompareRight` | `expr_trans_compare` of a bool, a tristate or a comparison is worth the comparison of its value |
| | `DependsRight` | a term of which `expr_depends_symbol` says so is n whenever the symbol is |
| | `EliminateYnRight` | `expr_eliminate_yn` at one connective keeps what it is worth |

### From which assumptions

From the named `ASSUME`s of the modules, which TLC evaluates on the instances;
they say of which kind a constant is, and where they say more, the code has it:
`RoomForOwn` is the comment at `DEFAULT_MAX_ARGS` ("must be > predef_args"),
`PadsAssumption` that a window shows no more than the text and that a text which
does not fit has more than two rows, `BoxWidthAssumption` and
`ListHeightAssumption` that a dialog that is shown has a row and a column,
`RootAssumption` that some entry of the main menu is always visible,
`EntriesAssumption`, `TreeAssumption` and `NestedAssumption` what the parser and
`menu_finalize()` make of Kconfig files (an entry is of one of the kinds that
`build_conf` tells apart; only the entries with a symbol in a choice are its
values, `menu.c:502`; the entries are a tree; an entry depends on what those
around it depend on), `DepthAssumption` that there is room for a first frame,
`TextAssumption` that the line of an entry is a text,
`TreesAssumption` that the root file system is finite and what is in it is in a
directory, `TablesAssumption` that a line names something below the root, and
`UsersAssumption` that there is a user root. `StringsAssumption` is that `strcmp()`
tells strings apart, `NumsAssumption` that y, m and n are no numbers. Some
hypotheses are stronger, and stand in the theorems that need them:

* `Agree` (all builds have the same hashes) and `Protected` (a half-copied file
  fails its check), which speak of constants only: inside `VerifiedDone` and
  `BuiltFromGood`, and before `ImplementsStore`. Without them the properties are
  false, and the code does what [is listed below](#where-code-and-documents-disagree).
* `CleanEnvironment` in `BakeProofs`: `PITREZOR_DTO` is not exported by the shell
  in which `bake.sh` is started. Without it the base image can be a customised one.
* `ValuesFit` in `KTermsProofs`: the values of symbols are as `sym_calc_value`
  leaves them (a bool is y or n, a tristate y, m or n, with the string that says
  so), and no operand is a choice. `ConstantsDiffer` in `JoinAndRight`: one text is
  one constant, and no constant is written as one of the numbers 0 to 2 that
  tristates are compared as; without it the join is wrong
  ([see below](#seen-while-modelling)). TLC evaluates both on the values of the run
  `kexpr` (`ValuationsAssumption`).

### Along which argument

* **`DlWrapper`.** `VerifiedDone` alone is not inductive. A step of `Rename` keeps
  it only if there was no file to replace (`NothingToReplace`) and the temporary
  is good (`ToPublish`); the first needs that whoever is past the test holds the
  lock (`LockHeld`), the second that rc is 0 only for a file that was checked; a
  step of `Remove` keeps it only if the file is wrong (`WrongFile`) and the others
  agree; a half-copied file can be there only while it is copied or where `ln` can
  fail (`HalfCopied`). The proof has one step per action, and rests on two
  lemmas: `HolderKeeps`, for a step of the holder of the lock within the script,
  and `ExitKeeps`, for one that ends the script. `OnlyWrongGoes` and
  `ImplementsStore` then follow from `IInv` for each step.
* **`PkgSteps`.** make knows which stamps are there and which of two is newer.
  The invariant says what such knowledge is worth: if a stamp is there and is not
  older than those it depends on, then the tree behind it is whole, patched, and
  made from what is before it (`TreePatched`, `TreeSynced`, `BuiltRight`,
  `InstalledRight`). Each part takes no more from the stamps than make itself
  looks at, so that it survives the loss of any of them in an interrupted
  dirclean; while make walks along the chain, the steps behind it are up to date
  (`Walked`), from which `Delivered` follows at the end of the chain.
  `WantedComes` is the part for a rebuild: what was asked for is in what was
  compiled, or a step that brings it there has still to run. The times of the
  sources go with their versions (`Clock`), as rsync looks at times only.
* **`GitCache`.** The places in the script, from the last backwards, say how much
  of the work is done (`Fetched`, `Tagged`, `LookedUp`, …, `Substed`), and each
  part of the invariant is what one command leaves for those after it, whatever a
  killed run left in the clone: `CopyRight` is about the working copy,
  `FoundRight` about what the name was looked up as, `BranchKnown` and
  `FaultsKnown` about why a command may fail.
* **`Bake`.** While `easy-bake.sh` adds overlays one after the other, `config.txt`
  has those of the board and the first `at - 1` of the list, each once
  (`FinalOnTheWay`); `post-image.sh` appends all of them at once. That the loops
  of the two compute the same set, for a list of any length, with empty elements
  and with repeated ones, is proved by induction on the number of elements that
  were looked at.
* **`Frontends`.** Every widget has an invariant over its counters (`MenuInv`,
  `OnMember`, `CursorInField`, `TextInv`, `GuiInv`) that each key keeps.
  `CursorsRight` is a consequence of it, and `KeysRight`, which is about steps,
  follows for each of them. `MenuInv` also says what the rows of a menu show
  (`Drawn`, `OnItem`): what is drawn at once is drawn from `first_item`, and a key
  that scrolls moves the rows and prints those that have come into the window, so
  rows that were right stay so (`RowsKept`). For the stack of `mconf` it is enough
  that the highlight of each frame of `conf` is on the menu of the frame above
  (`StackRight`); for quitting, that what is not in the file counts as changed
  unless a load was refused (`Honest`), which all ways to change, load, fail to
  load or save a value keep (`ConfStep`). Where a jump leads and what a search
  finds depend on what is listed, and what is listed on the values, so `PlaceKept`
  and `SearchRight` need more (`MenusInv`): every symbol has a value of its type,
  and every choice one of its members (`Valued`); each frame of `mconf` and each
  window of `nconf` is over an entry of the kind that its function is for
  (`StackOK`, `WindowsOK`), the list of a choice has members of it alone, and a
  window that has another one over it searches for nothing; while a pattern is
  typed, the highlight is on a line that contains it if any line does, and that is
  so for each shorter pattern, as backspace leads back to it without moving the
  highlight (`SearchOK`). Around it are lemmas about three loops. `build_conf` is
  a recursion over the menus: since they are a tree, an entry without a list would
  have a child without one, and so on for ever (`BuildExists`), and an entry that
  is visible is in the list of the menu around it; of a choice it has the chosen
  member again if something is below it, and that alone (`PartsTyped`,
  `PartsSame`; `BuildIs`, `FlattenHas`, `ItemsAre`). `get_prompt_str` walks
  outwards and stops at the main menu (`UpExists`, `AroundIs`): what it jumps to
  is visible and not the main menu (`TargetsAre`), so the menu around it, which
  depends on less, is visible too and lists it (`TargetsListed`). `get_mext_match`
  goes round the list in either direction (`GoesRound`): it looks at every line
  once, so it stops at one that contains the pattern if there is any
  (`MatchFound`).
* **`ToolchainWrapper`.** The arguments at each step are those of the blocks that
  were executed (`BlocksDone`), what was looked at in the first loop holds no path of
  the build machine (`Looked`), and the memory is for the arguments and for what
  is still to come (`Enough`). Around it are lemmas about the blocks (`GroupsAre`,
  `LinkedAs`: what each of them adds and when; `OwnFit`: at most 16 in all) and
  about the two loops over arguments, by induction on the argument (`LastFound`)
  and on `unsafe_opts` (`LookAtIs`: wherever the inner loop goes on after it took
  the next argument for a path, it misses no path of the build machine, as long
  as no option stands where a path should).
* **`MakeDevs`.** `Reach` follows a path through links. Under all that a table can
  do it stays what it is for every path (`GrownReach`), because no link is made
  or changed and nothing goes: so what a line says of the tree is the same before
  and after every other line (`Stable`), and what a line is for can be decided in
  the tree at the end. The invariant says that each file is as the last of the
  lines that are *done* with it says (`OwnersRight`, `ModesRight`): a recursive
  line is done with what `nftw` has visited, and what is still to come is below
  one of the places in `walk` (`Pending`), none of which is below another
  (`WalkOK`). A visit takes the visited directory alone out of this set, since
  what is below it is below one of its entries (`ChildBetween`, `WalkOn`). What a
  line makes is new, so no earlier line was for it (`NewIsNew`). The loops that
  make directories and nodes are by induction on the names of the path and on the
  number of nodes (`DirectoriesMade`, `AllMade`). `NameRight` says whose file the
  next capability is for. The properties speak of an `f` or `F` line only where
  its file is one in the end: an `F` line that finds nothing is no line for a
  directory of that name which a later line makes.

* **`KTerms`.** Two values compare like two numbers, whatever their types and however
  they are read (`ComparedIs`), so a comparison and its opposite are each other's
  negation. A bool or tristate is equal to y, m or n when it has that value
  (`TruthCompared`), though the code compares strings there, and to any other
  constant when the strings are the same (`ConstCompared`). With that each join is a
  table of three rows (`OneOfThree`).

Induction is on naturals, through `Induction`: a set of naturals that has 0 and
with each number the next is all of them. A recursive function that a model
defines is in general only *some* function until one with these equations is
known to exist; lemmas such as `ConfigExists`, `LastExists` and `LookExists` say
so.

### What is only model-checked

* Liveness (`Termination`, `Recovers`, `Heals`, `BaseRecovers`, `Ends`,
  `Responds`): `ENABLED` and fairness are out of the prover's reach.
* Everything about whole Kconfig expressions, symbols, menus, files and `conf`
  (`kexpr`, `kbuild`, `ksession`, `confask`): what `expr.c` and `symbol.c` do is
  recursion over trees, written with RECURSIVE operators, and induction over data
  is out of its reach. `KTerms` has the rules that are applied at each place of a
  tree, and these are proved; that applying them in the order of the code, to all
  pairs of operands, keeps what a tree means is what `kexpr` checks.
* makedevs: `DanglingSkipped`, which is violated.

## Where code and documents disagree

With a run that shows it:

* `makedevs_links`: the comment at `makedevs.c:448` says that a dangling link is
  skipped; the condition below it skips the links that lead somewhere. A
  recursive line over a directory with a dangling link is reported as failed, and
  the rest of the directory is not done.

Found with the models, by instances that are not among the runs (the models
have the behaviour; the properties that run are stated around it):

* `dl-wrapper:68`: a legacy file that can only be copied is copied to its final
  name; if that stops half-way and there is no `.hash` file, the half is
  reported as a download, against the head comment of `dl-wrapper`.
* `pkg-generic.mk:386`: the check of the architecture looks at a list that the
  failing step itself removed; run make again and the package counts as
  installed.
* `download/git:146`: a lightweight tag that moves is archived at its old commit,
  since the fetch makes a *branch* of that name, which checkout prefers. A branch
  that HEAD is on is not advanced. With git's default branch named `master`, the
  first download of a package whose version is `master`, as `trezor-core`'s is,
  ends with "does not exist".
* `download/git:150`: "re-cloning from scratch won't help", so where the commit is not
  found the clone is left alone. But a run killed in the third fetch may leave
  `refs/heads/<version>.lock` in it. Then that fetch fails each time, which is ignored
  (`git:146`); if the branch had never been made, the commit is not found and every
  later run exits at `git:155` without `_on_error`: the package cannot be downloaded
  until somebody removes the clone, although re-cloning would help (`Stuck`, left out of
  `Heals`; a ref file that a power failure leaves empty would be of the same kind).
* `bake.sh:112`: `PITREZOR_DTO` exported in the shell customises a build without
  arguments, which is saved as the *clean* base image (the run has an environment
  without it).
* `expr.c:561`: the comment says that `(a!='m') && (a!='n')` becomes `a='m'`; the
  code makes it `a='y'`, which is right.
* `docs/manual/makedev-syntax.adoc`: the mode of created parents is said to be
  set; they get 0777, and mode -1 gives a new directory 07777. Its lines 42 to 44 word `inc`
  as the step of the counter of files; in the code (`makedevs.c:630`) and the usage
  text the counter goes up by one and `inc` is the step of the minor number. `TableApplied`
  follows the usage text.

## Seen while modelling

Behaviours of the code that the models have (or leave out, where it says so), and
that somebody who works on it may want to know. None is a property that runs.

Scripts and recipes:

* A failing `mktemp` or `chmod` ends `dl-wrapper` with its temporaries left (in
  the model: `litter`).
* An interrupted copy of the base image passes for one until the next bake (in
  the model: `whole`); a list of overlays that ends with a comma makes
  `post-image.sh` fail after the whole build (in the model: `PostImageFails`); a
  debug build without arguments is saved as the base image (left out).
* `.files-list.txt` is empty after a reinstall, and has the files of other
  packages installed between the configure and the install step of this one;
  `rsync -au` does not take over sources with an older time (left out).

Kconfig core:

* `conf_read` resets a number that is out of its range after others have been
  calculated from it, and those are not calculated again; a choice of tristates
  forgets that it was set when one of its members has no value. `CacheFresh`
  leaves such choices out (`Lasting`).
* A save whose last rename fails has already taken the marks off what is to be
  written: saving again writes an empty file (`confdata.c:832`; `failed` in
  `QuitLosesNothing`).
* `conf_read` takes back the mark that something is unsaved before it opens the file
  (`confdata.c:413`), and a named file that does not exist ends it there (`:285`). In
  mconf and nconf: change something, load a name that does not exist, leave the dialog
  and exit. The program ends as if all was saved, asks nothing, and the change is lost
  (in the models: `refused`, which `QuitLosesNothing` and `QuitsSaved` leave out).
* `sym_set_string_value` says that a value was taken, although nothing changes,
  when it is the old one of a symbol that is no longer set by the user.
* `conf_set_all_new_symbols` keeps the result of the last choice only, so
  randconfig may stop early (`confdata.c:1274`).
* `expr_trans_compare` is wrong for a tristate that is m below a negation;
  `expr_trans_bool` weakens a select under a comparison with a tristate.
* `expr_join_and` takes different constants for different values: `T='y' && T!="2"`
  becomes `T='y'` for a tristate T, although `expr_calc_value` reads both y and
  "2" as 2 (`expr.c:535`; `ConstantsDiffer` leaves such constants out).
* Loops through `imply` are not found (left out of `kbuild`), and which loop
  through a choice is reported depends on where the search begins.
* `menu_is_visible`, a query, marks symbols as set by the user; setting a symbol
  that cannot be changed marks it too.
* The quoted line in `auto.conf` of a string that the Kconfig files no longer
  have is not taken for a value, so its header is not touched; nor is that of a symbol
  whose type has changed to one that the old value is none of, if it has no line now
  (`SyncTouches` leaves these out by `Fits`).
* A member of a choice is marked for writing by a visibility that may be stale
  (`symbol.c:485`), so the next run can take the file for changed (`AsksOnce`
  excepts choices of tristates).

Front ends:

* `conf` asks for ever for a number without a valid default at the end of its
  input, and in a choice none of whose members is visible, even in oldconfig.
* menuconfig: the functions that load, save and edit a text try again for ever on
  a small terminal; where the question whether to save does not fit, changes are
  lost without it, with exit status 0 (`mconf.c:990`); after a save to another
  file that one is the file that leaving saves to; `save_and_exit` stays set after
  ESC (`mconf.c:959`); a resized dialog presses another button than it draws
  (`menubox.c:278`); when a menu is scrolled and the terminal becomes so large
  that the list would start at its top again, the items are still printed from the
  old `first_item` (`menubox.c:258`, `:270`): rows show other items than Enter
  picks there, or, printed past the last item, `item_cur` is null and the program
  crashes (in the models: `astray`, `Crashed`, `ResizeCrash`); with all options
  shown a text is accepted for an invisible symbol and has no effect; the lists of
  a choice want 21 rows though the program starts with 19; a search jumps to a
  member of a choice in a menu that does not list it, and has no jump for what is
  in the main menu; SIGINT while the message after saving is shown finds the
  configuration changed still (`confdata.c:836`); the position in an empty text is
  a division by zero (`textbox.c:405`, left out).
* nconfig: searching in a direction in which no line matches hangs, in an empty
  menu divides by zero (`nconf.c:507`); a choice that is no longer visible after a
  file was loaded uses the item before the first; a text's last line is never
  shown, and a page up skips up to three lines (`nconf.gui.c:619`); keys above 255
  are given to `isgraph` (in the model: a character or nothing); the place in a
  menu is kept by number, so entries that appear above move the highlight; the
  windows do not follow a resize.

Tools:

* makedevs: 'd' on an existing file ends with success (`makedevs.c:565`); an
  indented line with a number that is too big is ignored without a word
  (`makedevs.c:535`); a short line uses the user and group of the one before; a
  capability line after an optional file that is not there ends the program.

## What is not modelled

* The boot of the device and the branch workflow: straight lines of commands.
  What could go wrong there lies in what `mount`, tslib, iptables and GitHub do,
  which the repository says nothing of. (Read as they stand: the marker of the
  calibration is on a root file system that is mounted read-only, so the
  calibration would run at every boot; the wallet looks in `/data/tslib` even
  where `S05calibrate` fell back to `/etc`; and the fast-forward of `dev` is made
  in the runner's clone and not pushed.)
* Parallel builds with per-package directories, `target-finalize` and `mkusers`:
  rsync and make over whole trees, and one pass over tables.
* The other backends and post-processing: commands without a state of their own;
  `DlWrapper` has every result they can give.
* The parser (`zconf.l`, `zconf.y`): `KBuild` starts from its calls of `menu.c`.
  The graphical configurators: what orders their handlers is in Qt and GTK.
* br2-external, graphs and statistics: they generate files and pictures from what
  make prints. Programs copied from other projects (`mkpasswd`, `mkpimage`,
  `mcookie`), package declarations, board files.
* In the modelled parts: see [what the abstractions leave
  out](#what-the-abstractions-leave-out).

## Plan

The models are there, and every safety property of the parts without recursion
over expressions is proved. What could be added:

* A refinement of the front ends to a configuration that is edited: that what a
  session of dialogs writes is what a sequence of `set`s would.
