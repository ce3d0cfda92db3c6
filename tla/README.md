# Verification project for the Debian rootfs bootstrapper

This directory holds TLA+ models of `src/eng/common/cross/install-debs.py`, the
script that builds a Debian/Ubuntu root filesystem from an HTTP mirror without
apt or dpkg. It has TLC configurations that check the models on small
instances, and TLAPS proofs of the most important invariants and action
properties for every instance. Two of the other four Python files in `src/`, the Debian packaging
helpers `extract_json_value.py` and `config_template_generator.py`, are
modelled as well and proved correct with TLAPS. The manpage generator and the CI
YAML updater are not modelled (see "Not modelled").

## 1. Inventory

### Components of install-debs.py

| Component | Code | State it keeps | Operations |
|---|---|---|---|
| Index Fetcher | `download_package_index_parallel`, `fetch_and_decompress` (58-93) | one task per (suite, component); the list of results | fetch and gunzip each index concurrently; a failure yields `None` and is skipped; successes are joined with a blank line in `gather` order |
| Version Comparator | `parse_debian_version`, `compare_upstream_version`, `compare_debian_versions` (95-133) | none (pure) | split `[epoch:]upstream[-revision]`; tokenize into digit runs, letter runs **and the separator runs between them**; compare token lists |
| Index Parser | `parse_package_index` (160-194) | `packages`: name -> {Version, Filename, Depends}; `aliases`: virtual name -> providers | per record: keep it if the name is new or its version compares greater; on keeping, add its `Provides` names to `aliases` |
| Dependency Resolver | `resolve_dependencies` (135-158) | deque `to_process`, list `resolved` | pop a name, map it to itself or its first provider, exit if neither; if new, append and queue its real, unseen, unqueued Depends |
| Artifact Fetcher | `download_file`, `download_deb_files_parallel` (19-56) | one task per package; per task an attempt counter; one file per task in the scratch dir | GET with a 60 s timeout; on 200 open the file, await the body, write it; on non-200 give up; on an exception sleep 2 s and retry, 3 attempts in all |
| Install driver and Archive Extractor | `install_packages`, `extract_deb_file` (196-271) | the rootfs tree | resolve; download resolved packages and the providers of resolved names that are also alias keys; extract every existing file in **reverse** resolved order; per file: `ar t`, pick `data.tar*`, `ar p`, pick the codec by extension, untar over the tree |
| Rootfs Finalizer | `finalize_setup` (273-294) | `/lib`, `/usr/lib` | if `/lib` is a symlink remove it; if a directory, copy it into `/usr/lib` and delete it; then symlink `/lib` to `/usr/lib` |
| CLI | `__main__` (296-334) | args | choose a mirror from the distro, append six base packages to the request, run the phases in order |

How they interact: strictly in sequence within one process — fetch indexes ->
parse -> resolve -> download -> extract -> finalize. The two network phases run
concurrently inside `asyncio.run` (cooperative tasks on one thread, suspended
at each `await`); everything else is sequential. Components talk through return
values and through the scratch directory: the download tasks leave files
there, and the extraction loop decides from `os.path.exists` what to extract.

### What is hard

- Concurrency: the download tasks interleave at `session.get`, at `response.read`
  and at `asyncio.sleep`; the file is opened *before* the body is awaited.
- Failure: index fetches fail silently; downloads time out, get non-200 answers,
  are retried or abandoned; extraction can raise half-way through the loop;
  finalization can be interrupted between its filesystem steps.
- Ordering: which record of a package wins depends on the order of the indexes;
  which file wins in the rootfs depends on the reverse resolved order.
- Data algebra: the version order and the dependency closure.

### Properties that make each component correct

- Resolver: no duplicates; on return the list is closed under the Depends edges
  it follows; it terminates; (spec) every dependency is satisfied or the run
  fails.
- Parser: the kept record of a name has the greatest version seen; alias
  providers exist; the result does not depend on index order; aliases reflect
  the kept records.
- Comparator: a total preorder (reflexive, antisymmetric in sign, transitive);
  the tokenizer of spec section 4.1.
- Fetcher/extractor: a failed download is skipped, never half-extracted; every
  download attempt is bounded and every task ends; on a path shipped by two
  packages the earliest-resolved package's file is the one left.
- Finalizer: afterwards `/lib` is a symlink to `/usr/lib` and every file that
  was in `/lib` is in `/usr/lib`, whatever state an earlier interrupted run left.

### The Debian packaging helpers

| Component | Code | State it keeps | Operations |
|---|---|---|---|
| JSON value extractor | `extract_json_value.py` (14-63) | the current JSON value | check argv and the file; `json.load`; for each '.'-separated segment, `.get(key, None)` and exit on `None`; print `str()` of the value |
| Debian config template generator | `config_template_generator.py` (37-267) | the output directory, across invocations | check argv and three paths; `json.load`; build the text of changelog, control, copyright, rules and the links file inside one `try`; write the four files in order; write `{package}.links` only when the config has symlinks |

### Not modelled

- `manpage_generator.py` mixes tab and space indentation at lines 56-57 and
  264. Python 3 rejects the file when compiling it (`TabError`), so it has no
  behaviour to model.
- `update_travis_appveyor_yml.py` rewrites two YAML files from a list of
  versions. It is text substitution with no state between steps and no
  failure handling beyond the exception that ends the script.
- The CLI part of the main block of `install-debs.py` (lines 296-330) parses
  arguments, picks a mirror URL and appends six base package names to the
  request. None of it changes state that a later step reads, apart from the
  request list, which the models take as an input (`requested` in
  `Resolver`, `resolved` in `Install`). Lines 331-334, the part that runs
  the phases, are modelled by `Rootfs`.
- In the two packaging helpers, the text of templates, dates and messages is
  left out. A file is identified by the invocation that wrote it, and the
  JSON document by the kinds of the values along the queried key.

## 2. Plan

Modules, in the order they are written (the most important behaviour first):

1. `Resolver` (done) — resolve_dependencies, with `ResolverProofs`.
2. `IndexParser` (done) — parse_package_index over records given as model values
   (name, version rank, provides, filename), fed by the index fetcher: each
   (suite, component) index succeeds or fails and the survivors are parsed in
   gather order. Versions enter through an abstract rank with ties, so that
   "compares equal but differs" is reachable. Properties: kept version is the
   maximum seen (proved); that every listed provider's kept record provides
   the name, and that the result is independent of the index order, are
   violation runs.
3. `Install` (done) — the download tasks (attempts, timeout while reading, non-200,
   sleep, retry) interleaved, then the reverse extraction loop over what is on
   disk, extraction failures included. It INSTANCEs nothing from `Resolver`:
   the resolved list is an input, so that the phase stays small. Properties:
   every task ends (liveness under weak fairness of each task, justified by
   the event loop running every ready task), earliest-resolved wins on shared
   paths, and the spec's "failed download is skipped" as a violation run.
4. `DebVersion` (done) — the comparator over short strings from a small alphabet
   (a digit, a letter, '.', '-', ':'), with RECURSIVE tokenizing; TLC-only. Checked
   to be a total preorder over all strings up to the bound, and against the
   spec's tokenizer (violation expected).
5. `Finalizer` (done) — finalize_setup with /lib kinds and an interruption between
   steps followed by a rerun, with `FinalizerProofs`.
6. `ResolverAbstract` (done) — what resolve_dependencies promises: one step from
   "running" to either PackageNotFound (some requested name has no package
   and no provider) or "done" with the least set containing the resolved
   requested names and closed under the followed Depends edges. `Resolver`
   refines it under the mapping "result = resolved when pc is done"; checked
   by TLC as a PROPERTY, then proved (init maps to init, each step to a step
   or a stutter).

7. `Rootfs` (done) — lines 331-334: `Install` followed by `Finalizer` over the
   tree the archives built, so that the two components' path policies meet;
   `LibFilesKept` proved in `RootfsProofs`.
8. `ExtractJson` and `DebianConfig` (done) — the packaging helpers, proved
   with TLAPS rather than given runs.
9. `InstallAbstract` (done) — what install_packages promises, without tasks,
   retries or the extraction order; `Install` refines it, checked by TLC as a
   PROPERTY and proved in `InstallProofs`.

Theorems, in order of value: Resolver type correctness, no duplicates and
closure on return; the refinement of `ResolverAbstract`; the parser's
maximum-version invariant; earliest-resolved-wins and the abort suffix of the
extraction, and the refinement of `InstallAbstract`; the finalizer's no-file-lost invariant and its action property
that rmtree removes only copied files; and, over the composition,
`LibFilesKept` (all done).

## 3. Modules and runs

### Resolver (`Resolver.tla`, `MC_Resolver.tla`)

State: the inputs `depends` (package -> its bare Depends names, in order),
`aliases` (virtual name -> providers), `requested` are chosen in `Init` and
never change; `to_process` is the deque, `resolved` the list, `current`/`di`
the package whose Depends the inner loop is walking and its index, `pc` the
control point (`loop`, `deps`, `done`, `notfound`).

Actions: `Pop` (lines 140-151: pop, resolve via `ResolveName`, exit / skip /
append), `VisitDep` (152-156: one Depends entry, queued iff real, unresolved
and unqueued), `DepsDone` (the inner loop's exit), `Finish` (158: return on an
empty deque). The Depends text is abstracted to the bare names the code keeps
(text before the first space of each `, `-separated entry), which may be real
packages, virtual names or junk tokens.

Runs (3 packages, 1 virtual name; Depends lists of up to 2 distinct names,
aliases of 1 provider, up to 2 requested names with repetition, every
combination as an initial state):

- `resolver_safety` checks `TypeOK`, `NoDuplicates` and `ClosedOnReturn`. It
  also checks `Termination` under `WF_vars(Next)`, which the code justifies:
  the resolver is one sequential loop and nothing else runs. There is no
  symmetry, because the run checks liveness. This gives 4 M states in about
  a minute. With 2 providers per alias the run has 10 M states and takes
  3 minutes. The safety properties hold there too, but that instance is not
  part of the regular runs.
- The same run checks `ImplementsAbstract`. This property is
  `Abs!SafetySpec`: `Resolver` implements `ResolverAbstract` under the
  mapping `Abs`, which sends `pc` in {loop, deps} to status "running", and
  other values of `pc` to themselves. The abstract `result` is
  `RangeOf(resolved)` once `pc` is "done" and {} before that. The abstract
  module says what the loop promises, in one step:
  - If a requested name stands for nothing, the run stops with
    PackageNotFound.
  - Otherwise it returns `Closure`: the packages that every Depends-closed
    set holding the roots also holds.
  Only the safety part is a TLC property. The abstract fairness follows from
  `Termination`.
- `resolver_deps_satisfied` (violation) — the spec's contract that a
  dependency that is neither a package nor a provided alias fails the run.
  TLC shows p3 depending on virtual `v` with no provider: the run returns
  `<<p3>>`. Also reachable: `v` provided by p1, which is never resolved.

Why these bounds: 3 packages are enough for a cycle plus a package reached by
two paths (the queued-but-unresolved skip of line 155), a virtual name with 0,
0 or 1 provider covers the alias cases (the code only ever reads the first
provider), and 2 requested names give repeated
requests and a requested alias whose provider is also requested.

Deadlock checking is off in these runs: the resolver really stops, at `done`
or `notfound`.

### Index fetch and parse (`IndexRecords.tla`, `IndexParser.tla`, `IndexOrder.tla`)

`IndexRecords` holds what the parser does with one record, as operators on
values. A record is the three fields the parser reads: `pkg`, `ver` and the
set of names it `provides`. A version is `<<rank, spelling>>`. The comparator
is a total preorder, so only the rank matters to the parser; two spellings of
one rank are versions that compare equal but differ ("1.0" and "1.00").
The packages table maps a name to the kept record itself. The code stores
that record's Version, Filename and Depends (lines 178-182), not its
Provides. The model keeps `provides` there only so that the properties can
ask which record was kept: no action reads it from the table, and
`AliasesAfter` takes the provided names from the record being parsed.
`NoVersion` stands for a missing or malformed Version, which makes
`compare_debian_versions` raise. `Outcome` is line 176 (keep a new name, else
raise or keep if strictly greater, else skip). `WithProviders` is lines
184-192.

`IndexParser` is the whole index phase. `index` (what the mirror serves for
each (suite, component)) is chosen in `Init` and never changes.

- `FetchIndex(i)` is one task of `fetch_and_decompress` completing. It
  yields text or `None`, and the tasks complete in any order.
- `Gathered` is the return of `gather`.
- `MergeResult` is the merge loop. It visits results in task order, which is
  what `gather` returns.
- `ParseRecord` is one pass of the parse loop. It keeps or skips the record,
  or raises and ends the run (`phase = "failed"`).
- `MergeDone` and `ParseDone` are the loop exits.

The blank-line join of the texts is modelled as the concatenation of their
record sequences.

Runs (2 indexes, each of up to 2 records; 2 names, 1 provided name, 2 ranks,
1 spelling; every pair of indexes is an initial state):

- `parser_safety` checks `TypeOK` and `KeptIsMax`: the kept record of a name
  has the greatest version among that name's parsed records. It speaks only
  of parsed records: an index whose fetch failed (line 72) is never parsed,
  so its loss does not violate it, and a raise on a missing Version ends the
  phase without a violation. About 850 k
  states. Two indexes of two records each cover the cases that matter: a name
  in both indexes, a name twice in one index, a failed index between them, and
  a missing version that raises.
- `parser_stale_alias` (violation) checks `AliasesFromKept`. Index 2 holds
  `a` at rank 1 providing `v`, then `a` at rank 2 providing nothing. The
  alias `v` still lists `a`.
- `parser_tie_order` (violation) runs module `IndexOrder`. It parses one list
  of records, and a permutation of it, with the recursive `ParseAll`, which
  folds the same `PackagesAfter`/`AliasesAfter` step. `WinnerOrderInsensitive`
  (spec section 8) compares both returned tables, packages and aliases. It
  fails on two records of `a` with equal versions where only the second
  provides `v`. Whichever comes first wins, so in one order `aliases[v]`
  lists `a` and in the other it is empty.

No fairness is assumed and no liveness is claimed for this phase. Deadlock
checking is off because the phase really stops at `done` or `failed`.

### Download and extraction (`Install.tla`, `MC_Install.tla`)

The inputs are chosen in `Init` and never change:

- `resolved`: the resolved list.
- `withFile`: the packages whose record has a Filename.
- `extra`: the providers that lines 207-210 add to the download set (only
  when a resolved name is also an alias key).
- `ships`: the paths each archive's data.tar holds.
- `broken`: the archives with no data.tar member or an unsupported codec.

Per task `p` (one per member of `DownloadSet`):

- `tpc[p]` is where `download_file` is: `get`, `read`, `sleep`, `done`,
  `gaveup`, or `none` for no task.
- `attempt[p]` is its counter.
- `disk[p]` is its file: `absent`, `empty` or `full`.

The actions follow the task's awaits:

- `Get(p)` is `session.get`. On 200 the file is opened, and so created
  empty, before the body is awaited. Any other status breaks out of the
  loop. An exception counts the attempt.
- `Read(p)` is `response.read`: the body is written, or the 60 s timeout
  fires with the file still empty.
- `Sleep(p)` is the retry delay followed by the loop test.
- `Gathered` is the return of `gather`.
- `ExtractNext` is one pass of the reversed loop. It skips a package with no
  Filename or no file. It aborts on an empty file or a broken archive.
  Otherwise `WriteTree` writes the archive's paths over the tree.
- `ExtractDone` is the loop's exit.

The tasks interleave freely: asyncio switches tasks only at awaits, and each
action runs from one await to the next.

Runs: the safety and liveness properties of this module are checked in
`rootfs_safety` (module `Rootfs`, below), where the same actions run before
`finalize_setup`. `MC_Install` keeps the violation run:

- `install_empty_file_aborts` (violation) checks `NetworkFailureNeverAborts`.
  In TLC's trace, p1 gets a 200, its body times out, and its retry gets a
  non-200. The empty `.deb` stays behind, and the run aborts in `ar t`. The
  spec says that failed downloads are skipped.

`Get` also models the `break` of line 33: a non-200 answer gives up at once.
Spec section 4.5 counts a non-200 answer as a failed attempt to be retried.
This is plain from reading the code, so no run is spent on it.

Deadlock checking is off: the phase stops at `done` or `aborted`.

`AbortLeavesSuffix` states what a broken archive leaves behind. The loop has
extracted the positions after the failing one, and each path holds the file
of the earliest of those that ships it (`WinnerAfter(x, k)`). The positions
before it are never extracted, and `finalize_setup` never runs (spec
section 7).

### What install_packages promises (`InstallAbstract.tla`)

`InstallAbstract` has the inputs of `Install` (without `extra`), one file
per package (`arrived`), the tree and a status. It has three actions:

- `Fetch(p)`: the file of a package with a Filename arrives, empty or
  whole. A file that arrived whole is never written again.
- `Complete`: when no resolved position is unreadable (an empty file, or a
  whole archive without a usable data.tar), each path gets the file of the
  earliest resolved package whose whole archive ships it
  (`EarliestAfter(x, 0)`).
- `Abort`: otherwise, at the greatest unreadable position `j`, each path
  gets `EarliestAfter(x, j)`, what the packages resolved after `j` leave.

`Install` implements it (`ImplementsInstallAbstract == IA!Spec`), under the
mapping: `arrived` is `disk`; the status is "done" or "aborted" when the
phase is, and "running" otherwise; the tree is the extracted tree once the
phase has ended, and empty before. Tasks, attempts, sleeps, `Gathered` and
each pass of the extraction loop are stutters: the loop's work becomes
visible in one step, at its exit or its abort. `extra` is not mapped: a
provider added by lines 207-210 has a Filename, so its download is a
`Fetch`; as it is not resolved, its file never enters `UnreadableAt` or
`EarliestAfter`, just as the extraction loop never reads it.


`Rootfs` models lines 331-334 of the main block. It EXTENDS `Install` and
INSTANCEs `Finalizer` as `F`, with `Item` set to the library names, an
absolute root and one run. A path of the tree is a pair: a directory
(`"lib"` for `/lib`, `"usr"` for `/usr/lib`) and a name.

- `InstallStep` is any step of `Install`.
- `BeginFinalize` starts `finalize_setup` once the extraction loop has
  returned. It sets the Finalizer's variables from the tree. `/lib` is a
  directory exactly when some extracted archive shipped a file under it, and
  `/usr/lib/n` exists when an archive shipped it.
- `FinalizeStep` is any step of `F` except `Rerun`. A kill and rerun of the
  finalizer is already checked in `finalizer_safety`.
- `LibOwner(n)` is the archive whose file ends at `/usr/lib/n`.

Fairness is that of `Install`, plus weak fairness of the finalizer's steps
(straight-line code).

Runs:

- `rootfs_safety` checks `TypeOK`, `EarliestResolvedWins`,
  `AbortLeavesSuffix`, `LibFilesKept`, `Finished` and
  `ImplementsInstallAbstract`.
  - `ImplementsInstallAbstract`: `Install`'s steps are steps or stutters
    of `InstallAbstract` (see above). Its mutant downloads the resolved
    packages without testing for a Filename (line 51 dropped): a file then
    arrives for a package the abstraction cannot fetch.
    Its `Fetch` may only write a file that has not arrived whole, so it
    also shows that no retry truncates a finished download (line 26).
  - `LibFilesKept`: after finalization, every library an extracted archive
    shipped under either name is in `/usr/lib`, with one of those archives'
    content.
  - `Finished`: every task ends, and the run either aborts or finalizes.
    Its fairness is justified as in `Install`: the event loop resumes every
    ready task, every await is bounded (the 60 s `ClientTimeout` and the 2 s
    sleep), and the rest is straight-line code.
  - Bounds: 2 packages; every resolved list of up to 2; paths `lib/a` and
    `usr/lib/a`; 3 attempts (the code's `max_retries`). This covers two
    archives that ship the same path, and two that ship one library under
    both names. 928 K states.
- `rootfs_lib_precedence` (violation) checks `RequestedWinsOnLib`: the
  earliest-resolved archive's library is the one in `/usr/lib`. In TLC's
  trace, p1 (resolved first) ships `usr/lib/a` and p2 ships `lib/a`. The
  extraction leaves both. Then `shutil.copy2` (line 290) copies p2's `lib/a`
  over p1's file, so the dependency wins. Spec section 4.3 says requested
  packages win on path collisions. Section 4.7 says the merge overwrites
  files on conflict. The spec does not say which rule prevails, and the code
  follows 4.7.

### JSON value extractor (`ExtractJson.tla`)

The module models one run of `extract_json_value.py`. Its inputs:

- `argc`, the argument count;
- `isFile`, whether the path is a file;
- `loads`, whether `json.load` succeeds;
- the number `n` of segments the key splits into;
- `val`, the document along the key. `val[j]` is the kind of the value named
  by the first `j` segments, or `"absent"`. A value exists only where every
  proper prefix names an object (`Chain`).

The actions follow the code:

- `ParseAndValidateArgs`: `argc < 3`, then `isfile`.
- `LoadJson`: an exception here is uncaught.
- `GetKey`: one `.get`. It raises `AttributeError` on a non-object, and
  `help_and_exit` on `None`, which is also what a JSON null gives.
- `PrintValue`.

`Expected` is a reference definition of the outcome, stated on the inputs
alone, with `FirstMissing` the first segment that gives `None`.
`ExtractMatchesReference` says every final state agrees with it.
`ExtractCorrect` proves this for every depth.

- `IInv` adds that the walk has passed only segments holding a value.
- Lemma `StopsAtFirstMissing` shows that a walk that stops at segment
  `i + 1` stopped at `FirstMissing`.

TLC checked the property with depth 3 (1.5 K states) before it was proved.
A mutant that lets a null value through was caught. No run is registered.

### Debian config template generator (`DebianConfig.tla`)

The output directory outlives an invocation, so the module runs the script
up to `MaxInv` times over one directory. `out[f]` is the invocation that
last wrote file `f`: 0 when there is none, and `Truncated` when
`open(path, 'w')` emptied the file and the write then raised. A links file
is named by its package name.

Each invocation draws a `call` in `Execute`:

- the argument count and the name override (`""` when given empty);
- whether the three paths exist, the JSON loads and the five generators
  succeed;
- the config's package name and whether it has symlinks.

The actions:

- `ParseAndValidateArgs` and `LoadJson`. `load_json` is outside the `try`.
- `Generate`: the `try` of lines 38-51. It fails with nothing written.
- `WriteFixed` writes the four files in order. Each write completes
  (`WriteOk`) or raises (`WriteRaises`), and a raise ends the script.
- `WriteLinks` writes the links file, named by `PkgName`
  (`package_name or config_data["package_name"]`).

Two properties, each proved for every set of names and every `MaxInv`
(assuming `ConstOK`: some name exists, and no links file is named like a
mandatory file):

- `FreshAfterSuccess` (theorem `SuccessIsFresh`): a completed invocation
  leaves all its files, the links file of the effective package name
  included, holding its own output.
- `MixedOnlyAfterWriteFailure` (theorem `MixedOnlyOnWriteFailure`): between
  invocations, the four mandatory files come from one invocation unless a
  write raised since the last complete one. Generating everything before
  the first write is what keeps the other failures from leaving a mix.

The proof's `IInv` says what holds during the write phase. The files before
position `w` hold this invocation's output. If no write has raised, the
files from `w` on agree with each other.

TLC checked both properties with 2 names and 3 invocations (184 K states)
before the proof. Two mutants were caught: writing the changelog before the
other generators run, and naming the links file from the config while
ignoring the override. The same TLC model shows that a links file written
by an earlier invocation survives a later successful one whose config has no
symlinks. Neither the code nor the spec promises otherwise, so this is
listed as a hazard, not a finding. No run is registered.

### Version comparator (`DebVersion.tla`, `MC_DebVersion.tla`)

A version string is the sequence of its code points. The operators follow
lines 95-133:

- `ParseVersion` is the regex match of line 97, with its backtracking. The
  epoch is the maximal run of leading digits, and only when a ':' follows
  and the rest matches. Otherwise the whole string is the rest. The upstream
  part runs to the first '-' and must not be empty, and a revision after
  that '-' must not be empty. A string that does not match gives the
  ValueError of line 99.
- `Tokenize` is `re.split` with a capturing group plus the filter of line 107.
  It yields the maximal runs of one character kind (digit, letter, other),
  with digit runs as ints. Runs of other characters stay as str tokens.
- `TokenCompare` and `CompareTokens` are the zip loop and the length
  difference of lines 112-119. `StrCompare` is Python's str order by code
  point.
- `CompareDebian` is compare_debian_versions, and the one action `Compare`
  is a call of it. Its arguments are chosen in `Init`, and its outcome is
  recorded as a returned integer or a raise.

These operators were checked against the spec's examples, among them
`"1.0-1" < "1.0-2"`, `"2:1.0" > "1:9.9"` and `"1.0~b" > "1.0"`.

Runs (the alphabet is '1', 'a', '.', '-', ':'):

- `version_total_preorder` checks `TotalPreorder` over every pair of strings
  of up to 3 characters: 156 strings, 24,336 calls, and for each call every
  third string. On well-formed versions the result flips sign when the
  arguments are swapped and a result `>= 0` is transitive. So the parser's
  "keep if greater" has a maximum up to ties, whichever kinds of token are
  mixed. The table of all comparisons (`CmpTable`) is computed once.
  Length 3 is the shortest that holds an epoch ("1:1") or a revision with a
  separator ("1-1" against ".-1").
- `version_spec_tokenizer` (violation) checks `CompareMatchesSpec` against the
  comparison of spec section 4.1, whose tokenizer discards the characters
  that are neither digits nor letters. TLC's first counterexample is "."
  against ":": the code returns -1 because it compares the separators as
  strings, and under the spec both are empty. The same rule makes
  `"1." > "1"` and `"1.0" < "1a0"` in the code, while the spec says they
  are equal and greater.

The code returns differences (of epochs, of token counts), not just -1, 0
and +1 as the contract says. Its callers only test `> 0`, so the model keeps
the integer and compares signs.

### Rootfs finalizer (`Finalizer.tla`, `MC_Finalizer.tla`)

`finalize_setup` (lines 273-294) runs once, after the extraction. A run can be
killed at any point, and the script can be run again over the same tree.
`Rerun` models both: a kill, or a completed run, followed by a new call of
`finalize_setup` (line 334). A rerun of the whole script, which would
extract the archives again first, is not modelled.

The state is the following:

- `lib` says what /lib is: absent, a directory, or a link.
- `target` says where the link's text resolves: to the rootfs's usr/lib, or
  elsewhere.
- `libItems` holds the files of the /lib directory.
- `usr` maps each file name to its place in usr/lib: missing, or present with
  the origin of its content.
- `todo` holds the entries of the listing that are not yet copied.
- `pc` is the step the run is at.

The actions follow the code:

- `Start` is lines 277-283. `os.path.exists` follows links (`LibExists`), so a
  dangling link goes straight to line 294.
- `CopyItem` copies one entry, in any order, as `listdir` has none.
- `CopyDone` ends the copy loop.
- `RemoveItem` and `RemoveDir` are rmtree, entry by entry.
- `Symlink` is line 294. It raises FileExistsError if the name is taken.

The text that line 294 writes is the joined path `rootfsdir/usr/lib`. With an
absolute `--rootfsdir` it resolves to usr/lib. With a relative one it is read
relative to the link's directory, and so names `rootfs/rootfs/usr/lib`
(`LinkTarget`).

Runs. All use 2 files, up to 3 runs, and symmetry over the files. That is
enough for a kill in the middle of a copy loop or of an rmtree, followed by a
rerun, followed by a second rerun.

- `finalizer_safety` checks `NoLibFileLost` with an absolute root: every
  file /lib held is in usr/lib with /lib's content, whatever the kills. It also
  checks the action property `RemovesOnlyCopied`: no step takes a file out
  of /lib unless its copy is in usr/lib after the step.
- `finalizer_relative_root` (violation) checks `LibLinksToUsrLib` with a
  relative root. The first run already leaves a dangling link.

The same dangling link breaks a rerun. `os.path.exists` is False for it, so
line 279 is skipped and `os.symlink` raises FileExistsError, while the spec
calls the symlink case idempotent. A package-shipped `lib -> usr/lib` link
with no usr/lib fails the first run in the same way. The model reaches both
(the `lib # "absent"` branch of `Symlink`).

Deadlock checking is off: a run stops at its return or its exception.

### Proofs (`ResolverProofs.tla`)

- `TypeCorrect`: `Spec => []TypeOK`.
- `ResolverSafety`: `Spec => [](NoDuplicates /\ ClosedOnReturn)`.
  `ClosedOnReturn` is not inductive; the proof uses `IInv`, which adds
  `Frontier`: every real dependency of a resolved package is resolved, is in
  the deque, or is at or after the inner loop's index of the package being
  expanded. `Pop` keeps it because a popped real name is either already
  resolved or appended; `VisitDep` because the visited name is queued unless it
  is already resolved or queued; `DepsDone` because the index is past the end.
  `IInv` was checked by TLC on the `resolver_safety` instance before the proof.
  Lemmas about `RangeOf` of `Tail` and `Append` carry the sequence reasoning.
- `NoDuplicatesHolds`: `Spec => []NoDuplicates`, a corollary of
  `ResolverSafety` stated on its own because it is the invariant the
  extraction order relies on.

### Proof of the refinement (`ResolverRefinement.tla`)

`Refinement` proves `Spec => ImplementsAbstract` for every set of packages,
virtual names and requests. `IInv` of `ResolverProofs` is not enough for it.
The invariant `RInv` adds three conjuncts:

- `Queued`: every queued name is a package or a requested name. The inner
  loop queues only packages.
- `RequestedSeen`: every requested name is still queued or has its package
  resolved.
- `Least`: every resolved or queued package lies in every Depends-closed
  superset of the roots (`ClosedSuperset`).

The steps of the argument:

- `InitRefines`: `Init` maps to `Abs!Init`.
- `NextRefines`: each step maps to a step or a stutter.
  - `Pop` of an unresolvable name maps to `NotFound`. By `Queued`, that name
    was requested, so `None` is a root.
  - `Finish` maps to `Return`. With the deque empty, `RequestedSeen` puts
    every root in `resolved`, so `None` is not a root. `Frontier` makes
    `resolved` itself a `ClosedSuperset` (lemma `ResolvedClosed`), which gives
    `Closure \subseteq RangeOf(resolved)`. `Least` gives the other inclusion.
  - Every other step keeps status "running" and result {}, so it is a
    stutter.

`RInv` is inductive (`NextRInv`):

- `Least` survives `Pop`. A popped package was queued, and a popped alias
  was requested, so its provider is a root.
- `Least` survives `VisitDep`. The package being walked is resolved, and
  the sets are closed.

### Proofs (`IndexParserProofs.tla`)

- `TypeCorrect`: `Spec => []TypeOK`. Its lemma `StepTypes` says that one parse
  step maps well-typed tables to well-typed tables.
- `KeptMaximal`: `Spec => []KeptIsMax`. The invariant is not inductive on its
  own, for two reasons. A merge step changes the merged text that `Parsed` is
  read from. A parse step reads `merged[pos]`, which needs `pos` within the
  text. The proof therefore uses `IInv`, which adds two facts: `pos = 1` before
  the parse phase (so nothing has been parsed while the text still changes),
  and `pos <= Len(merged) + 1`.
  - A kept record is at least every parsed record of its name: when the name
    was absent, no parsed record had it; otherwise the old kept record already
    dominated them, and the new record is strictly greater.
  - A skipped record is at most the kept one, because ranks are totally
    ordered.
  - A raise changes neither the tables nor `pos`.

### Proofs (`InstallProofs.tla`)

- `TypeCorrect`: `Spec => []TypeOK`. `TypeOK` is not inductive: `Get` and
  `Read` add one to the counter. `IInv` adds that a task at `get` or `read`
  has attempts left, which `Sleep`'s loop test guarantees.
- `EarliestWins`: `Spec => []EarliestResolvedWins`. `IInv` states three
  more facts:
  - during extraction, each path holds `WinnerFrom(x, k + 1)`, the winner
    among the positions the reversed loop has already extracted;
  - none of those positions held a broken archive that arrived whole;
  - before extraction the tree is empty.

  `Gathered` starts with an empty suffix, whose winner is `NoPkg`.
  `ExtractNext` extends the suffix by one position at its front, and lemma
  `WinnerStep` shows how the winner then changes:
  - if that position ships `x` in a whole archive, it becomes the winner,
    and `WriteTree` writes it;
  - otherwise the winner is unchanged, and so is the tree.

  `ChooseLeast` says the CHOOSE of a least element is that element.
  `WinnerFrame` says the winners depend only on the inputs and the disk,
  which do not change after the download phase.
- `AbortSuffix`: `Spec => []AbortLeavesSuffix`, from the same `IInv`. When
  `ExtractNext` aborts, `k` stays at the failing position, so the suffix
  already extracted is `k + 1..Len(resolved)`. Its winner
  `WinnerFrom(x, k + 1)` is `WinnerAfter(x, k)`.
- `FullIsDoneInductive` (a lemma): a task whose file is "full" is at
  `done`. It is inductive together with `TypeOK`, which `TypeCorrect`
  supplies. Only `Get` changes a file that is already there, and it needs
  `tpc[p] = "get"`, so it cannot touch a finished download.
- `InstallRefinement`: `Spec => ImplementsInstallAbstract`. It rests on
  `RInv`, which adds to `IInv` and `FullIsDone`:
  - `TaskHasFile`: only a package with a Filename has a task, so every
    file that changes belongs to one (`Fetch` requires it);
  - `SuffixReadable`: once extraction has begun, no position after `k` is
    unreadable. The loop has passed them without aborting, and the disk no
    longer changes.

  The steps then map as follows (`StepRefines`):
  - `Get` and `Read` of a task are `Fetch` when they change the file
    (`TaskDisk`: the file was not whole, by `FullIsDone`), and stutters
    otherwise. `Sleep` and `Gathered` are stutters.
  - A pass of `ExtractNext` that does not abort is a stutter: the phase
    stays "extract", so the mapped tree stays empty.
  - An aborting pass is `Abort`. By `SuffixReadable`, `k` is the greatest
    unreadable position (`ChooseGreatest`), and by `IInv` the tree holds
    `WinnerFrom(x, k + 1)`, which is `EarliestAfter(x, k)`.
  - `ExtractDone` is `Complete`: `k = 0`, so `SuffixReadable` covers every
    position, and the tree holds `WinnerFrom(x, 1)`.

### Proofs (`FinalizerProofs.tla`)

`NoFileLost` (`Spec => []NoLibFileLost`) holds for every set of files and
every bound on the runs. `TypeCorrect` proves `TypeOK`.
`RemovesCopiedOnly` proves the action property `Spec => RemovesOnlyCopied`:
a step that shrinks `libItems` is a `RemoveItem`, which runs only at
`pc = "rmtree"`, where `IInv` says every file still in /lib has its copy.
All three rest on `IInv`, which says:

- Files leave /lib only during rmtree.
- While the copy loop runs, every listed file that has been handled has its
  copy.
- During rmtree, every file left in /lib has its copy.
- A file no longer in /lib has its copy.
- Outside the copy loop nothing is pending.
- At a return, /lib is the link that line 294 wrote.

`NoLibFileLost` alone is not inductive. It says nothing about the states in
the middle of a run, and a kill there is followed by a rerun that must still
find every file either in /lib or already in usr/lib. TLC checked `IInv` as an
invariant (up to 4 runs, both kinds of root) before it was proved.

### Proofs (`RootfsProofs.tla`)

`LibFilesSurvive` proves `RootfsSpec => []LibFilesKept` for every set of
packages, paths and library names (under `RootfsAssumption`). It rests on
the invariant `IInv` of the composition:

- Every `Install` action waits for phase "download" or "extract"
  (`InstallWaitsForPhase`). So once `BeginFinalize` has moved `pc` off
  "idle", the phase is "done" and the tree never changes again.
- While finalize_setup runs, `libItems0` is the set of names shipped under
  `lib/`.
- A file of usr/lib tagged "usr" was shipped under `usr/lib/`, and one
  tagged "lib" under `lib/`.
- A name shipped under `usr/lib/` always has a file.
- It also carries the Finalizer's own invariant (see `FinalizerProofs`),
  restated over the composition's variables.

At `pc = "done"`, /lib is no longer a directory, so `libItems` is empty. Every
name shipped under `lib/` therefore carries the "lib" tag. A name shipped only
under `usr/lib/` keeps its "usr" tag. In both cases `LibOwner` is an archive
that shipped the name.

`LibFilesKept` on its own is not inductive, for two reasons: it says nothing
before `pc = "done"`, and it needs the tree to be frozen. TLC checked `IInv`
as an invariant before the proof. One instance was `rootfs_safety`'s (928 K
states). The other had two library names and one retry (2.9 M states).

## 4. What stays with TLC

Liveness (`Termination` of the resolver, `Finished` of `Rootfs`) is checked by TLC only: TLAPS does not handle
ENABLED and fairness well enough here. The comparator's recursive tokenizer
(`DebVersion`) is TLC-only, and so is anything that would need induction over data:
`TotalPreorder` (the comparison is reflexive, antisymmetric in sign and
transitive) is checked over every pair and triple of strings up to the run's
length, but a proof for all strings would need induction over the token lists
that `compare_debian_versions` recurses on, which the provers here cannot
instantiate. The
order-insensitivity question is asked in `IndexOrder` with a RECURSIVE fold,
so that module is TLC-only as well.
