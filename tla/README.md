# agentskill, in TLA+

A verification development of `github.com/ChristopherDavenport/agentskill`,
the Go module that finds, reads, validates and serves Agent Skills. It holds
TLA+ modules translated from the source, TLC runs that check them on small
instances, and theorems that TLAPS proves for every instance. Line numbers are
those of the commit under `src/`.

## The system

| Component | State it keeps | Operations | Talks to |
| --- | --- | --- | --- |
| Discovery and catalog (`discover.go`) | the `Catalog`: `Skills`, `Shadowed`, `Problems`; during `Discover` the claims on names (`seen`) and the locations met | `Discover`, `isDir`, `findSkillFile`, `listable`, `Lookup`, `Listed`, `Prompt` | reads sources through `fs.FS`; calls `Load` and `Validate` |
| Loading (`load.go`) | nothing between calls | `Load`, `readSkillFile`, `Files`, `Open`, `Dir`/`dirFS` | reads a skill's directory; calls `Parse` |
| Frontmatter (`parse.go`) | the `Skill` being built | `Parse`, `splitFrontmatter`, `scalar`, `metadata`, `Encode` | the YAML library |
| Validator (`validate.go`) | nothing | `Validate` | `Rules` |
| allowed-tools rules (`rules.go`) | scanner position, depth, token start | `Rules`, `splitRules`, `parseRule` | - |
| Skill tool (`tool.go`) | per call: the catalog's skill, what was read so far | `Tool`, `target`, `fileFacts`, `instructions`, `currentBody`, `file`, `detect` | reads the skill's directory again at every call |
| Command (`cmd/agentskill/main.go`) | nothing | `validate`, `read-properties`, `to-prompt` | `LoadDir`, `Validate`, `Prompt` |
| Directory guard (`load.go`) | the resolved root | `Dir`, the `check` of `dirFS` before each `Open`, `ReadFile`, `ReadDir`, `Stat` | `filepath.EvalSymlinks`, `os.DirFS` |
| Release procedure (`Makefile`, `scripts/`) | the branch and the tags of clone and origin | `make release`, `release-guard.sh` | git |

There are no goroutines in the module. What makes it hard is that every
operation is a sequence of reads of a file system that others write: an editor
(often the agent itself) changes skill files and resources while `Discover` or
a tool call is between two reads, several tool calls run at once, and a product
discovers again and replaces the catalog while calls on the old one run. The
rest of the hazards are of a sequential kind: names and locations that collide
across sources, two pieces of code that decide the same thing apart
(`splitRules` and `parseRule`, `listable` and `Validate`, `Validate` and the
command's `load`), and values that lose something on the way (a wrong shape, a
repeated key, an `Encode` that leaves fields out). `PROJECT.json` lists each
hazard at its line with the properties that would catch it.

What makes each part correct:

- discovery: no two listed skills share a name; names resolve as PATH does;
  every directory that could be a skill ends in the catalog or in `Problems`;
  locations tell skills apart;
- the tool: an answer is made of what stood in the directory during the call,
  the file served is the file the policy was asked about, nothing over the
  limit is shown, and every call ends;
- rules: the accepted fields are those of the grammar, and no token with a
  specifier becomes the bare grant of a tool;
- the directory guard: nothing outside a local directory is served through its
  links while it stands still, and nothing inside is refused;
- the release procedure: published versions only ascend, and a version and the
  commit that dates it are published together or not at all;
- frontmatter: nothing written is lost without a report, `Encode` and `Parse`
  are inverse but for the numbers of unknown keys, and what `Validate` passes everyone else accepts.

## Modules

### Discovery

One call of `Discover`. A step is one read of a source's file system with the
computation up to the next read, and `Edit` may change any entry of any source
between two steps.

| Source | Model |
| --- | --- |
| the checks at discover.go:64-80 | `BadSource`, `RefuseSources` |
| `fs.ReadDir` of the root, the loops | `ReadRoot`, `NextSource`, `VisitEntry` (with `isDir`), `Return` |
| `findSkillFile`, and the report of a misnamed file | `findSkillFile` |
| `Load`: the listing, then the read | `LoadList`, `LoadRead`; both end in `Finish` |
| discover.go:104-122 | `AddSkill`, `Claim`, `Qualifies` |
| `seen`, `Skills`, `Shadowed`, `Problems` | the variables of the same names |

Two listings are separate reads in the code and in the model: the directory in
which `findSkillFile` saw a skill file may be another when `Load` lists it.
Names are sequences of colon-free segments, so that joining a qualifier is
concatenation and "holds a colon" is a length. A source says whether its host
folds case (`folds`), which matters where the code probes instead of listing.

### SkillDisk, ToolPromise, SkillTool

`SkillDisk` describes a skill's directory, what single `fs.FS` calls return for
it and how `detect` shows a file, by the class of its extension and of its
bytes. A skill file reads, or is a link that dangles, or is there and does not
read (`failing`: a link outside, a loop, no permission); `DocRead` is the outcome
of a read of a name: `ok`, `missing` or another `error`. On a host that folds
case (`folds`) the one entry opens under either spelling (`Reached`), so that
the old name still reads after a rename; a write under one spelling replaces
the other's file (`Entrance`). Resources may be there and not read (`sealed`),
directories not be listed (`closed`). `ToolPromise` is the abstract specification: a call begins, the directory
changes any number of times, and the call is answered once, with an answer
that `Allowed` permits for the set of directories seen *during* the call. It
says nothing of reads and their order. For the instructions it demands that
the body is that of a file under the loaded spelling at some moment, that
`changed` is told of that same moment, that each listed resource stood as a file
at some moment and each that stood throughout is listed, and that each
size is of some moment; of a file, that its bytes stood there, are within the
limit and, shown as text, are UTF-8; of a refusal, that its cause stood there:
`ErrSkillChanged` where the claimed file was not the one in place (or, without a
listing, missing or behind the other name) or had no closing fence, a read error
of the skill file where a name that was listed did not read or, without a
listing, one failed.

`SkillTool` is the code. A call is a record of its next step and of the locals
of the functions it runs: `fileFacts` (`Claim`), `target` (`Target`),
`readSkillFile` (`List`, `ReadSkill`, or the probes `ProbeUpper` and
`ProbeLower` when the directory cannot be listed), `currentBody`, `Files`
(`WalkRoot`, `Visit`, `WalkEnd`), the sizes (`SizeOf`), `Reply`, and `StatFile`
and `ReadFile` for a resource. A resource that does not stat goes through the
same walk, for `noSuchFile` lists the files in its message and fails as the walk
does. `Edit` changes one thing of the directory; `Discover` replaces the
catalog's skill by one loaded now, or withdraws it, while calls keep the skill
their tool was made with.

`SkillTool` implements `ToolPromise`: `Promise` is an instance of it in which
the path, the skill and the answer of a call are the fields of its record, and
`PromiseSpec`, its specification, is a property of `Spec`. `during` is the
history variable the promise speaks of.

### DirGuard

A source made by `Dir`, over a tree of files, directories and links anywhere.
`Dir` resolves its argument once. An operation is two steps, `Check` (resolve
the path, compare it with the root) and `DoIt` (`os.DirFS` resolves it again),
and `Edit` may put anything anywhere in between. Resolution follows the first
link on the way until there is none; a chain longer than `MaxHops` is a loop.
`Files` is what the walk of load.go:155-183 keeps of a tree that stands still.
`SkillDisk` takes the outcome of one guarded call (`link`, `dirlink`, `refused`,
`loop`) where this module computes it.

### Release

Clones of one origin, each idle or in a step of `make release`: `Start` (the
gates, the changelog dated), `CommitRelease`, `ReadPublished` and `Guard` (the
two halves of `release-guard.sh`, with `ls-remote` between them and the push),
`WriteTag`, `Push`. Any step may fail (`Fail`), and a push that landed may be
answered with a failure. `Undo` is what the comments prescribe: `git reset
--hard`, and `git tag -d` or not. Developers edit at any time, commit, push and
rebase onto origin from the merge base (`Base`), with or without the tags. A
history is the sequence of its commits and
a tag names a history, so that "the commit a tag names is on the branch" is that
one sequence begins the other.

### RuleScan

`Skill.Rules`: `SkipSpace`, `Take` and `EndSplit` are the turns of the loop of
`splitRules`, one per character, and `Parse` is one call of `parseRule`.
`RulesReadGrammar` compares the result with the field's grammar stated by
counting parentheses, without a scanner.

### Frontmatter

A file is read (`Open`, `ScanLine`, `Unmarshal`, `ParseKey`), validated
(`Report`), given to the three commands in any order (`Command`), written back
(`Encode`) and read again in round 2. Text is a sequence of character classes
(`"a"`, `"A"`, `"-"`, `":"`, `"space"`), so trimming, the name rules and
`listable` are computed. `FilesAssumption` says what a file is: at least one
line, the values of its entries text, lists or mappings. The YAML library is
external: a frontmatter of entries is a mapping, of text a scalar, of both no
YAML, and decoding a mapping that repeats a key fails. The value of a key the
specification does not define goes through a Go value of any type and back
(`Decoded`, `Reencoded`): a scalar has the form YAML resolves it by (a word,
digits, a fraction, a fraction of zeroes), a number with a fraction becomes a
`float64`, and a whole one is written without its fraction. Numbers are below a
million, where the encoder writes no exponent. The encoder may refuse
(`EncodeFails`), whatever the value: which values it refuses is the library's.

The `MC...` modules give the constants their values. Definitions headed `Bug:`
are the faulty variants with which each property is shown to be able to fail.

## Runs

| Run | Question | Bounds |
| --- | --- | --- |
| `discovery` | do names resolve as PATH does, and does each shadowed skill name its holder; is anything lost, do locations collide, are they spelled as listed; what survives edits between any two reads? | names: 3 sources x 2 directories, every choice of qualifiers out of two, a bare name, a name with a colon, a skill with no description; trees: 2 sources x 2 directories, 12 kinds of entry, 5 kinds of second source, a host that folds case or not; for one pair of sources 4 contents and edits without bound |
| `tool_read` | does a call implement the promise, serve what it claimed, and end? | 1 call, 5 paths, 2 resources, 5 classes of bytes, 2 edits, skill files and resources that read or not, listable or not, folding case or not, loaded or built |
| `dir_guard` | is what is served of a still tree inside, what is refused outside, what is listed served? | a root with 3 places, a sibling whose name begins with the root's, a link to the root, every tree over 5 links, 7 paths, 1 edit |
| `release` | do versions ascend, and are a version and its commit published together? | 2 clones, 2 versions above the first, 4 commits |
| `rules_grammar` | does `Rules` read its grammar? | every field of up to 6 characters of 5 classes |
| `frontmatter` | is each value held or reported, and a file validated, used and written back as the skill it was? | 24225 files and directories |
| `tool_changed`, `tool_built`, `dir_guard_turned`, `frontmatter_twice`, `frontmatter_loss`, `frontmatter_empty` | findings, below | |

Why the bounds are enough. Shadowing needs a holder of the bare name, a holder
of the qualified one and a third skill that wants it: three sources, and two
directories so that one source can hold a name twice. A colliding location
needs two sources. The races of a tool call are between a read and the next
one on the same file: one edit decides each, and the second lets one edit be
undone or two files change. Calls share no state but the directory and the
catalog, which no call writes, so one call against the editor shows what any
number would. `discovery` starts from the trees its list of sources is for
(`Trees`) and edits those of one list (`EditedLists`), on which every property
is checked but `Accounted` and `SpelledAsListed`, which speak of trees that
stand still. A race of the directory
guard is one link turned between the two steps: one edit. The closest shave of
a release is a stale clone that pulls the other's release without its tag and
then releases below it: two commits each. Six
characters hold two tokens, a nested pair inside a specifier, and each error.
Names of five characters under a limit of four reach every rule.

Every run that passes allows the system to stop (`CHECK_DEADLOCK FALSE`): each
call ends, edits and commits are bounded.

## Fairness

Only `Answered` needs it: weak fairness of each call's steps. It is what the
code has: a step is a call of `fs.FS` followed by computation without locks,
and such a call returns. Nothing is assumed of the editor or the product, and
`Answered` holds although they may act between any two steps: no step of a
call waits for another actor or starts over.

## Findings

- `tool_changed`: tool.go:143-144 and 286-288 promise `ErrSkillChanged` for a
  skill file that is gone or no longer parses. One that goes between the listing
  and the read (load.go:82-85) is refused with a plain read error instead; and
  `currentBody` splits the fence only (tool.go:361), so frontmatter that is no
  longer YAML is served with `FrontmatterChanged` set. TLC stops at the first of
  the two; with `-continue` it reports both.
- `dir_guard_turned`: docs/source.md:135-137 demands that a path that resolves
  outside the root is refused for every operation. `check` resolves the path and
  `os.DirFS` resolves it again (load.go:241-295): a link turned in between is
  followed outside and its bytes are returned. What holds under edits is that a
  tree that stood still during the operation serves nothing from outside
  (`StillContained`).
- `frontmatter_loss`: parse.go:180 says that `Parse(Encode(s))` yields `s`, and
  skill.go:81-85 that unknown keys are re-encoded without loss. `version: 1.0` is
  decoded to the `float64` 1, written as `1` and read back as an int. `RoundTrip`
  states that this is the only difference.
- `tool_built`: a path asked of a skill with no FS panics in `fs.Stat`
  (tool.go:373), where `Files` and `Open` guard the nil FS.
- `frontmatter_twice`: a key written twice in `metadata` parses, the last pair
  standing; parse.go:47-51 says a repeated key is a YAML failure.
- `frontmatter_empty`: `read-properties` and `to-prompt` succeed on a skill
  whose name or description is a list, and show an empty name or nothing;
  main.go:141-142 says an empty one is an error.

## Proofs

`tlapm` checks these for every value of the constants; nothing is assumed but
the named ASSUMEs of the modules, which say what an input is: a source and its
tree, a skill's directory, a place, a file, a version. They hold of the
instances TLC runs, which evaluates each of them. Each invariant below was
checked by TLC on the run of its module before it was proved.

### Discovery

`DiscoveryProofs` has the types and unique names. `TypeCorrect` takes one case
per action; its weight is in `AddSkillType`: the name a skill is listed under is
a name, and the location a shadowed skill is given is a location, because claims
are held by loaded skills of sources already begun. `NamesUnique` is not
inductive, for nothing in it says that the next name is free: `NamesInv` adds
that the listed name of every listable skill is a key of `seen`, and a skill is
appended under a name only when the name is no key.

`CatalogProofs` has the rest, in three layers.

1. `SearchInv`: the search goes forward. `Past` orders what has been visited,
   the catalog and `Problems` are of the past, the entry the search is at is
   not, and the sources begun have locations of their own. It gives
   `LocationsDistinctAlways`, and the action properties `ProblemsStandAlways`
   and `NothingVanishesAlways`: a report is made at a location that holds none,
   and the entry leaves the search only as a skill or a report.
2. `ClaimInv`: who holds a name. Each key of `seen` is held by the first skill
   found that wanted it, each listed skill holds the name it is listed under,
   each shadowed one lost to the holder it names. It gives
   `ColonMeansQualifiedAlways`, `ShadowedByHolderAlways` and
   `PathResolutionAlways`, the resolution as PATH does it, stated without
   `seen`: by who comes before whom.
3. `StillInv`, of trees nobody edits: what is still to be visited is as listed,
   and whatever of the past holds something like a skill file is in the catalog
   or in `Problems`. It gives `AccountedAlways` and `SpelledAsListedAlways`.

Layers 1 and 2 cover trees edited between any two reads.

### Skill tool

`SkillToolProofs`: `IInv` says of each call, per step, that what its locals hold
was so of one of the directories seen *during* it: the spelling it looks for was
listed, the body is that of the claimed file in one directory together with
`changed`, what the walk kept was a file and what was a file throughout was kept
or is still to be visited, each size was the file's. That these witnesses stay
is why `during` only grows, and that a running call has the directory of now
among them is why a read may be its own witness. `ServedIsClaimedAlways`
follows, and `PromiseKept`, the refinement: `Init` maps to the promise's
initial states, and each step to a step of `ToolPromise` or to a stutter, the
step that answers being allowed by the witnesses. A refusal has two: a name was
listed in one directory and did not read in another, or there was no listing in
one and a probe failed, or found nothing, in another (`Naming`, `ChangeCauses`,
`UnreadCauses`).

### Directory guard

`DirGuardProofs`: the invariant is that of what an operation found, the path was
let through in *one* tree of the call and was resolved in *another*.
Of a tree that stood still the two are one, and what is served is under the
root (`StillContainedAlways`), which uses nothing of resolution but that it ends
at a place or in an error. Of a tree that moves, nothing is: see
`dir_guard_turned`.

`RefusedLeadsOutAlways` looks into it. Below a root that stands, links that lead
under the root keep every path under it (`StaysUnder`: the first link on the way
is never above the root, for what stands stands in directories, `Ancestors`),
and what each hop keeps any number of hops keeps (`FollowedIn`, by
`SetInduction`). That the root stands until somebody edits is the part of the
invariant it needs. `ListedIsServedAlways` is a fact about every tree
(`Listed`): a path without a link on it leads to its own place (`Straight`).

### Rules

`RuleScanProofs`: `TypeCorrect`, `SlicesInRangeAlways` and `TokensBeginAlways`,
for fields of any length, from `ScanInv`, which adds that a token begun starts
at a character that is no space, holds no space before its first parenthesis,
and that the scanner is past it. That `depth`
stays a natural number is the code's early return at an unmatched parenthesis.

`RulesReadGrammarAlways` is the correctness of `Skill.Rules`: what it accepts
and returns is what the grammar says, which counts parentheses and knows no
scanner. `ReadInv` ties the two. While splitting, `depth` is the difference of
the counts (`Counted`), the token begun is a span of the grammar as far as it
goes (`Bounded`), and the tokens are the spans ended so far, each at its rank
(`Listed`); while parsing, the rules and then the tokens left are all spans. A
step needs that the span that ends at the scanner is the next in rank
(`NextSpan`), that a span of a field whose parentheses match has matching
parentheses (`SpanNested`), and that for such a token `parseRule` and the grammar
agree (`RuleIsToken`, `TokenIsRule`, `WritesBack`): its scan stops at the first
place where as many are closed as opened, which `Closes` finds as a least
element. `NotUnmatched` gives `UnmatchedFoundFirstAlways`.

### Frontmatter

`FrontmatterProofs` covers files of any length, any name and any limit. `IInv`
has three parts that the properties need and do not say. `AsRead(s, front, n)`:
the skill is made of the first `n` entries and of nothing else, each key once,
which is what makes `ParseKey` lose nothing. `Rewritten`: in round 2 the file is
`Encoded(kept[1])` of a skill that was read and of whose problems `kept[2]`
tells. `Ran`: what the commands said is what the skill they were run on makes
them say. From these:

- `HeldOrReportedAlways` is `AsRead` of the whole frontmatter; for `metadata` it
  compares the values, of the pairs of one key the last (`LastStands`);
- `HiddenIsReportedAlways` and `NameGrammarAlways` are facts about `Validate`
  alone (`Hidden`, `NameJudged`), given that a field of a missing key or of the
  wrong shape is empty. The name rules, a list of things a name must not hold,
  are shown to be the grammar, a statement of what it is (`Flawless`);
- `RoundTripAlways`: `Frontmatter(sk)` is put together of blocks, each a
  sequence of entries of a set of keys; blocks of disjoint keys join to a block
  (`Joined`), so the whole writes each key once and is split at the fence that
  follows it although the body may hold others (`SecondRound`); and a skill
  made of those entries is the skill (`ReadBack`), for trimming twice is
  trimming once and the last of the pairs of a key is the only one. A value of
  another key settles when it is written once (`PlainSettles`, `Settles`): a whole
  `float64` comes back as an int, anything else as itself;
- `VerdictKeptAlways` compares the errors of two skills with equal fields;
- `ValidIsPromptedAlways` from `Ran`: no error means that neither refusal of
  `load` applies and that the skill is listable.

### Release

`ReleaseProofs`: `TagsOnBranch` and `PublishedAscend` speak of origin, and what
keeps them is what a clone may push. `IInv` says that a commit a clone has in
common with origin stands in the merge base (`Aligned`), that one it shares with
another clone is on origin (`Owned`), that a release commit not on origin is
HEAD of the release that runs (`Unreleased`), and, the point of the procedure,
that what the guard read is still all there is as long as origin would take the
push (`Floor`): any publication since has moved origin off the clone's branch.
That is why it is enough to push the branch and the tag in one transaction.

### Numbers

`NatSets` has induction over the natural numbers for *sets* of them
(`SetInduction`, `Least`, `Greatest`), from the well-foundedness of `<`: an
induction over an operator is beyond the provers, one over a set is not.

Only model-checked: `Answered`, that a call ends, for liveness is out of the prover's reach. Every
invariant and action property of the passing runs, and the refinement, is a
theorem.

## Not modelled

- the wording and layout of `Prompt`, `Usage`, messages and JSON, HTML
  escaping, and the digests (equality of contents stands for equality of
  digests);
- the tables of `detect` and `http.DetectContentType`: extensions and bytes come
  in the classes they make;
- in the skill tool, a directory named like the skill file, and on a host that
  folds case a skill file of a third spelling, which `Discovery` has;
- which values the YAML encoder refuses, and numbers from a million on;
- of the operations of `dirFS`, the race inside one `EvalSymlinks`, which reads
  the path element by element;
- usage errors of the command and `to-prompt` of several directories;
- Unicode: lengths are of characters, and normalisation is left out;
- the YAML library, `agenttool`, and the product, which appears as an
  environment that edits, discovers again and calls;
- of a release, the text of the changelog and of the notes, versions that are
  not `vX.Y.Z` (`sort -V` puts a pre-release above its release and the guard
  takes any `v*`), and releases cut from several branches at once, where the
  order in which two of them reach origin is not guarded: versions are numbers
  and there is one branch. It is assumed that a release that failed is undone
  before other work, as CONTRIBUTING.md and the Makefile say.

## Plan

Done: all modules, and a theorem for every safety property that a passing run
checks.
