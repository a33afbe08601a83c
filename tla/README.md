# Verification of codex-recall

`codex-recall` (`cxq`) finds and searches the conversations Codex keeps as
JSONL rollout files. The files belong to Codex and change while `cxq` runs;
`cxq index` derives a SQLite/FTS5 index from them. This directory holds TLA+
specifications of the parts where that can go wrong, TLC configurations that
check them on small instances, and TLAPS proofs of what must hold for every
instance. Paths such as `indexer.go:213` are below `src/internal/` or
`src/cmd/cxq/`.

## 1. The system

| Component | State it keeps | Operations | What is hard |
|---|---|---|---|
| Rollout files (Codex, the user; external) | the files below `sessions` and `archived_sessions` | create, append, touch, archive, restore, remove | happens between any two reads of `cxq` |
| Session catalog (`codex/discover.go`, `catalog.go`, `parser.go`) | none | walk both roots, parse, keep the newest copy of each session | files move and directories vanish during the walk; unreadable files |
| Index refresh (`indexer/indexer.go`) | the locals of one run | `BuildWithOptions`: fingerprint, hash, decode, batched replacement, fingerprint update, stale deletion | three reads of a growing file; decisions on a snapshot of the index; cancellation; batches; a second refresh |
| SQLite index, writes (`index/sqlite.go`) | `sessions`, `messages`, `messages_fts` | upsert, replace, delete, all transactional | failures between statements; FTS without foreign keys; rowid reuse; `UNIQUE(rollout_path)` |
| Schema and migration (`index/schema.go`, `sqlite.go:46-103`) | `user_version`, the tables' shape | open, migrate from versions 0 to 4 | version read outside the transaction; crash between migrations; two openers |
| Live search (`codex/search.go`, `candidates.go`) | the locals of one search | candidates (ripgrep or walk), rank, scan, limit | three passes over moving files; a prefilter with another notion of matching; cancellation |
| Index search (`index/search.go`) | none | FTS5 or substring scan, one match per session | the two backends against each other |
| Conversation decoding (`codex/conversation.go`, `rollout.go`) | last role, text and record type | collapse of duplicate representations | interleaved or repeated records |
| Session lookup (`codex/session_lookup.go`, `catalog.go:76`) | none | `Resolve` by id or prefix | dropped parse errors |
| Indexed search, status, compare, pack (`indexer/*.go`) | none | stat and open the database, query; compare with live search | stat-then-open; two reads at two moments |
| Refresh lifecycle (`indexer/lifecycle.go`) | none | prepare, open, build, close | joined errors |
| Command line (`cmd/cxq`) | none | flags, output, Ctrl+C | when a cancelled run may report success |

They interact through three things only: the rollout files (written by Codex,
read by everything), the database file (written by a refresh, read by the
indexed commands, possibly several processes at once), and the context that
Ctrl+C cancels. There are no threads or callbacks of the program's own: the
concurrency is between processes.

What makes each correct:

- *Refresh*: it never skips a session whose messages it lacks; what is stored
  belongs together; stale deletion spares what exists; a clean run over quiet
  files leaves exactly the catalog; repeated, it converges.
- *SQLite index*: every operation is atomic, and the lexical table is the
  message table, row by row.
- *Migration*: no message is lost, the recorded version is the real shape, and
  every process gets in.
- *Live search*: exact over quiet files; over changing ones, no silent loss;
  cancelled, no success.
- *Catalog*: a session that exists throughout is found or there is a warning.
- *Lookup*: candidates chosen by file name decide as the whole catalog would.
- *Conversation*: a reader is shown each message once, however it was recorded.
- *Indexed commands*: they make no index, and a comparison accounts for every
  session of both backends once.

## 2. The modules

| Module | Models | Uses |
|---|---|---|
| `Sessions` | the session ids | |
| `RolloutFiles` | the files, what Codex and the user do to them, how one file is read | `Sessions` |
| `Discovery` | what a walk of one root may list | `RolloutFiles` |
| `IndexStore` | the index as its callers see it: one transaction, one step | `Sessions` |
| `IndexContract` | the abstract specification over `IndexStore` | `IndexStore` |
| `SqliteIndex` | `sqlite.go` statement by statement; implements `IndexContract` | `Sessions` |
| `IndexSearch` | `search.go` of the index, over the committed tables | `SqliteIndex` |
| `Refresh` | `cxq index`: `BuildWithOptions` over the catalog and the index | `Discovery`, `IndexStore` |
| `Migration` | opening the database | |
| `SearchText` | texts: what a reader sees, what ripgrep reads, what the index stores | |
| `LiveSearch` | `cxq search` | `Discovery`, `SearchText` |
| `Conversation` | `ReadConversation`, a fold over the records of a rollout | `SearchText` |
| `Lookup` | `cxq show`, `open`, `resume` and `list` | `Discovery`, `Conversation` |
| `IndexedCommands` | `cxq search --index`, `pack`, `status`, `compare` | `LiveSearch` |
| `Commands` | the read-only commands together, on one Codex home | `IndexedCommands`, `Lookup` |
| `RefreshProofs` | theorems about `Refresh`: types, and what may be skipped | `Refresh` |
| `RefreshOutcomes` | theorems about `Refresh`: any number of runs (deletion, fingerprints), and a clean run | `RefreshProofs` |
| `SqliteProofs` | theorems about `SqliteIndex`, the refinement among them | `SqliteIndex` |
| `IndexSearchProofs` | theorems about `IndexSearch` | `IndexSearch`, `SqliteProofs` |
| `MigrationProofs` | theorems about `Migration` | `Migration` |
| `SearchProofs` | theorems about live search among the commands | `Commands` |
| `LookupProofs` | theorems about `Lookup` among the commands | `SearchProofs` |
| `IndexedProofs` | theorems about `IndexedCommands` among the commands | `SearchProofs` |
| `MC*` | instances for TLC | |

Definitions whose comment begins "A slip" are not part of a specification:
each is a definition changed the way a plausible bug would change it, and the
property it is paired with in `PROJECT.json` must then fail.

### Files (`RolloutFiles`)

A file is `[sid, len, mtime]`: whose session it is, how many records have been
written, and when. README.md:212 of the program says its fast path "treats
Codex rollout files as append-only data", so session and length determine the
bytes, their hash and the decoded conversation, and `Bytes(p)` stands for all
three. `len` also stands for the size. An append may leave `mtime` as it was
(a coarse clock). `high[p][s]` remembers how long a rollout has ever been at a
path: what reappears there (a restore, a move) is never shorter. `MayHold` says
whose rollouts may appear at a path; `MoveBack` whether they leave the archive.
A file that has no record yet parses only when its name carries the id.

### The walk (`Discovery`)

`WalkDir` reads directories one after another. An empty directory may be
removed after its parent was read and before its own turn; the walk of that
root then ends in `os.ErrNotExist`, which `discover.go:59` takes for "no such
root". `Listings(root)` are the two outcomes: all files of the root, or those
in the directories before a vanished one. The files change between the walks of
the two roots, not within one. In `Refresh` the short walk is a fault
(`DirectoryVanishes`), in the searches and lookups an outcome of every walk.

### Index (`IndexStore`, `IndexContract`, `SqliteIndex`)

`sess[s]` is the row of a session, `docs[s]` its messages. `ReplaceSessions`,
`UpsertSessions`, `ReplaceMessages` and `DeleteSession` are the methods of
`SQLiteIndex`; `Admissible` is the immediate `UNIQUE` constraint on
`rollout_path`, entry by entry in the order of the batch. `SqliteIndex` carries
the same operations out on three tables: `db` is what is committed, `tx` what
the one connection sees, `call` where the operation stands. `Rollback` is
enabled at every statement and stands for every failure. `ImplementsContract`
is the refinement: seen through committed tables, each operation is one step.
That justifies the single-step store of `Refresh`.

`IndexSearch` adds the reading side: one `SELECT` reads one snapshot, so
`Search(o)` is the set of answers a search with options `o` may give on the
committed tables, one for every order of rows SQLite may choose (`bm25` is any
order; the substring scan sorts by the stored timestamp and the ordinal). A
timestamp is compared as the text `formatTime` stores: `RFC3339Nano` drops
trailing zeros, so that within one second the order of the texts is not that of
the instants, and `ShortSearchNewest` promises the order of whole seconds only.
`Keep` is the loop over the rows. The answers are compared in every reachable state
with what the sessions' messages say.

### Refresh

`job[r]` is the frame of `BuildWithOptions` in process `r`; `pc` names the
call it makes next. Each read of a file (`Visit` stats, `Hash` and `Decode`
open and read), each database call (`Load`, `Flush`, `FlushFp`, `Stale`) and
each walk of a root is one step, and `Codex`, another refresher or a `Fault`
(cancellation, error, crash) can act between any two. `loaded` is the snapshot
of `store.Sessions`, `pend` and `pendFp` the two batches, `gone` the stale
candidates. A failed or cancelled read inside the loop becomes a warning
(`soft`); a warning of the catalog (`warned`) holds stale deletion back; the
two are different variables because the code treats them differently
(`indexer.go:289`). `kept`, `quiet` and `cut` are history the properties read.

### Migration

`opener[o]` is a process inside `OpenSQLite`: `ReadVersion` outside the
transaction, `Begin`, one `Migrate` per version, `Commit`. A migration is a
set-valued operator from a database to those it may become, because SQLite
chooses the rowids of an `INSERT` that names none. Locks follow SQLite's
rollback journal, which is the default the code leaves in place: shared for
readers, reserved for the first writer, and a commit that waits to be alone.
A database newer than the program is refused for ever, so the run disables
deadlock checking.

### Live search

One search at a time, since it only reads. `search` is the frame of
`SearchContext`. ripgrep visits the roots in any order and lists what matches
in raw JSON; failing, it hands over to the walk. `Parse` and `Rank` read the
metadata, `ScanRanked` and `ScanBroken` the content, `Identify` the metadata of
a match whose candidate had none. Texts are short sequences of symbols:
letters, space, newline, a quote (escaped by every JSON writer) and an angle
bracket (escaped by Go's). The position of the match in a session, not the
text itself, is what the rest of the model uses.

### Conversation and lookup

`ReadConversation` is a fold of `VisitRecord` over records `[type, role,
parts]`. What Codex writes is the other half of the module: each message as one
record or as two of different types that say the same up to white space, with a
record between them that is no message or says nothing (`Noise`, `Writings`).
`Readings` pairs what was said with what the decoder shows, for every transcript of
at most `MaxSaid` messages.

`lookup` is the frame of `Resolve` and of the command that calls it: the two
walks, the choice of candidates by file name (a standard name carries its id,
any other may hold any session), one step for every file parsed, the choice
among those known, and what is done with the one chosen. `cxq list` is the
lookup without a selector. A parse error is forgotten by `Resolve` and a warning
of `list`: `dropped` remembers it for the properties.

### The indexed commands, and all together

`command` is the frame of `indexer.Search`, `Status` or `Compare`: `Stat`,
`Open`, the query, for `Status` a second `os.Stat`. `database` says whether the
file is there; other processes remove and make it. What it holds is chosen when
it is asked: any index a refresh may have left of the files as they were at some
time (`Indexes`), the empty one of a new database among them. The query
returns distinct sessions, at most `limit`, in any order, which is what
`IndexSearch` is proved to do (`SearchesAreComplete`). `Compare` begins where a live search has
returned. `Classify` is its two loops.

`Commands` runs them one at a time, each as a process of its own while Codex
writes. A process that is over waits for nothing and prints what it has: `Exit`
may come before the next change of a file, and `FilesChange` asks for it, which
loses no behaviour and saves TLC the changes nobody sees.

## 3. The runs

| Run | Instance | What it shows |
|---|---|---|
| `sqlite_index` | 2 sessions, 2 paths, 2 times, batches of 1 and 2, message lists up to 2 with a repeated ordinal, 6 rowids; a short and a long query, limits 1 and 2, with a filter and without | type, `LexicalSync`, `NoOrphans`, `AssignedRowidFree`, `SearchComplete`, `ShortSearchNewest`, and the refinement `ImplementsContract` |
| `refresh` | sessions A (active and archived path) and B, 2 records, 2 changes, 1 fault, batch of 2, runs without end | seven invariants and `LiveSessionKept` |
| `converge` | the same, 1 record, batch of 1 | `Converges` |
| `concurrent` | 2 refreshers, 1 session | `FingerprintNotAhead` |
| `concurrent_lost` | the same | *violated*: `MessagesCoverHash` |
| `refresh_move_back` | `refresh` with `MoveBack` | *violated*: `LiveSessionKept` |
| `refresh_cancel` | `refresh`, 1 record | *violated*: `CancelReported` |
| `wedge` | 2 sessions at one path | *violated*: `Converges` |
| `migration` | 2 openers, 2 messages, every version from 0 to newer, 1 fault | six properties, `EventuallyOpens` among them |
| `commands` | as `refresh`, 3 changes; limits 1 and 2, filters, ripgrep or not, Ctrl+C anywhere; two ids of which one begins the other, four selectors; conversations of two messages; a database that comes and goes | live search: `CleanSearchExact`, `NoSilentLoss`, `CancelReported`; lookup: `QuietLookupExact`, `LookupHeedsPresent`, `OnlyRepetitionsMerge`; indexed: `ExistingIndexOnly`, `ComparisonAccounts`, `QuietComparisonAgrees` |
| `ripgrep` | quiet files, a query of two words | *violated*: `RipgrepOnlyFilters` |
| `repeated_message` | `commands`, quiet files | *violated*: `RepetitionsAreShown` |

*Why the bounds are enough.* A refresh treats sessions independently except for
batches, the order of visits and path conflicts, which two sessions exercise;
three paths give one session two copies. Two records make a file grow twice, so
size, hash and messages can be taken at three different lengths, which is what
the safety argument is about. Two changes and one fault may fall between any
steps of any number of consecutive runs (there is no bound on runs). The
properties of `refresh`, `concurrent`, `sqlite_index` and `commands`, and those of
`migration` but liveness, are also proved for all bounds. Six rowids are twice what
two sessions store here: rowids are reused after the newest is deleted and drift
upwards otherwise, and the bound only cuts the drift off (an insertion beyond it
can do nothing but roll back). For migrations, two openers are enough for one to
start from a version the other has left behind, and two messages enough for rowids
to be permuted. `commands` has one change more than
a file needs to move and grow, and as many as it needs to be created, written
and archived under a command. Two messages, each recorded in any of the ways
Codex has, are all `VisitRecord` can tell apart: it compares a record with the
one before it. The query of `commands` ends in a space, which an indexed search trims and a live
one does not (`index/search.go:33`): a session can be index-only there for the
text, live-only for an older copy that ripgrep passes on alone, and in both.
Live-only for the text takes white space that live search normalises, which no
text of this run has (ripgrep would not list it); `QuietComparisonIsExact` covers it.
The selectors are a prefix of both ids, each id (of which one is
a prefix of the other) and one that is neither.

*Faults and fairness.* `MaxFaults` bounds crashes, errors, cancellations and
directories that vanish, because nothing converges under errors that never end.
`FairSpec` asks for weak fairness of `Start(r) \/ Work(r)`: a sequential process that
can take a step takes one, and the user runs `cxq index` again. No fairness is asked of
Codex, of faults or of any particular branch. In `Migration`, likewise, a
process goes on and is run again after a failure.

*Symmetry* is used over modification times and refreshers, in runs without
liveness properties only.

### Where the code disagrees with what it says

1. `concurrent_lost` (`indexer.go:213`): a fingerprint update planned from an
   old snapshot, written after another process replaced the messages with an
   older reading, leaves hash and size newer than the messages. Later runs
   skip the session, though `sqlite.go:170-172` says the hash is never ahead.
2. `refresh_move_back` (`discover.go:39`): a rollout restored from the archive
   between the two walks is in neither; its session is deleted without a
   warning, although its rollout exists. The next refresh restores it.
3. `refresh_cancel` (`indexer.go:207`): Ctrl+C while the last file is read ends
   in success with a warning about that file.
4. `wedge` (`indexer.go:281`): when a path comes to hold another session, the
   row written first conflicts with the row deleted later, and every refresh
   from then on fails.
5. `ripgrep` (`candidates.go:117`): the prefilter drops messages that match
   once whitespace is normalised, and queries with `<`, `>` or `&`.
6. `repeated_message` (`conversation.go:48`): a duplicate representation is
   itself remembered as the last record, so that of a message said twice and
   recorded both times in both ways only one copy is left. Recorded once each,
   both are kept, as `conversation_test.go:74` wants.

Smaller things the passing properties make room for, each named in the property
that does: a directory that vanishes during a walk hides the rest of its root
without a warning (`LiveSessionKept`, `NoSilentLoss`, `LookupHeedsPresent`; the
next refresh recovers, which `Converges` shows); `Resolve` drops parse errors,
so that a rollout that is unreadable for a moment makes an ambiguous prefix look
unique (`LookupHeedsPresent`); a database removed between `os.Stat` and
`OpenSQLite` is made anew, empty (`ExistingIndexOnly`); the substring scan orders
within one second by text (`ShortSearchNewest`); a live search may return a
session twice when its rollout is archived under it, which `Compare` alone
removes (`ComparisonAccounts`); and a match in a rollout that had no readable
metadata when it was ranked is not put through `--project` and `--source`. The
last is only described: while nothing changes `CleanSearchExact` rules it out, but
no property is about a rollout that becomes readable during the search.

## 4. What is proved

The theorems hold for any sets of sessions, paths, refreshers, times, rows and
batches, and any bounds. They use the assumptions named in the modules: bounds
are natural numbers, archived paths sort before active ones
("archived_sessions" < "sessions"), the values that stand for "nothing" are not
data (`NoneAssumption`, `UnsetAssumption`), a conversation is a sequence as long
as its rollout (`SearchAssumption`), the fields that answers are ordered by are
numbers and digits (`OrderAssumption`), a batch is not empty and has each session
once, and a record that says nothing is no message (`ConversationAssumption`). Whatever else a theorem assumes stands in its statement.

About `Refresh`:

- `TypeCorrect` (`RefreshProofs`): `Spec => []TypeOK`, with no further
  assumption. `TypeInv` splits the type invariant into files, store, jobs and
  history, and there is a lemma per step.
- `SkipsAreSound`, `HashSkipsAreSound`, `HashNotAhead` and `NoRowWithoutMessages`
  (`RefreshProofs`): a session the next refresh would skip, on fingerprint or on
  hash, has exactly the messages of its file; every row has messages, its own
  session's, that cover its hash. Assumed: `OneAtATime` (one refresher,
  necessary: `concurrent_lost`) and `NoSharedPath` (a path is not taken over by
  another session).
- `CleanRefreshesMirror` (`RefreshOutcomes`): a refresh that ends clean while
  nothing changed leaves the catalog, no more and no less. Under the same two
  assumptions.
- `LiveSessionsAreKept` (`RefreshOutcomes`): stale deletion spares every
  session that has had a readable rollout since the run began, unless it lay
  behind a directory that vanished during the walk. For any number of
  refreshers; assumed are `NoSharedPath` and `~MoveBack` (necessary:
  `refresh_move_back`).
- `FingerprintNeverAhead` (`RefreshOutcomes`): no row's size passes the
  content its hash was taken of, for any number of refreshers. Assumed:
  `NoSharedPath`. It is what remains of the chain below when several run.

About `SqliteIndex`, with no further assumption:

- `TypeCorrect`, `TablesStayTogether` (`LexicalSync`), `MessagesHaveSessions`
  (`NoOrphans`) and `RowidsAreFree` (`AssignedRowidFree`), in `SqliteProofs`.
- `WritesAreAtomic`: `Spec => ImplementsContract`.

About the searches of the index, with no further assumption, in
`IndexSearchProofs`:

- `SearchesAreComplete` (`SearchComplete`): both backends return distinct sessions
  that have the query, and all of them unless the limit is reached.
- `ShortSearchesAreNewest` (`ShortSearchNewest`): a limited short search leaves out
  no session of a later second than one it returns, and shows of each the first
  message that has the query.

About `Migration`, for any number of processes, messages, rowids and faults:

- `TypeCorrect`, `VersionIsShape` (`ShapeMatchesVersion`), `NothingIsLost`
  (`MessagesKept`), `OpenIsReady` (`OpenedReady`) and `VersionOnlyRises`
  (`VersionNeverFalls`), in `MigrationProofs`.

About live search, as one of the commands that run one after another
(`CommandsSpec`), in `SearchProofs`:

- `SearchTypeCorrect` (`TypeOK`) and `CancelledIsReported` (`CancelReported`),
  with no further assumption.
- `NothingLostSilently` (`NoSilentLoss`): a session all of whose copies have
  matched since the search began is reported, if there is room, unless there is
  a warning or a directory vanished during the walk. Assumed: `NoSharedPath` and
  `~MoveBack`, as for deletion.
- `QuietSearchIsExact` (`CleanSearchExact`): while nothing changes, a search
  returns what matches, newest first. Assumed: `FilterIsExact`, that ripgrep
  lists what matches to a reader (run `ripgrep` shows what happens otherwise).
  `QuietScanIsExact` has the same of the built-in scanner without assumption.

About the lookups, in `LookupProofs`:

- `LookupTypeCorrect` (`LookupTypeOK`) and `QuietLookupIsExact`
  (`QuietLookupExact`), with no further assumption.
- `LookupIsHeedful` (`LookupHeedsPresent`): a session that has been readable
  since the lookup began is heeded. Assumed: `NoSharedPath` and `~MoveBack`.
- `OnlyRepetitionsAreMerged` (`OnlyRepetitionsMerge`), for conversations of any
  length and any contents, with no further assumption.

About the indexed commands, in `IndexedProofs`, for any finite set of sessions
(`FiniteSessions`: the answers of the index are sequences without repetitions,
as long as there are sessions to find):

- `IndexedTypeCorrect` (`IndexedTypeOK`), `NoIndexIsMade` (`ExistingIndexOnly`)
  and `ComparisonIsComplete` (`ComparisonAccounts`).
  The latter covers the order of the entries, of both halves.
- `QuietComparisonIsExact` (`QuietComparisonAgrees`). The property is about the
  built-in scanner with any query, and about ripgrep with queries for which it
  lists what matches to a reader; nothing else is assumed.

*The argument for skipping.* None of the three properties is inductive. What
is, is a chain: on an append-only file the size is taken before the hash and
the hash before the messages, so
`size <= hash.len <= doc.len <= high[path][session]`. `IInv` states it for the
rows (`StoreInv`), for pending replacements and for the locals of a run in the
middle of a file (`PendingInv`, `ReadingInv`), and adds that a session not yet
decided still has the row the run loaded (`Undecided`), and that a planned
fingerprint update still concerns the row it was planned for
(`FingerprintOf`). `FilesInv` says a file is as long as it ever was, so that
equality at one end of the chain collapses it.

*The argument for deletion.* `KeptInv` follows a run through its stages: a
session in `kept` is at every moment in the files still to be walked, in those
still to be parsed, in the catalog, or there is a warning. Archiving only
moves a rollout from the root walked first to the one walked second, which is
why the order of the walks matters and why moving back breaks it. A walk cut
short at a vanished directory takes the sessions it has not seen out of `kept`:
the proof shows that these are all it can lose.

*The argument for a clean refresh.* `MInv` says what a run that has met no
trouble has behind it, while no file has changed (`quiet`): the catalog so far is
the newest copies among the paths parsed, in the order of the paths, which decides
between equally new ones; a session visited is in the index as its file is, or
pending so; one not visited is as it was loaded; and what is in the index and not
in the catalog is among the stale candidates. At the end nothing is unvisited,
pending or stale. That a session was skipped rightly is the chain again, of which
`MInv` contains `IInv`.

*The argument for the search.* It is the same for the two walks; what follows
takes two more passes over the files. `Followed` says where a session that lasts
is at each stage: in an active file that has been listed (`AfterActive`); among
the paths to be parsed, the known sessions or the paths without metadata
(`WhileParsing`); among what is still to be scanned or what has been reported,
or there is a warning (`WhileScanning`). The paths it is followed by may be
deserted at any time, so all that can be kept of them is `Good(p, s)`: if there
is a file at `p` at all, it can be read and is of `s`. That is stable, as files
are append-only, and enough: a `Good` path is either gone, which is a warning, or
a copy of the session, which matches.

*The argument for an exact search.* `Exactly` says, while nothing has changed and
no directory has vanished, what each stage has done of the whole: the candidates
of the roots visited are listed; each session is known by the newest of its
copies among the paths parsed (`KnownBest`); of the sessions scanned those that
match are the matches, in order, and the sessions still to be scanned are not
newer (`ScannedExactly`), so that the limit cuts off the oldest. A candidate
without metadata exists and is empty, therefore matches nothing, and the search
never has to identify one.

*The argument for a lookup.* While nothing changes, the sessions known after
some candidates have been read are those readable among them (`QInv`), and the
candidates that were left out by their names could not have decided. While files
change, `HInv` follows a session that is `present` as `Followed` does; once it is
known it stays known, so the choice among those known heeds it.

*The argument for a conversation.* `Told` relates what the visitor has seen to what
was said in the messages it has come to: the two are the same when squeezed, and
the visitor remembers the last one said. `ToldOnce`: a record of a new message keeps
this, whether it is appended or, being the last message again in the other type,
taken for its duplicate; `ToldTwice`: the second record of a message adds nothing.
Records compare equal as what they say is normalised, and `NormalTrim` shows that
trimming a text first makes no difference. The rest is about folds
(`FoldExists`, `FoldTurns`: the function a fold is computed with exists, and goes
turn by turn) and about finding each writing in the sequence of all records
(`Pieces`).

*The argument for a comparison.* The two loops of `Compare` are folds over what
the backends returned. `SetInduction` is induction over a set of numbers, by the
least one outside; with it `FoldExists` shows that the function the fold is
defined by exists, `AddNewTurns` what each turn adds, and `UniqueIds` that in the
end every id is there once, in the order of its first occurrence; what the second
loop adds after the first keeps its order too (`AddedInOrder`). `CInv` keeps
what the command has in its frame. For the quiet comparison `Agreeing` adds that
what the index returned is what it holds of the files, if it mirrors them: as
many distinct answers as there are hits are all of them.

*The argument for the fingerprint.* `FInv` says of each run, by its locals
alone, that the size it stat'ed is at most the hash it took since, and at most
the length of the file meanwhile; of every row and every pending row, that the
size is at most the hash. Nothing in it relates a run to the index or to
another run, which is why it holds for any number of them, and why nothing
about the messages follows.

*The argument for the tables.* Inside a transaction the two tables do differ.
`Difference` says by what, at each stage: while the lexical rows of a session
are deleted one by one, by the ids already taken out; before its messages are
deleted, by all of them; between the two insertions of a message, by that
message. With `Rooted` (every message of the open tables has a row) it is
inductive, and at the commit the difference is nothing. Rowids come from
`messages`, the one table, so that one free there is free in the other.

*The argument for the refinement.* Statements before the commit map to
stuttering, so the invariant has to remember what the transaction has done of
its batch. `Related(batch, n)`: `n` entries are behind it and the rest are to
do (`At`); the rows of the sessions behind it are as the operation leaves them,
those of the others untouched (`RowsDone`); so are the messages (`DocsDone`),
except, while messages are inserted, those of the current session, of which
what is stored and what is left make up the whole (`InsertedSoFar`); and no row
met another with its path when it was written (`Admitted`), which at the commit
is what `Admissible` asks of the batch.

*The argument for the index searches.* The join of the FTS5 search finds the text
it matched because the tables are in step and a session has an ordinal once;
`UInv` says the latter of the committed and the open tables and is kept by the
guard of `InsertMessage`, the primary key. `KeepTurns` turns the loop over the
rows into its turns, by induction as for `Compare`, and `Kept` is what a turn
preserves: each hit is the first row of its session that shows the query, and a
row that shows it and is of no session kept came after `limit` others. `Listed`
adds that an order of the rows misses none. For the order, `TextAfter` on stored
times is transitive and strict and the seconds come first in it, so neighbours
in order (`ORDER BY`) put any two rows in order (`NewestThroughout`).

*The argument for the migrations.* What makes the stale version harmless is
that nothing commits while another transaction is open: `TransactionOK` says
that a transaction works on the messages that are committed, and that its tables
have what the next migration needs (`Partway`). They have it because it put it
there or because it found it there, being late; `MigrationsLead` shows that a
migration leads from what one needs to what the next needs in either case. A
transaction that writes has gone through to version 5, whichever it began with.
That a rebuilt lexical table lists every message once, in whatever order SQLite
numbers them, is counting: as many rowids as messages, and every message.

## 5. What is only model-checked

- Liveness (`Converges`, `EventuallyOpens`): the prover has no fairness.
- The violated properties: a counterexample is all there is to show.

## 6. What is not modelled, and why

- Read errors other than a vanished file or a cancellation (an I/O error in the
  middle of a file takes the same branch as those), and records that are not
  valid JSON: the code skips them.
- The metadata in a row (timestamp, cwd, project, source): copied, never
  compared by the refresh. `ParsedID` relies on ids in names and metadata
  agreeing.
- Changes of the files within the walk of one root: a file that is created or
  moved between two of its directories. Codex moves rollouts between the roots
  only.
- Profiles, JSON and table output, snippets, flag parsing, external programs.
- Power loss: SQLite's journal is taken to be atomic and durable.
- Databases of older versions being written by older programs at the same time.

## 7. Plan

Done, in the order of importance: refresh with its files and store; the SQLite
writes and their contract; the first theorems; migration; live search; index
search; the walk by directories; conversations; lookup and list; the indexed
commands; all read-only commands together.

Next: the metadata of a session (`project`, `source`, `cwd`), from the rollout
to the row and through the filters of both backends, and with it the filter a
match without metadata escapes.

Every safety property the passing runs check is proved. Theorems worth having next:
what the searches' notions of matching have in common (`Matches`, `IndexMatches`,
`LineMatches`), from lemmas about `NormalTrim`'s parts.
