# mcp-nixreview in TLA+

This directory models and verifies the parts of `mcp-nixreview` whose
correctness depends on the order in which things happen: the hash-chained audit
ledger, the review state that every tool reads, and the closure attestation; and
the diff grader and the queries, which are pure functions.
The code is `src/src/mcp_nixreview` (paths below are relative to it). TLC checks
the models on small instances; TLAPS proves their safety properties for every instance,
some under an assumption on what may fail.

## 1. Inventory

| Part | State | Operations | Talks to |
|---|---|---|---|
| Audit ledger (`store.py`) | `audit.jsonl`, `audit.head.json`, the signing key, a `flock` on the ledger | `append_audit`, `_require_appendable`, `_last_hash`, `_save_trusted_head` | called by the four recording tools; other processes through the lock |
| Ledger verification (`store.py`, `verify_ledger`) | none; reads the files without the lock | `verify_chain`, `_walk_chain`, `_check_anchor` | ledger, sidecar, `reviews.json` |
| Ledger adoption (`adopt.py`, `store.py`) | none; writes the sidecar | `adopt_unsigned_ledger` | runs as a second process beside the server |
| Review store (`store.py`) | `reviews.json`, a `flock` on `reviews.lock` | `get_review`, `upsert_review`, `list_reviews` | the tools |
| Recording tools (`server.py`) | the review each handler holds between read and write | `review_diff`, `attest_closure`, `request_approval`, `approve` | review store, then ledger |
| Replay and reconciliation (`store.py`) | none | `replay_reviews`, `reconcile_reviews` | ledger, `reviews.json` |
| Grades (`grades.py`) | none | `grade_rank`, `grade_outranks` | tools and replay |
| KEV client (`clients/kev.py`) | `kev_cache.json` | `ensure_fresh`, `fetch_and_cache`, `lookup`, `status` | CISA's feed, over HTTP |
| Closure scan (`review/vulnix.py`) | none | `attest` | the `vulnix` program |
| Diff grader (`review/diff.py`) | none | `grade_diff` | `review_diff` |
| Queries (`server.py`) | none | `list_reviews`, `get_audit_log` | review store, ledger |
| Configuration, logging, health check, transport | settings | | |

What is hard, part by part, and what makes the part correct:

* **Ledger.** An append makes two writes (line, then sidecar) under a lock, and
  may stop anywhere: the process is killed, the disk is full, the rename fails,
  the container restarts with another key, the power fails and takes back what was
  not synced. Correct means: the chain never forks,
  what returned is there, a signed head is one this key produced over records
  that exist, and the lock is always freed.
* **Verification and adoption.** Both read sidecar and ledger without the lock.
  Correct means: a damaged ledger is not passed, a sound one is not reported, a
  changed one is noticed, and adoption signs only what it walked.
* **Reviews and tools.** Two files are written one after the other, nothing
  makes them one, and other workers interleave. Correct means: the two files
  agree except for a review whose call was cut or overlapped, a change to one
  review never touches another, a decision that settled stays in the ledger, and
  a reconciliation that runs meanwhile reports the reviews that disagree and no other.
* **Attestation.** Two awaits, a shared cache file, answers that overtake each
  other and fallbacks. Correct means: a grade says what it was made from (HIGH a listed CVE,
  MED a catalog that lists none of the CVEs, LOW a clean report), and what an answer misses
  without saying so is recent. What the code cannot read a second time is the exception.
* **Diff grader and queries.** No state; many rules, and the edges of slices, signs
  and time stamps. Correct means: the review of a diff finds what reviewing the
  result would newly find, the grade is the highest finding's, and the queries
  return the tail of the ledger and the newest reviews.

`PROJECT.json` lists the hazards at their lines, each with its properties.

## 2. Modules

| Module | Models | Kind |
|---|---|---|
| `HashChain` | record hashes, sidecar and MAC, `_walk_chain`, `_check_anchor`, `_require_appendable` as operators on data | pure |
| `AuditLog` | what the ledger promises: one log that grows by one event while the store accepts appends, and acknowledgements of the whole log | abstract specification |
| `Ledger` | `append_audit`, `adopt_unsigned_ledger`, `verify_chain` as interleaved processes, their failures, restarts | state machine, implements `AuditLog` |
| `LedgerProofs` | lemmas about ledgers, types, the chain | TLAPS |
| `VerifyProofs` | what `verify_chain` makes of `Ledger`, and of a ledger that was changed | TLAPS, on `LedgerProofs` and `MCLedger` |
| `SignProofs` | what is signed, what a keyed ledger keeps, the refinement of `AuditLog` | TLAPS, on `VerifyProofs` |
| `MCLedger` | ledgers one edit away from the real one, for the checks of verification | model checking |
| `Grades` | `grades.py` | pure |
| `ReviewData` | reviews, ledger events, what each tool does to a review, `replay_reviews`, the comparison of `reconcile_reviews` | pure |
| `ReviewGate` | what the tools promise: a call changes its review and enters the ledger in one step | abstract specification |
| `Reviews` | the four recording tools over `reviews.json` and the ledger, their failures, and a reconciliation beside them | state machine, implements `ReviewGate`, uses the ledger as `AuditLog` |
| `ReplayProofs` | lemmas about `ReviewData`, `replay_reviews` above all | TLAPS, on `ListProofs` |
| `ReviewsProofs` | theorems about `Reviews` | TLAPS, on `ReplayProofs` |
| `MCReviews` | symmetry | model checking |
| `Attestation` | `vulnix.attest`, `kev.py`, `refresh_kev_cache` and the grading half of `attest_closure` | state machine |
| `AttestationProofs` | theorems about `Attestation` | TLAPS |
| `MCAttestation` | symmetry | model checking |
| `Lists` | sorting and filtering, by position | pure |
| `ListProofs` | lemmas about numbers, folds, orders and what `Lists` gives | TLAPS |
| `DiffGrader` | `grade_diff` with its five detectors, the overall grade of `review_diff` | pure |
| `Queries` | `read_audit`, `list_reviews` and the tools over them | pure |
| `MCTools` | inputs for the two, built up element by element, and their properties | model checking |
| `ToolsProofs` | theorems about both | TLAPS, on `MCTools` and `ListProofs` |

They compose by abstraction. `Ledger` is shown (and on a disk that writes lines whole
proved) to implement `AuditLog`; `Reviews` uses that log, not the lines: its
`log` and `sealed` are those of `AuditLog`, and grow and change as `AuditLog` allows.
`Attestation` ends where the grade is known and `Reviews` starts there, with the grade as
input.

### How the models correspond to the code

**Hashes.** A hash is what it commits to: `RecordHash(content, prev)` is the
sequence of all contents chained so far, so hashes are equal exactly when they
commit to the same history, which is what SHA-256 is used for. A MAC is the key
and the two fields it covers. A line that is not JSON and a legacy record without
hashes are the same value, `Unchained`: the code treats them alike but for the
wording of a message. Blank lines, which the code skips, are left out.

**`Ledger`.** `ledger`, `openTail`, `head` are the disk (`openTail`: the last line
has no newline); `lock` is the `flock`; `key` the configured key; `pc` and `seen`
where each process is and which head it works from. `append_audit` is `Request`
(open the file), `Acquire` (lock, load the sidecar, last hash,
`_require_appendable`: nothing else can happen in between, because every writer of
these files holds the lock) or `Refuse`, `WriteLine`, and `SaveHead` (rename and
unlock). Each way it can fail is an action: `FailBeforeWrite`, `ShortWrite` (a part
of the line, or all but its newline, is on the disk), `FailAfterWrite` (fsync or the
sidecar failed), `FlushFails` followed by `CloseFlushes` or `CloseFails` (the file
object keeps what it could not flush and tries again when it is closed), and a
sidecar that exists and cannot be read, which counts as missing: `AcquireUnread`
without a key, `RefuseUnread` with one.
`adopt_unsigned_ledger` is `AdoptCheck`, `WalkLoadsHead` or `WalkLoadsNothing`, `AdoptWalk`
or `AdoptRefuses`, `AdoptSave`; `verify_chain` is `VerifyStart`, `WalkLoadsHead` or
`WalkLoadsNothing`, `VerifyWalkPasses` or `VerifyWalkFails`, `VerifyAnchor`. A walk is
atomic but for its load of the sidecar. Each of the three loads may fail to read it
(`HeadUnread`): the check of an adoption then takes a signed sidecar for one without a MAC,
a walk expects an empty ledger, and the anchor of a configured key is broken. `Restart`
ends every process and may change the key; so does `PowerLoss`, after which the sidecar is
the last one saved, one that was already synced (`durable`), or an empty file. The line itself is synced before the sidecar
is saved, so it stays. `acked`, `damaged`, `foul` and `calm` are history for the
properties.

**`Reviews`.** A worker runs handlers one at a time. The server is one worker: its
handlers are coroutines, but none awaits between its `get_review` and its
`append_audit`. More workers are threads (the repository's tests use them) or a
second process on the volume. A call is `Call`, `Get` or `GetNotFound`,
`LockAndLoad`, `Save` (map changed, file replaced, lock freed), `AppendEvent` or
`AppendRefused`; the failures are `SaveFails`, `AppendLost`, `AppendUnconfirmed`
(the line is there, the caller got an exception), `GetUnreadable` and
`LoadUnreadable` (`_load_reviews` answers `{}`), `Crash`, `PowerLoss` (`reviews.json`
is not synced; the ledger's lines are). `VerifyLoad` and `VerifyReplay` are the two
halves of `reconcile_reviews`, in a process that takes no lock. Reviews keep the four
fields that `REPLAYABLE_FIELDS` names. `review_diff`'s id is one nobody has used.

**`Attestation`.** Each action runs from one `await` to the next: the scan, then
(unless the cache is fresh or there is nothing to look up) the fetch. `reply` is
the catalog the feed has sent and when. It may take any time to arrive, because the
client's timeout is one on each wait for the network and not on the whole fetch, and
answers may overtake each other. `FetchFails` is `KevError` with the fallback of
`ensure_fresh`; `Breaks` is any other exception. `FeedSends` may send JSON without a list,
which makes an empty catalog. Any read of the cache file may fail (`Reads`): that of
`ensure_fresh`, that of its fallback, and the one `lookup` makes after them (`Answer`).
`via` is history: what an answer went by, and of what time. JSON that is no report counts
as a scan without findings, as in `_parse_vulnix_json`.

**`DiffGrader`.** A line is its mark (`+`, `-`, space, none, or one of the header
prefixes) and what the detectors' patterns can see of its body: the words they look
for, the right-hand side of its first assignment, and the kinds of numbers in it.
Each detector is the list of its rules in the order of its `if`s, and the first that
applies returns. A changed line whose own text begins with `++ ` or `-- ` looks like a
file header to the code and is one here.

**`Queries`.** The zone is a setting, `timezone`, and any zone may be set: an offset ahead of
UTC or behind it before the clock is changed, another after. `now_iso` gives local time and
that offset, and `Greater` compares two of these as the strings they are, where a `+` is less
than a `-`. All reviews of a file are of one zone: a deployment that changes the setting is left
out. `From` is a Python slice, negative start included.

Both filter and `list_reviews` sorts. `Lists` defines these by position: an element stands
where as many come before it (`InOrder`, `Picked`). The `SelectSeq` and `SortSeq` of the
standard modules say the same, but the prover knows nothing of them.

## 3. Runs

| Run | Question | Instance | Checks |
|---|---|---|---|
| `Ledger_appends` | Do concurrent appends, failures, power losses and key changes keep chain, signed head and verdict right, and is every change noticed? | 2 writers, 2 events, 2 keys or none, 3 lines, 2 failures, 2 restarts | `TypeOK`, `ChainLinks`, `SignedHeadVouches`, `VerdictExact`, `ChangeBreaksChain`, `AnchorTellsRewrite`, `OnlyExtendsSignedHead`, `ImplementsAuditLog` |
| `Ledger_verify` | What do unlocked verification and adoption make of concurrent appends on a bad disk, does a keyed ledger lose anything, and does every append return? | 2 writers, adopter, verifier, key or none, 2 lines, 2 failures, 1 restart | `OkIsTrusted`, `KeyedKeepsAcked`, `NoFalseAlarm`, `AppendReturns` |
| `Reviews_gate` | Are the tools of one undisturbed worker atomic? | 1 worker, 2 reviews, 4 calls, all grades that matter | `TypeOK`, `GateReconciled`, `ImplementsGate`, `AttestNeverLowers` |
| `Reviews_failures` | What can two workers, failures, kills and a sealed ledger do to the two files? | 2 workers, 2 reviews, 4 calls, 1 failure, 1 seal | `AgreesUnlessTroubled`, `LedgerNeverAhead`, `SettledDecision`, `SavesOneReview`, `AloneSavesCurrent` |
| `Reviews_live` | With unreadable files and power losses too: is every call answered, is a settled decision kept, and does a reconciliation tell the truth? | 2 workers, 2 reviews, 3 calls, 1 failure of any kind | `SettledInLedger`, `CallsReturn`, `ReconcileTells` |
| `Attestation` | Is each grade made from what it says, and is what it misses recent? | 2 tasks, 2 CVEs, 4 clock values, age of 1 | `TypeOK`, `GradesAreEarned`, `SilentMissIsRecent`, no deadlock |
| `Tools` | Are the diff grader and the queries right on every small input? | texts of 4 lines, ledgers of 4, shelves of 3, 6 times around a change of the clock, offsets from 2 behind UTC to 2 ahead, every limit | `DiffGradesTheDelta`, `OneWayIsRisky`, `GradeIsTheHighest`, `LogIsTheTail`, `RecentFirst` |

Why the bounds are enough: a fork needs two writers and two records; a head signed
over the wrong ledger needs a failed append, another append and a restart with
another key; three lines are the least with a line before, at and after a change.
A lost update needs two workers and one review, an erased review a second one; four
calls allow a review, its request, its decision and a call on the other review.
A stale catalog needs one fetch, its time to live and a tick for the flight of an answer
or past the end of either, which four clock values hold. Three reviews are two that a change
of the clock puts out of order and one for the limit to cut off. A text is a diff by its header lines and both
signs from three lines on; the detectors see one line at a time, so the first line runs
through every option and value and the others through one of each grade. The bounds that are not about the code
(`MaxLines`, `MaxFaults`, `MaxRestarts`, `MaxCalls`, `MaxFailures`, `MaxSeals`,
`MaxTime`, and those of `MCTools`) are guards named so. Where a run stops because they
are used up, its configuration switches the deadlock check off; `Attestation` goes on
for ever and keeps it.

**Fairness.** `Ledger!FairSpec`: a writer that holds the lock keeps running (weak
fairness of its next step), and a writer that waits is served in the end (strong
fairness of what it does when the lock is granted): `flock` queues its waiters in the kernel.
`Reviews!FairSpec` says the same of handlers and of `reviews.lock`. Nobody is
assumed to start a call, and failures and restarts are never fair.
`Attestation` claims nothing about termination: a `vulnix` that never ends is awaited
without a timeout.

Every property of a passing run has a mutant: a definition whose comment starts with
"Mutant:", in the module it mutates, that stands for a plausible bug (no lock, a
MAC that is not compared, a lock that is not freed, a list cut off before it is sorted,
the replay table that did not know `MED`). `PROJECT.json` pairs them; the property fails under each.

### Where the code does not do what it says

Five runs end in a counterexample; each states one claim of the repository.

| Run | Claim | What happens |
|---|---|---|
| `Ledger_late_flush` | "the chain never forks" (`store.py:275-277`) | A flush fails, `finally` unlocks, another process appends, and closing the file writes the first line after all: two records with one `prev_hash`. With a key, the line that was allowed to follow is signed over the wrong ledger as well, so `ChainNeverForks` and the theorems of `SignProofs` are for disks without this fault; those of `VerifyProofs` hold with it. Flushing or closing the file before unlocking would keep the order. |
| `Ledger_torn_unkeyed` | unkeyed, "the chain continues from the last good hash" (`store.py:202-204`) | After a line without a newline, the next append is glued to it. It returns, and its record is not in the ledger. With a key the append is refused, and nothing is lost (`KeyedKeepsAcked` in `Ledger_verify`, `KeyedLedgerKeepsAcked` for every instance). |
| `Ledger_adopt_race` | adoption requires "a sidecar with NO MAC" (`store.py:342-345`) | The check runs before the lock is taken. A keyed append signs the first head in between; adoption then signs the older one, and every later append is refused. |
| `Reviews_refused` | the tool returns `INTERNAL` "instead of writing" (`README.md:127`) | `upsert_review` comes first: the refused call has already changed `reviews.json`. |
| `Reviews_unreadable` | `upsert_review` inserts or replaces "one review" (`store.py:149`) | An unreadable `reviews.json` counts as empty, and the save that follows erases every other review. |

More is visible in the models and kept out of the runs:

* A verification that overlaps an append of another process can answer not ok about a
  healthy ledger, because it reads the sidecar before the lines; so can one that cannot read
  the sidecar (`store.py:251-258`), which then expects no entries. `NoFalseAlarm` says that
  the walk fails in no other way; the anchor of a configured key breaks on an unreadable
  sidecar as well (`VerifyAnchor`).
* An adoption that cannot read a signed sidecar takes it for unsigned (`AdoptCheck`) and goes on.
* The note of `verify_chain` that "the next appended event signs the head"
  (`store.py:626`) is not what `_require_appendable` does (`Refuse`).
* Two workers that attest one review at the same time can lower its grade, since the
  review is read outside the lock: the one that read it first saves last, and its MED
  replaces the HIGH of the other. The comment at `store.py:457-458` says that an attestation
  never lowers one. With a second worker TLC finds `AttestNeverLowers` violated;
  `AloneSavesCurrent` says that only an overlap on the same review does this.
* `ensure_fresh` says that a refresh that fails falls back to the stale cache
  (`kev.py:116-117`). That holds for `KevError`; JSON of another shape from the feed, or a
  cache file that cannot be written, ends in `INTERNAL` (`Breaks`).
* If `lookup` cannot read the cache file that `ensure_fresh` has just read or written, it finds
  nothing (`kev.py:149-151`), `kev_checked` stays true, and the grade is MED. That is what the
  comment at `server.py:306-309` says must not happen: a count that is "unchecked, not zero"
  must not "land on MED". `GradesAreEarned` and `SilentMissIsRecent` name that answer as their
  exception (`via.kind = "unread"`); without it TLC finds both violated. A blank answer of the
  feed gives MED too, and `SilentMissIsRecent` bounds how long it misleads.
* `list_reviews` promises the "most recent first" (`server.py:515`). It sorts local times
  as text, so while the clock shows an hour for the second time a newer review sorts below an
  older one: in London one of 01:05 GMT below one of 01:10 BST. At the same local second the
  offset decides, for the older review where the clock ends up at UTC or ahead of it, for the
  newer one behind it. `RecentFirst` is exact about this: these are listed the wrong way
  round, and no others. Two reviews of the same instant keep the order of the file.
* A fragment of a diff without a header is a configuration to `_is_unified_diff`, so a
  line `-  ...PasswordAuthentication = false;` alone is graded LOW (a restriction added),
  and HIGH (a restriction removed) once it has a header. `DiffGradesTheDelta` is about
  texts that are recognised as diffs.

## 4. Proofs

Every theorem below is proved for every value of the constants: any number of
processes, events, keys and reviews, any bounds. "Assumes" is what it needs
besides the modules' own `ASSUME`s. No axiom is used.

### The ledger

| Theorem | Says | Assumes |
|---|---|---|
| `TypeCorrect` (`LedgerProofs`) | `Spec => []TypeOK` | nothing |
| `ChainNeverForks` | `Spec => []ChainLinks` | `"retried" \notin DiskFaults` |
| `NoFalseAlarms` (`VerifyProofs`) | `Spec => NoFalseAlarm` | nothing |
| `VerdictsAreExact` | `Spec => []VerdictExact` | `NothingHeals` |
| `OkVerdictsAreTrusted` | `Spec => []OkIsTrusted` | `NothingHeals` |
| `SignedHeadsAreTrue` (`SignProofs`) | `Spec => []SignedHeadVouches` | `"retried" \notin DiskFaults` |
| `KeyedLedgerGrowsOnSignedHeads` | `Spec => OnlyExtendsSignedHead` | the same |
| `KeyedLedgerKeepsAcked` | `Spec => KeyedKeepsAcked` | the same |
| `LedgerImplementsAuditLog` | `Spec => ImplementsAuditLog` | `WholeLines` |
| `ChangesBreakTheChain` (`VerifyProofs`) | `Spec => []ChangeBreaksChain` | nothing |
| `AnchorsTellRewrites` | `Spec => []AnchorTellsRewrite` | nothing |

* `"retried" \notin DiskFaults`: close does not repeat a failed flush. Torn lines,
  unreadable sidecars and power losses stay in. `Ledger_late_flush` is the
  counterexample that makes it necessary for the first three. `KeyedKeepsAcked` holds
  with late flushes in `Ledger_verify`, but not in general: with five lines and two
  restarts TLC finds a run in which a late flush repeats a record, an unkeyed append
  then tears a line that equals the signed head, and the next keyed append is glued to it.
  That takes one event appended twice with the same time stamp, hours apart; the model's
  events have no time.
* `NothingHeals`: there is no adopter, or one and no power losses. An adoption that races an append can
  replace the sidecar by an older one, which is damage. A second adoption that
  started meanwhile, or a power loss, may put the right one back: then the walk passes
  again although the ledger was damaged once, and `VerdictExact` counts that as damage.
* `WholeLines`: `DiskFaults \subseteq {"unread", "power"}`. Without a key a torn line
  is glued over, which takes a record out of the log again (`Ledger_torn_unkeyed`).

The argument has five layers, each the hypothesis of the next.

1. `TypeInv`: the types, and `LastsExist`, that every prefix of the ledger has a
   last record. The latter would follow by induction over the ledger; it is carried in
   the invariant instead, because a line that is written keeps it.
2. `ChainInv` adds `Holder` (the writers past the check are exactly the holder of
   the lock), `NoneClosing`, `Continues` (what the writer is about to continue
   from is still the last record) and `ChainLinks`. None is inductive alone: the new
   record links because `Continues` holds, and `Continues` survives the other
   processes because of `Holder`.
3. `VerifyInv` counts, and needs no assumption on the disk. `CountsOn`: a writer counts
   on from the sidecar, or from zero. `Bounded`: as long as all lines link, no sidecar, on the
   disk or about to be saved or brought back by a power loss, counts more lines than
   there are. `Behind`: once a line is torn or a count is missing, all of these are
   behind the ledger, for good. `Sound`: what an undamaged ledger looks like. The walk
   passes when the lines link and the count is theirs, so `Sound` gives one direction of
   `VerdictExact` and `Behind` the other. `FoulTells` and `CalmTells` say the same of a
   verification that is under way, between its reads.
4. `SignInv` adds `SignedHeadVouches`, `DurableVouches` (the same of the sidecar a power
   loss may bring back) and what protects it: `WritesOnSigned` (what let a
   writer pass still holds when it writes), `SavesVouched` (what it saves is the head
   of what it wrote), `SignsVouched` (what an adopter will sign is a linked prefix of
   the ledger), and `HashLengths` (the hash of the n-th linked line commits to n
   records), by which a head cannot name another position than the one its count says.
   A torn line is the hard case, because gluing changes a line that is there. It changes
   the last one only, and `Behind` says that no head that counts it is, or will be,
   signed; so what is vouched for stays below it.
5. The refinement takes `LastHash(ledger)` for the abstract log: the hash of the last
   record is the history it commits to. `WriteLine` is `Extend`, `SaveHead` is
   `Acknowledge` (its record is still the last, by `SavesVouched`), and the rest changes
   only `sealed`.

`ChangesBreakTheChain` and `AnchorsTellRewrites` stand on layer 3 alone: an undamaged ledger links, and its sidecar is
its head. The lemma `LinkedUnique` says that two linked ledgers with the same last hash are
the same ledger, since a hash commits to every line before it (`LinkedCommits`), and
`NoOtherPasses` that therefore *no* other ledger, of any length and content, passes
the walk against the true sidecar. The two properties are instances of it.
`AnchorsTellRewrites` is about a rewritten ledger with an unsigned sidecar to match. An earlier
sidecar that was signed, put back with the lines up to it, passes: a key alone does not tell
that the ledger was longer, an expected head does.

### The tools

| Theorem (`ReviewsProofs`) | Says | Assumes |
|---|---|---|
| `ReviewsTypeCorrect` | `Spec => []TypeOK` | nothing |
| `FilesAgreeUnlessTroubled` | `Spec => []AgreesUnlessTroubled` | nothing |
| `DecisionsStayInLedger` | `Spec => []SettledInLedger` | nothing |
| `ReconciliationTells` | `Spec => ReconcileTells` | nothing |
| `OneReviewPerSave` | `Spec => SavesOneReview` | `FileKept`, `Ids # {}` |
| `LedgerIsNeverAhead` | `Spec => []LedgerNeverAhead` | `FileKept` |
| `DecisionsStayInBoth` | `Spec => []SettledDecision` | `FileKept` |
| `AloneCallsSaveCurrent` | `Spec => AloneSavesCurrent` | `FileKept` |
| `AttestationsNeverLower` | `Spec => AttestNeverLowers` | `OneWorker` |
| `GateIsReconciled` | `Spec => []GateReconciled` | `Undisturbed` |
| `ToolsImplementGate` | `Spec => ImplementsGate` | `Undisturbed` |

* `FileKept`: `reviews.json` can be read and no power loss undoes it (neither `"read"` nor
  `"power"` in `Failures`). `Reviews_unreadable` is the counterexample.
* `DecisionsStayInLedger` is about what the tools do: `Reviews` stands on a ledger that keeps
  what it has. A keyed one does, as long as it is not damaged (`KeyedLedgerKeepsAcked`); one
  without a key may lose a record to a torn line (`Ledger_torn_unkeyed`).
* `OneWorker`: two workers that attest one review at a time can lower its grade (section 3).
  One worker is the server as it is deployed.
* `Undisturbed`: one worker, no failure but a refused save, an unsealed ledger. Any other failure
  ends a call between its two writes, and then the call is no single step.

The invariant is `FilesInv`. `OverlapsTell`: two calls on one review both know that they
are not alone. `LoadsCurrent`: who holds `reviews.lock` has what is in the file, but for
troubled reviews. `FilesAgree`: an untroubled review is in the file what the replay of the
ledger says, unless a worker stands between its save and its append; then the file holds
what that worker saved, the worker remembers what the ledger says, and its event will turn
the one into the other (`Prepared`: what a tool does to a review is what `ReplayStep` does
with its event). The other theorems add what they speak of: `SettledRests` and
`SettledSaved` (nobody serves a review whose decision settled), `VerifierHolds` (a
reconciliation holds the current review of whatever is not `busy`), `LoadsAll` and
`SavedFirst` (under `FileKept`, a load is the whole file and each event follows its save),
`MineCurrent` (the review that a call read is still in the file until it saves, if no other
call overlapped it), and for the gate
`ViewReplayed` (what the abstract gate shows is the replay of the ledger).

### The attestation

| Theorem (`AttestationProofs`) | Says | Assumes |
|---|---|---|
| `AttestationTypeCorrect` | `Spec => []TypeOK` | nothing |
| `GradesEarned` | `Spec => []GradesAreEarned` | nothing |
| `SilentMissesAreRecent` | `Spec => []SilentMissIsRecent` | nothing |

The invariant dates everything: `Past` (nothing is dated later than now), `ReplyTells` (an
answer under way is what the feed listed when it sent it, or a blank), `Tells` (so is the
cache, of the time it was sent, which is no later than the time it was kept), and `AnswersTell`
(what the two properties say of an answer stays true of its own time, since a CVE once listed
stays listed). An answer by a fresh cache goes by one that is at most `Ttl` old, and one by a
fetch by one that is kept now; anything else is marked as degraded.

### The diff grader and the queries

| Theorem (`ToolsProofs`) | Says | Assumes |
|---|---|---|
| `DeltaGraded` | `Spec => []DiffGradesTheDelta` | nothing |
| `HighestGrade` | `Spec => []GradeIsTheHighest` | nothing |
| `OneWay` | `Spec => []OneWayIsRisky` | nothing |
| `OneOptionOneWay` | the same for any line about one option | nothing |
| `LogTail` | `Spec => []LogIsTheTail` | nothing |
| `NewestListed` | `Spec => []RecentFirst` | nothing |

`Spec` here is `MCTools`: texts, ledgers and shelves of every length and any zone, since
`MaxText`, `MaxLedger`, `MaxShelf`, `MaxCreated`, `MaxOffset` and `Change` are any values
(`InputTypes` says what is built up). The lines of the texts are the samples of `MCTools`; the lemmas `DeltaOfText`
and `HighestOfText`, from which the first two follow, are about lines with any bodies.

* *Grader.* Each detector is a list of rules, and what it returns is empty or one finding about
  the line, which is LOW unless the line is `Dangerous` (`FirewallFinds` and so on, from
  `FirstOfIs`: the first rule that applies). `Dangerous` says what must be in a line for adding it, or
  for removing it, to be graded above LOW. So `OneWay` is a question about lines:
  no sample is a risk both to add and to remove, and no line about one option
  (`OneOptionOneWay`). A line that sets two options at once can be both. `GradeDiffHolds` says that the findings of a text are those
  of its tokens, all of them: the fold loses none. A line that the change adds is a
  token of the diff and of the result; one that it leaves alone is a token of both sides,
  and found in both or in neither: `DeltaGraded`.
* *Overall grade.* `OverallIs`: after any number of findings, the fold has the grade of one of
  them, and none has a higher rank.
* *Queries.* `PickedIs` and `NewestFirstIs` say that a filtered or sorted list holds
  each element once, after those that come before it: for a strict total order there is one
  element for each number of predecessors (`RankBijective`). For `LogTail`, the entries with
  fewer than `limit` later ones are then the last `limit`. For `NewestListed`, what comes
  after in the list has the smaller time stamp or is the same (`NewerOrders`: `Greater` is a
  strict total order of the stamps, whatever the signs of their offsets). Within one offset the
  stamps go with the times (`InTurn`), and across a change of the clock the earlier review has
  the greater one exactly if it is `Overtaken` (`AheadInTurn`).

### Inductions

`replay_reviews`, `grade_diff` and the overall grade are folds, and the hash of a line commits
to all lines before it: each takes an induction over the length of a list. The library's
induction theorems take an operator as a parameter, which the installed provers cannot
instantiate. The proofs use sets instead: if a fact failed for some length, there would be
a least one (`LeastNumber`, from the well-foundedness of `<` on the naturals), and the step from
the one before it contradicts that. The community modules compute a fold by a recursive
function on sets of positions, which removes the maximum; `AccumulatorExists` shows that
there is such a function for every length. `ReplayProofs` shows the same for
`replay_reviews` on its own, for events of which nothing is known, and `ReplayAppend` is what
the proofs about the tools stand on: replaying one event more is one `ReplayStep` more.

### Only model-checked

* Liveness: `AppendReturns`, `CallsReturn`. Out of the prover's reach.
* `KeyedKeepsAcked` on a disk with late flushes, where it does not hold in general (above).
* That `Symmetry` is sound, and the runs that end in a counterexample.

## 5. Not modelled

* The text of lines: which strings a detector's pattern matches, and how `_rhs` cuts a
  line, are abstracted to what the pattern sees. Risks on lines it does not see (a list
  broken over several lines, a set on one line) are the false negatives the README of the
  repository speaks of.
* INVALID_INPUT answers, the confinement of file paths, message texts, the time stamps
  of ledger entries and the fields of a review that the ledger does not carry.
* A second process on the KEV cache, whose temporary file has one fixed name.
* Whether a scan ends: `vulnix` is awaited without a timeout.
* `verify_chain` as one call: its walk, its anchor check and its reconciliation run one
  after the other and share nothing but the conjunction of their verdicts, so the first two
  are in `Ledger` and the third is in `Reviews`.
* Configuration (read once at startup), logging (formats records), health check (one GET and an
  exit code), transport (sessions are the MCP library's): no state of theirs decides
  what a tool does.

## 6. Plan

Done: hash chain, ledger with its disk faults and power losses, verification, adoption;
the review store, tools and reconciliation with the gate they implement; attestation; diff
grader and queries; the proofs of section 4, which state every safety property that a
passing run checks. What is left:

1. **`KeyedLedgerKeepsAcked` with late flushes**, for events that do not repeat. That needs
   a history of the events that were appended: no assumption on the constants says it.
2. **Lines that set two options.** What the grader should promise of them is not said
   anywhere; the samples hold one such line, on which `OneWay` is right.
