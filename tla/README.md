# Verification of pr-agent-server in TLA+

pr-agent-server reviews pull requests with a language model and merges them.
Two long-lived programs do it: the **API** (`apps/api`) takes GitHub webhooks,
queues one review per pull request and posts the review as a comment; the
**worker** (`apps/worker`) runs every five minutes, lets an agent fix open pull
requests, waits for CI and merges what passes. A web client (`apps/web`) shows
the history. This directory holds TLA+ models of the parts where order,
failure and concurrency decide whether the programs are right, the TLC
configurations that check them, and TLAPS proofs of the main results.

- [Inventory](#inventory): the parts of the system
- [The modules](#the-modules): what is modelled, and how it maps to the code
- [What the runs show](#what-the-runs-show): bounds, fairness, results
- [Where code and comments disagree](#where-code-and-comments-disagree)
- [What is proved](#what-is-proved)
- [Not modelled](#not-modelled)
- [Plan](#plan)

`tlc -config MCx.cfg MCx.tla` runs a model, `tlapm X_proofs.tla` checks proofs.
PROJECT.json lists the components, runs, hazards, findings and theorems, and for
every definition the source lines it stands for: 31 % of the implementation.

## Inventory

### API

| Component | State | Operations | What is hard | What makes it correct |
|---|---|---|---|---|
| In-memory review queue (`application/queue/review-queue.ts`) | `pending`, `running`, `inFlight`, `rerun`, `waiters` | `enqueue`, `pump`, settlement of a job, `drain` | pushes that land while a review runs; a pump that runs only on two events | no push dropped, cap kept, no idle slot with work waiting, `drain` wakes |
| Database review queue (`infrastructure/queue/db-review-queue.ts`, `db/repositories/queue-repository.ts`) | rows of `review_queue_jobs`; per process `inFlight`, `pumping`, `idleWaiters` | `enqueue`, `loop`/`pump`/`claimDue`, `execute`/`complete`, `start`/`requeueInterrupted`, `drain` | several processes on one table, awaits between reading and using a count, crash and restart, lost answers | no double review, no row left on `running`, an accepted request leads to a review |
| Webhook handler (`application/webhook/handle-webhook.ts`, `presentation/http/legacy-routes.ts`) | none | check the signature, filter, enqueue | a store that fails, redelivery by GitHub | an event answered 200 is on the queue, and no review runs without an event |
| Review job with history and analytics (`main.ts` `runJob`, `application/review/*`, `infrastructure/analytics/jsonl.ts`) | rows of `reviews`, counters in files | start a row, review, finish the row, count | failures between these writes, a kill in between | a row reflects its run, a failed review is a failed job |
| Review tools (`legacy/tools`, `legacy/prompts`, `legacy/core`) | the persistent comment on GitHub | review, describe, improve | model output that is not YAML | one persistent comment per kind, updated |
| Diff budget (`legacy/diff`, `legacy/core/token.ts`) | none | prune, split, extend hunks | boundaries of the token budget | the prompt fits, no file lost silently |
| GitHub client and provider (`infrastructure/github`) | cached installation tokens | requests, paging | token expiry, caches keyed too widely | a request carries a live token of its repository |
| LLM client (`infrastructure/llm`) | none | complete with fallback models | timeouts and retries | every model is tried before giving up |
| Auth (`infrastructure/auth`, `application/shared`) | better-auth sessions, allowlist | sign in, authorize | an empty allowlist | only allowed accounts get a session |
| Config, CLI, migrations, oRPC, SPA | none | parsing, scripts, reads | - | - |

### Worker

| Component | State | Operations | What is hard | What makes it correct |
|---|---|---|---|---|
| Lock (`lock.ts`, `index.ts`) | the file `/tmp/pr-queue-worker.lock` | `acquire`, `release`, SIGTERM | several system calls per acquisition, kill -9 | one worker at a time, a dead worker's lock is taken over |
| PR pipeline (`pr/pipeline.ts`, `steps.ts`, `gates.ts`, `fix-loop.ts`, `ci.ts`, `merge.ts`, `context.ts`, `autofix.ts`, `review.ts`; `state.ts`) | `Ctx` during a tick, `fix-state.json` between ticks | review, agent fix, wait for CI, safety and CI gates, conflict resolver, approve, merge | author, CI, base branch and API lag move under a tick that lasts an hour; kills between an effect and its record | only a tested head is merged, pins and budgets bound the agent's cost, notices are sent once |
| Guards and lockfile repair (`pr/bump-guard.ts`, `pins.ts`, `lockfix.ts`, `relock.ts`, `managers.ts`) | `bad_bump` in `fix-state.json` | refuse a bump, repair lockfiles | cached verdicts per head | a verdict is not used for another head |
| Safety score, CI evidence (`pr/safety.ts`, `ci-evidence.ts`) | none | read a rendered review back and score it | two programs agree on a text a model wrote | a reported concern is never outscored |
| Scan (`pr/scan.ts`) | none | list open PRs | partial answers | what a scan misses is not treated as closed |
| Upstream sync (`sync/*`) | `sync-state.json`, branches of forks | sweep, merge upstream, verify by CI, revert by force push | a push between the check and the revert, one shared budget | a revert takes nothing off that is older than our merge; a red merge is not forgotten |
| Sync hooks (`ops/syncHooks.ts`) | webhook, files and label of every repository | converge to a wanted set | partial failure, lost answers, other people's changes | a fault costs its own step only, later runs finish the work |
| Agent and git (`claude-agent.ts`, `git.ts`, `lib/proc.ts`; `pr/autofix.ts`, `relock.ts`, `lockfix.ts`) | clones and pid files in `/tmp/pr-queue-work` | clone, reuse, run the agent, commit, rebase, push, sweep | a branch that moves meanwhile, a killed worker whose agent lives on | an agent starts on fresh ground, what is recorded as fixed is what landed |
| Reports (`discord.ts`, `report.ts`, `ops-webhook.ts`) | buffers | output | - | - |

### How they interact

    GitHub --webhook--> handler --enqueue--> queue --run--> review job --comment--> GitHub
                                               |                |
                                       review_queue_jobs     reviews
    cron --> lock --> [upstream sync, then per PR: processPr] --push, approve, merge--> GitHub
                            sync-state.json    fix-state.json

The worker asks the API for a review through the same webhook (`triggerReview`)
and reads the answer back as a comment on GitHub. Everything else the two
programs share is GitHub itself: heads, check runs, `mergeable`, comments.

## The modules

| Module | Models | Proofs | Instances |
|---|---|---|---|
| `ReviewPromise` | what a review queue promises, abstractly | `ReviewQueue_proofs`, `DbReviewQueue_proofs` | through `MCReviewQueue`, `MCDbReviewQueue` |
| `ReviewQueue` | the in-memory queue | `ReviewQueue_proofs` | `MCReviewQueue` |
| `DbReviewQueue` | the database queue, several processes | `DbReviewQueue_proofs` | `MCDbReviewQueue` |
| `ReviewService` | webhook, job, review comment, history, on top of a queue | `Review_proofs` | `MCReviewService` |
| `Hunks`, `DiffBudget` | from the files of a PR to prompts, and from answers to suggestions | `Review_proofs` | `MCDiffBudget` |
| `ReviewVerdict` | rendering and scoring of one review | `PrQueue_proofs` | through `MCPrQueue` |
| `WorkerLock` | the lock file | `WorkerLock_proofs` | `MCWorkerLock` |
| `PrQueue` | ticks over all PRs: scan, guards, state file, prune | `PrQueue_proofs` | `MCPrQueue` |
| `PrPipeline` | one PR over many ticks | `PrPipeline_proofs` | `MCPrPipeline` |
| `PrWorktree` | the git work of one PR: clones, pushes, pid file, sweep | `PrWorktree_proofs` | `MCPrWorktree` |
| `UpstreamSync` | the upstream sync of the forks | `Sync_proofs` | `MCUpstreamSync` |
| `SyncHooks` | the daily run that configures repositories | `Sync_proofs` | `MCSyncHooks` |

How they fit together:

    ReviewService  -- runs under any queue that keeps -->  ReviewPromise  <== ReviewQueue, DbReviewQueue
         |  posts the review (its rows: ReviewVerdict; its diff: DiffBudget, Hunks)
         v
    PrQueue  -- one step of it is a turn of -->  PrPipeline  -- whose agent works in -->  PrWorktree

`ReviewService` does not model a queue of its own: it takes requests and starts
jobs by the actions of `ReviewPromise`. `PrQueue` EXTENDS `ReviewVerdict`, so the
review that is merged on is rendered and read back by the real rules.

In every module the operators named after a property's break (`FillUncapped`,
`BootForgets`, ...) are mutants: variants of the operator next to them with a
plausible bug, used to see that the property they belong to can fail. They are
not part of the specification. Every module has a `TypeOK`. TLAPS
proves it for `ReviewQueue`, `DbReviewQueue`, `ReviewService`, `WorkerLock`,
`PrPipeline` and `PrQueue`; it can be added to the INVARIANTS of any .cfg.

### ReviewPromise

The state is what a caller can rely on: how many reviews of each PR the queue
means to begin (`wanted`), which PRs have a request that no later review covers
(`owed`), which reviews run. A step asks, ends, begins or restarts, and reviews that
are due may begin with it, several at once when a claim brings several (`Proceed`,
`Batches`). `ReviewQueue` maps its queue, its re-run flags and its running jobs onto
it (`Promise == INSTANCE ReviewPromise WITH ...`), `DbReviewQueue` its rows (below);
the constants `OnePerPR` and `Durable` are what sets the two backends apart. `Safety`
is the refinement that is proved for both. `Spec` adds that nothing is owed for ever:
it is checked for the in-memory queue, and false of the database queue, where a
request that lands on a failing review stays on its `failed` row.

### ReviewQueue

The event loop runs one callback at a time, so an action is a synchronous
stretch of code: a call of `enqueue` with the `pump` it makes (`Dedupe`,
`Accept`), the `finally` block of `execute` with its re-queue, its `pump` and
the wake-up of `drain` callers (`Settle`), and a call of `drain`. `Pump(queue,
running, due)` is the while loop, called with the queue as its caller left it.
`executing` refines the code's counter `running` to the jobs it counts.
`owed` is a ghost: the PRs with a request that no later-started run covers; a
run reads the head of its PR when it begins.

### DbReviewQueue

A statement or a transaction of `queue-repository.ts` is one step: `Enqueue`
(the upsert and the verdict computed from its answer), `Claim` (`claimDue`),
`CompleteDone`/`CompleteFailed` (`complete`), `Boot` (`requeueInterrupted`). What
follows the answer of a transaction is a step of its own, since other callbacks
run in between: `Begin` (the claimed jobs start), `Finally` (the `finally` block
of `execute`). `LoopTurn` is one turn of `loop`. `CallPump` is the synchronous
part of `pump`, with its early returns. `ClaimFails` is a claim that throws:
rolled back, or committed with the answer lost. `Crash` empties what a process
keeps in memory. `run_after` appears as the order it gives the rows, `order`.
Ghosts: `owed` as above, `lost` (PRs whose claim committed with a lost answer),
`shared` (PRs that a booting process re-queued while another had claimed them).

With one process the module implements `ReviewPromise` (`Promise`,
`ImplementsPromise`): the reviews wanted of a PR are one if its row waits, pending,
claimed or cut off by a crash, and one if the row is flagged (`Wanted`). The claim's
transaction, its failure and the boot leave that as it is; the answer of a claim
begins all its reviews in one step, and the crash is the abstract restart. Several
processes keep no such promise together: the crash of one restarts a part only.

### WorkerLock

One system call, one action: `open(O_EXCL)`, the write of the pid, the read by
another worker, the `/proc` test, `unlink`, the second `open`. `Die` is kill -9 at
any of them. Ghosts: `raced` (some `acquire` began while another was in
progress), `met` (workers whose life overlapped another's from an `acquire`) and
`stuck` (workers whose `unlink` of a stale lock failed). A read that fails although the
file is there with a pid in it, which the code takes for a stale lock, is not modelled.

### PrPipeline

`pc` is the await that `processPr` is at; an action is what the worker does
between two awaits. `c` holds `Ctx` and the locals, `fix` the entry of the PR
in the state file. Heads are numbered in the order they are pushed. The world
moves in between: the author pushes or closes, CI registers, runs and re-runs,
the base branch moves, a review is posted, and `GET /pulls/:n` (`shown`) lags
behind the branch (`head`) as the code says it does. Any API call may fail. An
agent run ends in one of the ways the code tells apart: pushed, clean, out of
budget, failed in passing, failed for good. Whether the author is Dependabot is
chosen once. The PR is one that the pin guard, the bump guard and the lockfile
pre-fix leave alone; dry runs are left out, and so is the `attempts` tally, which
is written and never decided on. Ghosts: `sent` and `spent` count notices and
budget-exhausting runs per head since a fix succeeded; the fields `pinned`,
`tip` and `passed` of `c` remember how the tick began, the head its fix produced
and the head whose CI it passed.

### ReviewService

One call to GitHub, to the model or to Postgres is a step; a job carries where it
is and what it has read. Reviews are asked for by pushes and by other events
(`Push`, `Trigger`; the second is also `triggerReview()` of the worker), in webhooks
that may come in any order and after the PR was closed. `Deliver` is the handler: a
500 is delivered again or given up, and so is a request that the queue took while
its answer was lost. `GetPr` is the provider's memo of the PR, `Previous` the search
for the persistent comment among those GitHub lists (`CommentPage`, 100 in the
code), `Talk` the comments of other people that push it off that page, `Written`
its edit or creation, with answers that get lost. `AskModel` and `Retry` are the
attempts over models of `llm.ts`. `Start`, `Finish`, `Count` and `Logged` are the
history row, the counters and the event log. A restart drops the jobs in progress;
a durable queue begins them again, and drops a request for a PR whose last review
succeeded (`Dropped`). Ghost: `asked`, per PR the webhooks that ask for a review,
repeated deliveries of a request that was taken included.

### Hunks and DiffBudget

`Hunks` holds the functions on the patch of one file, over edit scripts of kept,
added and removed lines: GitHub's patch itself (external), the extension by
context, the omission of deletion-only hunks, the numbered form. `DiffBudget`
takes a PR through them: which files are listed, full or compressed prompt, the
files that are left out and what the notice says of them (`Notice`: the first
`MaxNamed` by name, 20 in the code, the others by their number), the chunks of the
improve tool, the facts on dependencies. Then the chunks are asked for at the same
time, one attempt a step, in any order.

A file is its lines and, as `split("\n")` leaves it, one empty piece after the last
(`Split`). Either of its contents may have failed to load, which reads as an empty
file. `quotes` are the lines with the words "no newline at end of file", which
`ConvertedHunk` drops as the code does. A text has as many tokens as lines, so the
few tokens by which `clipTokens` exceeds its limit ("...(truncated)") do not appear,
and in tokens `PromptFits` needs a threshold that leaves room for them. Files that do
not end with a newline are not met, and the contents that load are those the patch was
made from, so `isValidHunk` is always true. Files dropped because a review has no
calls left are in no property.

### ReviewVerdict

Answers of the model are told apart by how their texts begin, which is all that
the renderer (`markdown.ts`) and the reader (`safety.ts`) look at. A text that
begins with a markdown heading, or with an emoji that heads a section, ends the
security row at its first line (`headed`): the finding reads as clear.

### PrQueue

A tick scans (`StartTick`: any repository may not answer, one page of each is
read), walks the PRs in any order, and prunes. `StartPr` loads the state file as
it is then, `Save` truncates it and `Written` completes it, so that a kill in
between leaves it torn; `Load` of a torn file is empty. The turn of a PR goes
through the pin guard, the bump guard with its evidence comment, the CI of
Dependabot's PRs and the review it finds on the first page of comments. For a PR
with a trivial title the marker "No code suggestions found" will do instead of a
review (`ReviewRead`, `NoCode`): such a PR is merged on a review the worker makes up,
also when a real one is there and was not read; `MergedOnCleanReview` is about the
review the worker went by. `Work` is what `PrPipeline` has in detail: it merges,
pins, pushes or changes nothing. The agent runs in the fix loop or in the conflict
resolver, which a green PR of Dependabot reaches too (`Agent`), there without a look
at the pin: `SettledStaysSettled` leaves those runs out.
Ghosts count the evidence posted, the heads that a complete file recorded as
settled, the agent runs after that, and every merge with its review.

### PrWorktree

Branches and clones are sequences of commits. The lockfile repair works in one
clone, the agent in another that is kept over ticks, fetched and reset, and used
again. An action is one git command or one change of a file: fetch, checkout, clone,
the list of files with which the agent starts, its end, the count of its commits,
push, fetch and rebase and second push, the read of the tip. The author pushes or
rewrites between any two of them, and a killed worker leaves its clone, its pid
file and possibly its agent, which goes on editing and committing there. All such an
orphan does is to add edits and commits: it does not push, reset or check out.
Ghosts: `since` (heads of the branch since the run took the clone up), `work` (the
commits of this run), `meddled` (an orphan worked in the clone since the run began).

### UpstreamSync

`pc`, `todo`, `budget` and `job` are the tick in progress, `job` the locals of the
fork it is at. Verification comes first (`VerifyTurn`, `ChecksRead`, `Revert`,
`RevertRecorded`), then the sweep in the order of `last_sync_ts` with its gates
(`Compare`, `CheckOpenPr`), the merge in a clone, the push or else the PR
(`PushRefused`, `PostPr`, `RecordPr`), the record and the alert. `line` is the branch
of a fork as the sequence of its commits, each with its author and its CI, which may
run again after it was green. The watch of a merge is armed on the head of the clone,
read before the push (`fork.ts:226`), so a push of somebody else between ours and its
record is not what is watched. GitHub answers the read of the tip with an object
where the code expects a list: there is no tip, and the exit for a branch that has
moved on is never taken.

`entry` and `order` are the state in memory, `file` what is on disk. `Saved` is
`saveSyncState`, whose write may fail unnoticed or leave the file truncated, which
reads as `{}` (`Forgotten`); `losses` counts these. `Kill` may come in the middle of a
save and leaves what is in the file. `SyncThrows` is an exception whose `catch`
(`fork.ts:350`) records nothing, not even `last_sync_ts`: a fork that throws each time
does starve the others, and `MaxThrows` bounds that away. A push that landed and was
reported as failed is not modelled.

Ghost `letGo`: merges that are no longer watched and were not reverted: by age,
without checks, after a green answer (a check that registers later and fails is looked
at by nobody), after a revert that failed, replaced by a later merge, or with a process
that ended before its state was saved.

### SyncHooks

`Slots` are the five things a run looks after in a repository; each is a read and
a conditional write. A write is retried when no answer came and may have been
carried out. Between any two requests somebody may change any of them; that such a
change is not overwritten unread is GitHub's doing, which refuses a write with a stale
`sha` (`Takes`). Ghosts: `whole` (the run got to the end of its loop), `spoiled` (what
somebody edited since it began, and the steps whose request failed).

## What the runs show

### Runs that pass

**ReviewQueue** (3 PRs, concurrency 2, 6 pushes). Three PRs on two slots make a
job wait, and six pushes allow two duplicates of each. `NoPushDropped`: a PR
with an uncovered request is queued or flagged for a re-run while it runs.
`WorkConserving`: free slots and waiting jobs exclude each other although `pump`
runs on two events only. `NoLostWakeup`: `drain` ends. `ImplementsPromise` is the
promise as a whole: the cap, no review nobody asked for, nothing owed for ever.

**DbReviewQueue** (2 processes, 2 PRs, cap 2, 2 pushes, one failing review, one
failing claim, one crash). Two processes make claims and boots of one meet
reviews of the other; cap 2 with two PRs lets a pump overlap a settlement.
`Capped` is at risk because the number of free slots is read before the await
of the claim and used after it; the `pumping` flag is what saves it.
`NoDoubleReview` and `NoWedgedRow` relate the rows to what the processes do;
`RequestRecorded` says that an accepted request stays on its row, as `pending` or
as a flag, until a review that begins later.
`PendingClaimed` and `RequestSettles` are the liveness of the whole.
A configuration beside the listed runs, `MCDbQueuePromise` (1 process, 3 PRs, cap 2, 4
pushes, two failing reviews, one failing claim, one crash), checks `ImplementsPromise`:
three PRs leave one waiting while a claim of two begins, four pushes flag one of them
while it runs. TLC finds no error in its 237225 states; the theorem below covers the
other instances.

**WorkerLock** (4 workers, symmetric). Two holders, a killed one and one that
takes over need at most four. `ExclusiveUnlessRaced`: without overlapping
acquisitions there is one holder. `AloneAcquires`: a worker that met nobody is
not refused, whatever is on disk.

**PrPipeline** (2 heads, budget ceiling 2, 2 fix iterations, 1 kill; the code
has 3 and 3). Two heads are enough for "the head moved"; a ceiling and a
number of rounds of 2 have a first, a last and one too many. `MergedHeadPassed`:
whatever moves during the tick, the head merged is the one whose CI that tick
passed; the `sha` precondition of the merge request is what saves it.
`PinHonoured`: a tick that finds its head pinned neither runs the agent nor
merges. `NoticeOnce`: a notice repeats only after a kill.

**PrTickEnds** (ceiling 1, no kill, fairness). `TickEnds`: a tick that began
ends, however CI and the author behave.

**UpstreamSync** (1 fork, 2 upstream tips, 3 commits, 1 kill, 1 exception, 1 save
that is lost or torn; 4.4 million states). Three commits are our merge, one below it
and one pushed on top; the fourth bound matters most, since everything a tick knows of
the last one is in that file. `EarlierHistoryKept`: what leaves a branch leaves it by
the revert of the merge that is watched, and is not older than that merge; a revert
repeated because its record was lost, or armed by an old file, must not reach further
back. (What was pushed on top of the merge does go with it, against `verify.ts:9`: see
`MCUpstreamRevert` below.) `RedMergeWatched`: a merge that turns red on top of its
branch is still watched, unless it is in `letGo`. `OneSyncPr`: PRs are not doubled over
ticks, kills and lost answers, as long as the list of PRs could be read. `AlertOnce`:
one alert per upstream tip, and one more for each save that was lost.

**UpstreamTurns** (2 forks, one attempt a tick). `LaggingForkTried`: no fork is
starved by one whose clone always fails, which rests on `last_sync_ts` being
moved by failures too.

**ReviewService** (1 PR, 1 push after its opening, 1 other event, 1 comment of
somebody, a page of 2 comments, 2 models, 1 retry, 3 faults, 1 restart, a durable
queue with 2 slots; 3 million states). A push and an event give a request during a
review, three faults a lost answer, its repetition and a failure after that; one
comment of somebody and one of the update notice fill the page. `SuccessIsShown`: a
row that says success describes a review that is on the PR. `ReviewsPaidFor`: every
review that begins has a webhook that asked for it, or a restart; the webhook of a
closed PR is not one. `OneReviewComment`: a PR whose review is on the page that GitHub
lists has that one alone. `CommitNeverGoesBack`: it only moves forward. That a request
is answered at all is checked of the queues (`RequestSettles`): the durable one leaves
a request that lands on a failing review on its `failed` row.

**SyncHooks** (2 repositories, 2 attempts, 2 changes by others, 1 fault).
`FaultsStayLocal`: a run that got to the end of its loop has configured everything but
what failed or was changed under it. `Converges`: from any interrupted state later
runs configure everything and then leave it alone.

**PrWorktree** (4 commits, 1 git failure, 1 kill; 1.1 million states). Four commits
are a base, one of the author's, and two of an agent or a second author.
`FreshGround`: an agent starts from a head the branch has had since its run took the
clone up (the current one, or one the author has replaced since), without the leavings
of an earlier one. `OnlyThisRunsWork`: what a push adds to the branch was on it
before or was made in this run. `TipIsTheWork`: what is recorded as fixed is a head the
branch has had, with all the commits of the run below it. An orphan still at work in
the clone is excepted in all three (`meddled`): nothing stops it, and its late commit
may be recorded on top of the tip. `SweptWhenClosed`: clones of closed PRs go away.

**DiffBudget** (all scripts of up to 7 lines; 4 files under 9 budgets; 3 files a
page, 3 full files, 2 chunks, 2 attempts, 1 name in the notice, 1 content that fails to
load; 1.5 million states). Seven lines hold two hunks with a gap that the context
closes, at both ends of a file. `ContextIsReal`: the lines that `extendPatch` adds
are lines of both files, at the place the header names; the empty piece after the last
newline counts as one, and files whose new content failed to load are excepted (both
are findings). `ReadOrNamed`: a listed file with added lines is in the prompt, named in
the notice or among the number it adds; with more than 20 files left out, the names of
the others are nowhere. `PromptFits`: a hard threshold of 0 limits nothing:
generateFullPatch stops at the soft one, and the headings that getPrDiff then clips to
the hard one may pass the window, so the property asks for `hard > 0`.
`SuggestionsComplete`: the comment of the improve tool stands for an answer of every
chunk.

**PrQueue** (3 PRs in 2 repositories, two of them trivial, page 2, threshold 1, 2
heads, 2 events, one of which may be a kill). A scan of two PRs is above the threshold and may omit the third.
`EvidenceOnce` and `SettledStaysSettled` hold but for records that a torn file or
such a scan took (`excused`). `JudgedOnEvidence`: no failed read of the registry
refuses a bump. `MergedOnCleanReview`: no merge on a review whose security row
reads as a concern.

### Fairness

*ReviewQueue*: every running review ends (`WF` of its settlement): the GitHub
and model calls of a review have timeouts. No fairness of requests. *DbReviewQueue*:
a live process's event loop runs, Postgres answers, reviews end, a dead process
is restarted by its supervisor. Crashes, failures and requests have none.
*PrPipeline*: every await of a tick ends (30 s per GitHub call, 1800 s per agent
run, 10 min per wait for CI), hence `WF(ProcessPr)`. The world owes nothing.
*UpstreamSync*: git and GitHub calls end, hours pass; that a tick starts with all
forks listed and that a comparison succeeds happens again and again (strong
fairness: either may fail any number of times in between). *SyncHooks*: the
scheduler starts a run every day, a request ends. *PrWorktree*: ticks are started
and end, the age of a directory grows, an orphaned agent ends.

### Bounds

Constants named `Max...` bound the events of the environment (pushes, faults,
kills, edits) and stand in its guards only. The ghosts `sent` and `spent` saturate
one above what their properties allow, the budget tally at the ceiling and the
alerts at `MaxAlerts`, the largest values told apart. A kill of `PrQueue` counts as an
event. Deadlock is not checked where
the system may stop: an idle queue with its pushes used up, exited workers, a
merged PR, a published comment. `SyncHooks` and `PrWorktree` never stop, and
their runs check it.

## Where code and comments disagree

Each of these is refuted by TLC: `tlc -config <cfg> <module>` prints the
counterexample.

| Configuration, module | Claim | What happens |
|---|---|---|
| `MCReviewQueueDedupe`, `MCReviewQueue` | `review-queue.ts:29`: keys of every job queued or running | the coalesced re-run is pushed without its key, so the next push queues a second job of the PR, and both can run at once |
| `MCDbQueueFailedRerun`, `MCDbReviewQueue` | `queue-repository.ts:221`: a re-request during a failing run survives for the next claim | the flag stays on a `failed` row, which no claim selects |
| `MCWorkerLockRace`, `MCWorkerLock` | `lock.ts:5`: two workers can never both believe they hold it | a lock file without its pid yet reads as stale and is unlinked |
| `MCPrBudget`, `MCPrPipeline` | `gates.ts:104`: an expensive timeout cannot repeat without limit | the resolver counts and never tests the ceiling |
| `MCPrUntestedFix`, `MCPrPipeline` | `steps.ts:381`: the fix must be verified by the real suite | the wait refuses to call it green, but the CI gate after it reads zero checks as green |
| `MCPrLostNotice`, `MCPrPipeline` | `context.ts:383`: the alert fires once per PR, head and reason | `markSkip` at a new head keeps the old head's `notified` flag |
| `MCPrQueueShape`, `MCPrQueue` | `safety.ts:112`: a shape we have never seen cannot buy a merge | a security concern that begins with a markdown heading, or with the emoji of a section, reads as clear |
| `MCPrQueuePrune`, `MCPrQueue` | `state.ts:283`: pruning can never drop live state | a scan above the threshold that misses PRs drops their records |
| `MCPrWorktreeSelf`, `MCPrWorktree` | `autofix.ts:22`: the pid file is deleted on every exit path | two exits leave the worker's own pid, and the next run in the tick kills the worker |
| `MCSyncHooksExit`, `MCSyncHooks` | `syncHooks.ts:525`: a failed listing must not read as a healthy run | the exit code is 0 |
| `MCUpstreamRevert`, `MCUpstreamSync` | `verify.ts:9`: reverted only while it is still the tip | the tip is never known (`verify.ts:145`), and the force push takes off what was pushed on top |
| `MCPersistentComment`, `MCReviewService` | `provider.ts:349`: find the previous comment and update it in place | a review of a dependency PR does not begin with the header: each one is a new comment |
| `MCLockfileFact`, `MCDiffBudget` | `dependency-facts.ts:20`: right even when the model is weak | lockfiles are dropped before the facts are computed: "Lockfile not updated" |
| `MCImproveScores`, `MCDiffBudget` | `improve.ts:144`: default 0 keeps all | a score such as "8/10" is NaN, and its suggestion is dropped |

Met while modelling, and visible in the models without a configuration of their
own (PROJECT.json has these and more as findings, each with its lines):

- `verify.ts:193` promises a retry of a reverted tip that `sweep.ts:132` skips.
- `extend.ts:32` takes the empty piece after the last newline for a line, so a hunk at
  the end of a file gets a blank context line neither file has; `hunk.ts:130` drops
  every line with the words "no newline at end of file", which shifts the numbers after
  it; a new content that failed to load (`provider.ts:141`) lets removed lines be shown
  as kept.
- `steps.ts:236` saves the refusal of a bump before its evidence is posted: a
  failed comment or a kill in between leaves a PR refused without a word.
- `review.ts:105` reads the first page of comments: a review beyond it is
  triggered again on every tick.
- `safety.ts:202` looks for dangerous issues on the line of the heading, while the
  renderer puts them below it; `markdown.ts:202` takes "no, but see line 40" for a no.
- `autofix.ts` records the worker's pid and not the agent's, so an agent that
  outlives its worker is never stopped; and a run that leaves uncommitted edits is
  a success, although `autofix.ts:607` says it must stay a failure.
- `requeueInterrupted` re-queues the rows another live process is reviewing,
  while `db-review-queue.ts:29` says two processes can share a database without
  double-reviewing. `NoDoubleReview` leaves out exactly the PRs in `shared`.
- A `done` row absorbs every later request (`queue-repository.ts:89`), while
  `domain/review/queue-repository.ts:3` says the backends dedupe identically: the
  in-memory queue reviews a PR again on its next push.
- `safety.ts:5` says nothing is AI-fixed unless the review is safe; `stepAiFix`
  (`pipeline.ts:168`) runs before the safety gate.
- `state.ts:454` says a skip stops AI-fix and merge at this head; the tick that
  records it goes on to the CI gate and may merge (`steps.ts:436`), and a green PR of
  Dependabot never reads it: its conflict resolver runs the agent (`gates.ts:275`).
  Later ticks on other PRs honour it, which is what `PinHonoured` says.
- `fix-loop.ts:87` says the wait is for the head just created; it is for the head
  a lagging GET reports.
- The commits of a fix are counted from the head the tick knows
  (`autofix.ts:472`): on a branch that moved before the clone the author's count
  as the agent's, and a head the agent left alone is recorded as fixed.

## What is proved

TLAPS checks the following for every value of the constants. Each paragraph
names the inductive invariant and says why the property is not inductive alone.

*ReviewQueue_proofs*. `IInv` joins `TypeOK` with what the named invariants need
of each other: the keys in flight and flagged have jobs, what is owed is
queued or flagged, a free slot means an empty queue, and waiters mean work. None
of them is inductive alone: that no push is dropped needs that a key in flight
has a job, since a duplicate is only flagged. Lemmas about
`Fill` and `Pump` say what the loop moves and that it conserves jobs; the two
steps use them instead of the sequences themselves. Theorems: `Invariant`,
`TypeCorrect`, `PushesKept`, `SlotsUsed`, `DrainsWake`. `KeepsPromise` is the
refinement: every behaviour of `ReviewQueue` is one of `ReviewPromise!Safety`. A
settlement with its re-queue and its `pump` could start several jobs; since no slot
is free while a job waits, it starts at most one (`NoneBegins`, `OneBegins`). Its
lemmas count how many jobs of a PR are queued before and after a removal, an append
and a fill.

*DbReviewQueue_proofs*, for any number of processes, PRs, crashes and failures.
`CapKept` needs `SlotsReserved`: what a claim in progress may still bring fits
beside what runs already, because only the one pump that holds `pumping` claims
and a settlement only frees slots. `NeverReviewedTwice`, `NoneWedged` and
`RequestsRecorded` need `Holders`: what a process holds in memory corresponds to
rows on `running`, but for the rows in `shared`. `LoopsWoken`: the loop of a live
process never waits for a wake-up that nobody will give. `KeepsPromise`, for a
deployment with one process, is the refinement of `ReviewPromise!Safety`. It needs
`SoloInv`: the invariant above, that a process that is down holds nothing
(`DownInv`), and that `shared` stays empty, since the only process to boot holds
nothing then. One lemma per action maps it to its abstract step (`EnqueueAsks`,
`BeginBegins`, `CompleteEnds`, `CrashRestarts`) or to none (`ClaimQuiet`,
`ClaimFailsQuiet`, `BootQuiet`).

*Review_proofs*, under any queue that keeps `ReviewPromise`, which both backends are
proved to do.
`NoneUnpaid` counts (`PaidInv`): the history rows of a PR, its reviews that have
not reached their row, the reviews the queue means to begin and the webhooks still
to come that ask for one are together no more than the webhooks that asked and the
restarts; every step moves one unit from one term to another, and a delivery whose
answer is lost adds one to both sides. `SuccessesAreShown`, `OneCommentKept` and
`CommitsOnlyAdvance` rest on `JobsInv` and `CommentsInv`: a job read its head and the
comment it will edit earlier, and what it read must still hold when it writes. With one
review of a PR at a time (`SoloOK`) nobody else has written in between;
`SuccessesAreShown` has `Durable` as its hypothesis for that reason, since the
in-memory queue can overlap two reviews of one PR (`MCReviewQueueDedupe`). Comments are
only appended and edited in place, so a review that is on the first page stays there.

The same module proves five properties of `DiffBudget`, for PRs of any size, files
of any script and any thresholds. Its functions fold over files and lines, so the
proofs first unroll them: a fold of a step that keeps a set has its steps in that set
(`FoldExists`), and what holds of the accumulator after every step is shown by
induction on the number of steps (`FillSteps`, `ChunkSteps`, `FlattenSteps`). A filter
is a `Pick`, whose members and order are those of the places picked (`RankIsPlace`,
`PickProperties`). `ReadOrNamedTheorem`: every added line is in a hunk of the patch
(`PatchProperties`), so its file is not dropped (`AddedIsKept`), and each step of the
fill shows a file or leaves it to the notice, which names as many as it can and counts
the others. `PromptFitsTheorem`: each step keeps the total under
the soft threshold or where it was, and a heading is added only below the hard one.
`SuggestionsCompleteTheorem`: the merged lists have the elements of each chunk and
none out of order, for any number of chunks. `DiffInv` carries these facts over the
steps of the tools.

`ContextIsRealTheorem` and `NumbersAreTrueTheorem` are about what a hunk's header says.
The first is about files whose new content was loaded, with the empty piece after
their last newline; the second about files without a line that says "no newline at end
of file". A script's lines without the added ones are the old file, without the removed ones the
new file, so a line's number is a count of places (`CountSum`), and an increasing
sequence of places is determined by its elements (`SameIncreasing`): the lines of a hunk
that are of one file are the part of that file at the header's numbers (`SideIs`,
`SidesAre`). A patch is made of maximal runs (`PatchRuns`, `RunFacts`), each of which
begins and ends with lines that are kept; the lines before a run and the `Context + 1`
lines after it are kept too or outside the file, so what is added below is exactly what
follows in both files (`AboveIs`, `BelowIs`). Every limit extendPatch derives, from the
file, the section or the text in common, stays inside both files and at one distance in
each (`LimitsFit`, `ReachFit`, `AgreedFit`), hence so does the hunk it builds
(`ExtendedReal`). Below a hunk, `after` above `Context + 1` would reach into the next
one, where the old and the new file differ: that is the hypothesis of the first theorem
(the code asks for 1 line, GitHub gives 3 of context). Both ask for some context.

*WorkerLock_proofs*. `Exclusive`, for any number of workers: as long as no two
acquisitions overlapped, whoever is past its claim created the file that is
there, and the file's pid is its own (`LockInv`). `NeverWedged`: whoever is
refused met another process (`AloneInv`). `TypeCorrect`.

*PrPipeline_proofs*. `TypeCorrect`; `MergesWhatItGated`, from `GateInv`: from the
CI gate on, `passed` is the head the tick will ask to merge; `PinsAreHonoured`,
from `PinInv`, which follows the head a tick began with up to the test of the
recorded skip; `NoticedOnce`, from `NoticeInv`: a notice that was sent is on
record, or the tick that sent it is about to record it, or a kill took the record.

*PrQueue_proofs*. `ConcernBlocks`, `NothingFoundPasses` and `Monotone`, over every
answer of the model: the points of the three rows fit together.
`RefusedOnEvidence` rests on both copies of the state, since what is in the file
now may be what `processPr` loaded earlier and writes back (`EvidenceInv`).
`MergesCleanReviews` rests on the review in hand from the moment it is found
(`ReviewInv`) and on `ConcernBlocks`. `EvidencePostedOnce` and `SettledCostsNothing`
rest on `OnceInv`: during a turn the copy in memory is the file's, what a turn
got past was not on record when it began, heads grow and a record moves only
forward, so a head once on record is on record or behind one that is. All four
hold for any number of PRs, kills, torn files and partial scans.

*PrWorktree_proofs*. `IInv` types histories, `GroundInv` and `WorkInv` follow one run
through its git commands. `StartsOnFreshGround`: the head the run fetched is one the
branch has had since the run took the clone up, and stays one whatever the author
pushes; the clone is clean from the look at it to the checkout. `RecordsTheWork`:
from the end of the agent on, the clone has all commits of the run; the shared
prefixes of two histories are the first ones, so a rebase takes the whole of the
agent's work along, and a push makes the clone's history a head of the branch, which
it has been when the tip is read, whoever has pushed since. `PublishesItsOwnWork`:
from the checkout on the clone has commits of the branch and of this run only, since
fetching and checking out drop what a killed run left. All three give up where an
orphan works in the clone. That no push drops a commit of the branch is git's refusal of
a push that does not fast-forward, and no theorem here.

*Sync_proofs*, for any number of forks and in whatever order they come. Both jobs
of it are in one module. Of the upstream sync, `IInv` says three things about a
fork. `Branch`: commits are numbered upwards; nothing lies between the base of a
watched merge and the merge, for the watch in memory and for the one in the file, which
a kill brings back (`WatchOK`); and every merge on the branch is watched, about to be,
let go, or buried under a commit that no revert to come takes off (`KeptOK`). The last
part is what makes it inductive: a merge that is not watched may come back to the top
when a later one is reverted, which is why a later watch has its base above; that a
merge is green is no reason to leave it out, since its CI may run again.
`RevertsKeepEarlierHistory` follows from `WatchOK` and `RedMergesStayWatched` from
`KeptOK`, as nothing buries the last commit. `PrOK`: the list an attempt in progress
found was empty (`OneSyncPrAtATime`). `AlertOK`: an attempt is for a tip later than any
on record in memory, and a tip that was alerted more often than saves were lost is on
record in memory and in the file (`AlertedOnce`). Most steps are quiet about most forks,
so each part has a lemma for those (`CalmKeeps`, `AlertQuietKeeps`, `PrQuietKeeps`). Of the hook sync, `FailuresStayLocal`: the steps a run has left behind
are settled, as they should be or spoiled (`HooksInv`), and no step writes to the slot
of another.

Assumed: the named `ASSUME`s only (bounds are naturals, a positive concurrency,
ceiling and number of rounds, `None` is no worker, a `PrQueue` has finitely many
PRs, whose reviews are answers of `ReviewVerdict`, the inputs of `DiffBudget` are
files and thresholds); and, where a theorem names them, `Durable`, `Context > 0` and
`after <= Context + 1`.

Where a proof counts or unrolls a fold, it inducts on naturals in the form that a
nonempty set of naturals has a least member; the library's rule, which takes the
property as an operator, cannot be instantiated.

Model-checked only: liveness, which needs fairness and `ENABLED` (that of
`ImplementsPromise`, `PendingClaimed`, `RequestSettles`, `TickEnds`,
`LaggingForkTried`, `Converges`, `SweptWhenClosed`). The safety part
of every run's properties has a theorem.

## Not modelled

- `drain()` and `stats()` of the database queue: no production caller, no effect
  on the rows. A lost answer of `complete()` (see the hazards).
- Pid reuse: `acquire` then refuses for as long as the other process lives.
- Text: the wording of prompts, comments and reports, the repair of YAML
  (`yaml.ts`), the excerpts of CI logs. Where text decides something (the rows of a
  review, the score of a suggestion, the header of a comment), the model has the
  cases the code tells apart. The describe tool is text only.
- Token caches and paging of the GitHub clients, the tokenizer, and the order of
  files by language.
- Dry runs everywhere; of the sync, `verify_ci = false`, the budget of `--sync-only`
  and force pushes of upstream.
- Authentication, configuration, CLI, migrations, the oRPC reads and the web
  client: no concurrent state of their own.

## Plan

Done: all modules of the table above with their proofs. To come, the most
important first:

1. A lost answer of `complete()` in `DbReviewQueue`, and what several processes
   promise together when a boot re-queues the rows of another.
2. `PrQueue` with `PrPipeline`'s step in place of `Work`, on one PR.
3. The token cache of the GitHub client (expiry against the length of a review).
