---------------------------- MODULE ReviewService ----------------------------
(***************************************************************************)
(* The API server between GitHub and the review queue: the webhook handler *)
(* (src/apps/api/src/application/webhook/handle-webhook.ts), the job the   *)
(* queue runs (runJob in main.ts), the review tool with its model fallback *)
(* and its persistent comment (legacy/tools/review.ts, infrastructure/llm, *)
(* infrastructure/github), and the history and analytics written around it.*)
(*                                                                         *)
(* The queue is any queue that keeps ReviewPromise. A step here is what    *)
(* one call to GitHub, to the model's endpoint or to Postgres does, up to  *)
(* the next await.                                                         *)
(***************************************************************************)
EXTENDS Integers, FiniteSets, SequencesExt

CONSTANTS
  PRs,         \* the pull requests
  Bumps,       \* those that change dependency manifests and nothing else
  Limit,       \* the queue's concurrency
  Durable,     \* QUEUE_BACKEND=db: rows in Postgres, one review per PR at a time
  Models,      \* cfg.modelReview and cfg.fallbackModels: their number
  Retries,     \* callWithFallback's retries
  CommentPage, \* listIssueComments' page: the comments it sees, 100 in the code
  MaxHeads,    \* bound: pushes to each pull request
  MaxEvents,   \* bound: other events and the worker's own webhooks
  MaxTalk,     \* bound: comments of other people
  MaxFaults,   \* bound: calls that fail
  MaxKills     \* bound: restarts of the server

ASSUME SizesAssumption == {Limit, Models, CommentPage} \subseteq Nat \ {0}
ASSUME BoundsAssumption ==
  {Retries, MaxHeads, MaxEvents, MaxTalk, MaxFaults, MaxKills} \subseteq Nat
ASSUME InputsAssumption == Bumps \subseteq PRs /\ Durable \in BOOLEAN

VARIABLES
  wanted,     \* the queue: [PRs -> reviews it means to begin]
  owed,       \* the queue: requests no review that began later covers
  decided,    \* the queue: pull requests whose last review did not throw
  jobs,       \* the calls of runJob in progress, oldest first
  head,       \* GitHub: [PRs -> number of pushes so far]
  open,       \* GitHub: the pull requests that are open
  deliveries, \* GitHub: the webhooks on their way
  comments,   \* GitHub: [PRs -> its comments, oldest first]
  rows,       \* Postgres: the history rows, table `reviews`
  counted,    \* the analytics log: [success, failed -> events]
  asked,      \* ghost: [PRs -> webhooks that ask for a review, repeated ones too]
  budget      \* what is left of each bound

queue == <<wanted, owed, decided>>
github == <<head, open, deliveries, comments>>
records == <<rows, counted>>
vars == <<queue, jobs, github, records, asked, budget>>

Queue == INSTANCE ReviewPromise
  WITH running <- [i \in DOMAIN jobs |-> jobs[i].pr], OnePerPR <- Durable

Stages == {"start", "getPr", "getFiles", "ask", "list", "write", "announce",
           "finish", "count"}

\* A call of runJob: where it is, its history row (0: none), the head getPr()
\* remembers, the comment it found to edit (0: none), the model and the retry it
\* is at, and whether it has thrown.
Job(k) == [pr |-> k, at |-> "start", row |-> 0, head |-> 0,
           found |-> 0, model |-> 1, tries |-> 0, threw |-> FALSE]

Init ==
  /\ jobs = <<>>
  /\ Queue!Init
  /\ decided = {}
  /\ head = [k \in PRs |-> 0]
  /\ open = PRs
  /\ deliveries = {}
  /\ comments = [k \in PRs |-> <<>>]
  /\ rows = <<>>
  /\ counted = [success |-> 0, failed |-> 0]
  /\ asked = [k \in PRs |-> 0]
  /\ budget = [call |-> MaxEvents, talk |-> MaxTalk, fault |-> MaxFaults, kill |-> MaxKills]

Spend(what) ==
  /\ budget[what] > 0
  /\ budget' = [budget EXCEPT ![what] = @ - 1]

----------------------------------------------------------------------------
\* The calls of runJob() after a step of the queue, which a conjunct beside this
\* one constrains: those `kept`, each as it is now, and those that begin.
QueueStep(kept) ==
  \E new \in Queue!Batches : jobs' = kept \o [i \in DOMAIN new |-> Job(new[i])]

QueueBegins ==
  /\ QueueStep(jobs)
  /\ Queue!Begin
  /\ UNCHANGED decided
  /\ UNCHANGED <<github, records, asked, budget>>

\* A webhook that asks for a review is on its way.
Called(k, action) ==
  /\ asked' = [asked EXCEPT ![k] = @ + 1]
  /\ deliveries' = deliveries \cup {[pr |-> k, action |-> action, nr |-> asked[k] + 1]}

\* GitHub: a push, and the webhook that announces it.
Push(k) ==
  /\ k \in open
  /\ head[k] < MaxHeads
  /\ head' = [head EXCEPT ![k] = @ + 1]
  /\ Called(k, "synchronize")
  /\ UNCHANGED <<queue, jobs, open, comments, records, budget>>

\* Another event of an open pull request (opened, edited, labeled...), or
\* triggerReview() by the worker, which says "opened" of a pull request that
\* may have been closed since it was listed.
Trigger(k) ==
  /\ Spend("call")
  /\ Called(k, "opened")
  /\ UNCHANGED <<queue, jobs, head, open, comments, records>>

\* GitHub: the pull request is closed; its payload still says state "open".
Close(k) ==
  /\ k \in open
  /\ open' = open \ {k}
  /\ deliveries' = deliveries \cup {[pr |-> k, action |-> "closed", nr |-> 0]}
  /\ UNCHANGED <<queue, jobs, head, comments, records, asked, budget>>

\* Somebody else comments on the pull request.
Talk(k) ==
  /\ Spend("talk")
  /\ comments' = [comments EXCEPT ![k] = Append(@, [opens |-> "note", head |-> 0])]
  /\ UNCHANGED <<queue, jobs, head, open, deliveries, records, asked>>

\* A mutant of Actionable: the guard looks at the payload's state alone.
ActionableByState(d) == TRUE

\* The webhooks handleWebhook() acts on. The others, unsigned ones included,
\* are answered without a call to the queue.
Actionable(d) == d.action # "closed"

\* A durable queue leaves the row of a reviewed pull request alone.
Dropped(d) == Durable /\ d.pr \in decided

\* handleWebhook() with a queue that takes the request, which GitHub learns or
\* does not: the insert commits and its answer is lost, or the webhook's is, and
\* then it is delivered again, or not. An insert that fails is answered 500: the
\* webhook is still to be delivered, or GitHub gives up.
Deliver(d) ==
  \/ /\ Actionable(d)
     /\ QueueStep(jobs)
     /\ Queue!Ask(d.pr)
     /\ \/ /\ deliveries' = deliveries \ {d}
           /\ UNCHANGED <<asked, budget>>
        \/ /\ Spend("fault")
           /\ asked' = [asked EXCEPT ![d.pr] = @ + 1]
           /\ UNCHANGED deliveries
     /\ UNCHANGED <<decided, head, open, comments, records>>
  \/ /\ ~Actionable(d) \/ Dropped(d)
     /\ deliveries' = deliveries \ {d}
     /\ UNCHANGED <<queue, jobs, head, open, comments, records, asked, budget>>
  \/ /\ Actionable(d)
     /\ Spend("fault")
     /\ deliveries' \in {deliveries, deliveries \ {d}}
     /\ UNCHANGED <<queue, jobs, head, open, comments, records, asked>>

----------------------------------------------------------------------------
\* A step of the i-th job that leaves the queue alone.
Go(i, job) == jobs' = [jobs EXCEPT ![i] = job] /\ UNCHANGED queue

At(i, stage) == jobs[i].at = stage

\* A call in runReview() throws, and runJob() catches it.
Throw(i) == Go(i, [jobs[i] EXCEPT !.at = "finish", !.threw = TRUE])

\* A call that did nothing fails.
Refused(i) == Spend("fault") /\ Throw(i) /\ UNCHANGED <<github, records, asked>>

\* history.start(): the queued row, or a null id if the insert fails.
Start(i) ==
  /\ At(i, "start")
  /\ \/ /\ rows' = Append(rows, [pr |-> jobs[i].pr, status |-> "queued", head |-> 0])
        /\ Go(i, [jobs[i] EXCEPT !.at = "getPr", !.row = Len(rows) + 1])
        /\ UNCHANGED budget
     \/ /\ Go(i, [jobs[i] EXCEPT !.at = "getPr"])
        /\ Spend("fault")
        /\ UNCHANGED rows
  /\ UNCHANGED <<github, counted, asked>>

\* A mutant of GetPr: a cache the jobs share answers with a head it saw before.
GetPrCached(i) ==
  /\ At(i, "getPr")
  /\ \E h \in 0..head[jobs[i].pr] : Go(i, [jobs[i] EXCEPT !.at = "getFiles", !.head = h])
  /\ UNCHANGED <<github, records, asked, budget>>

\* getPr(), memoised: every later use of the head is of this one.
GetPr(i) ==
  /\ At(i, "getPr")
  /\ \/ /\ Go(i, [jobs[i] EXCEPT !.at = "getFiles", !.head = head[jobs[i].pr]])
        /\ UNCHANGED <<github, records, asked, budget>>
     \/ Refused(i)

\* getDiffFiles(): the patches GitHub lists, of the head there is by then, which
\* the comment does not name.
GetFiles(i) ==
  /\ At(i, "getFiles")
  /\ \/ /\ Go(i, [jobs[i] EXCEPT !.at = "ask"])
        /\ UNCHANGED <<github, records, asked, budget>>
     \/ Refused(i)

\* callWithFallback(): the model it turns to after one more failed attempt of
\* this one. A body that does not parse, an empty one and a transient error are
\* retried; any other error ends the model.
Retry(job, retried) ==
  IF retried /\ job.tries < Retries
  THEN [job EXCEPT !.tries = @ + 1]
  ELSE [job EXCEPT !.model = @ + 1, !.tries = 0]

\* One attempt: an answer that parses, or another attempt, or the last error
\* thrown when no model is left.
AskModel(i) ==
  /\ At(i, "ask")
  /\ \/ /\ Go(i, [jobs[i] EXCEPT !.at = "list"])
        /\ UNCHANGED budget
     \/ \E retried \in BOOLEAN :
          LET next == Retry(jobs[i], retried)
          IN  /\ Spend("fault")
              /\ IF next.model <= Models THEN Go(i, next) ELSE Throw(i)
  /\ UNCHANGED <<github, records, asked>>

\* What a published review starts with: computed facts come above the header.
Opening(k) == IF k \in Bumps THEN "facts" ELSE "header"

\* A mutant of Previous: the list is not searched.
PreviousNone(k) == 0

\* publishPersistentComment(): the first comment listed that starts with the
\* header.
Previous(k) ==
  LET own == {c \in DOMAIN comments[k] : c <= CommentPage /\ comments[k][c].opens = "header"}
  IN  IF own = {} THEN 0 ELSE Min(own)

ListComments(i) ==
  /\ At(i, "list")
  /\ \/ /\ Go(i, [jobs[i] EXCEPT !.at = "write", !.found = Previous(jobs[i].pr)])
        /\ UNCHANGED <<github, records, asked, budget>>
     \/ Refused(i)

\* The comment found is edited, or one is created.
Written(job) ==
  LET review == [opens |-> Opening(job.pr), head |-> job.head]
  IN  [comments EXCEPT ![job.pr] =
         IF job.found = 0 THEN Append(@, review) ELSE [@ EXCEPT ![job.found] = review]]

\* editComment() or publishComment(): done, refused, or done with its answer
\* lost. An edit is announced by a comment of its own.
WriteComment(i) ==
  /\ At(i, "write")
  /\ \/ /\ comments' = Written(jobs[i])
        /\ Go(i, [jobs[i] EXCEPT !.at = IF jobs[i].found = 0 THEN "finish" ELSE "announce"])
        /\ UNCHANGED budget
     \/ /\ Spend("fault")
        /\ comments' \in {comments, Written(jobs[i])}
        /\ Throw(i)
  /\ UNCHANGED <<head, open, deliveries, records, asked>>

\* "updated to latest commit", when finalUpdateMessage is on. The review is
\* already on the pull request if this call fails.
Announce(i) ==
  LET k == jobs[i].pr
      note == [opens |-> "note", head |-> jobs[i].head]
  IN  /\ At(i, "announce")
      /\ \/ /\ comments' = [comments EXCEPT ![k] = Append(@, note)]
            /\ Go(i, [jobs[i] EXCEPT !.at = "finish"])
            /\ UNCHANGED budget
         \/ /\ Spend("fault")
            /\ Throw(i)
            /\ UNCHANGED comments
      /\ UNCHANGED <<head, open, deliveries, records, asked>>

\* A mutant of Outcome: a review that threw is logged and swallowed.
OutcomeAlwaysSuccess(job) == "success"

Outcome(job) == IF job.threw THEN "failed" ELSE "success"

\* history.finish(): the row, if there is one. A failed update is swallowed.
Finish(i) ==
  LET job == jobs[i]
      done == [pr |-> job.pr, status |-> Outcome(job),
               head |-> IF job.threw THEN 0 ELSE job.head]
  IN  /\ At(i, "finish")
      /\ \/ /\ rows' = IF job.row = 0 THEN rows ELSE [rows EXCEPT ![job.row] = done]
            /\ UNCHANGED budget
         \/ /\ job.row # 0
            /\ Spend("fault")
            /\ UNCHANGED rows
      /\ Go(i, [job EXCEPT !.at = "count"])
      /\ UNCHANGED <<github, counted, asked>>

\* appendAnalyticsEvent(): an append that fails is dropped.
Logged(outcome) ==
  \/ counted' = [counted EXCEPT ![outcome] = @ + 1] /\ UNCHANGED budget
  \/ Spend("fault") /\ UNCHANGED counted

\* recordReviewAnalytics(), which never throws; runJob() returns or rethrows,
\* and the queue goes on.
Count(i) ==
  /\ At(i, "count")
  /\ Logged(Outcome(jobs[i]))
  /\ QueueStep(RemoveAt(jobs, i))
  /\ Queue!End(i)
  /\ decided' = IF jobs[i].threw THEN decided \ {jobs[i].pr} ELSE decided \cup {jobs[i].pr}
  /\ UNCHANGED <<github, rows, asked>>

Step(i) ==
  \/ Start(i) \/ GetPr(i) \/ GetFiles(i) \/ AskModel(i) \/ ListComments(i)
  \/ WriteComment(i) \/ Announce(i) \/ Finish(i) \/ Count(i)

\* The server is killed and started again.
Restart ==
  /\ Spend("kill")
  /\ jobs' = <<>>
  /\ Queue!Restart
  /\ UNCHANGED decided
  /\ UNCHANGED <<github, records, asked>>

Next ==
  \/ QueueBegins
  \/ \E k \in PRs : Push(k) \/ Trigger(k) \/ Close(k) \/ Talk(k)
  \/ \E d \in deliveries : Deliver(d)
  \/ \E i \in DOMAIN jobs : Step(i)
  \/ Restart

Spec == Init /\ [][Next]_vars

----------------------------------------------------------------------------
TypeOK ==
  /\ wanted \in [PRs -> Nat]
  /\ owed \subseteq PRs
  /\ decided \subseteq PRs
  /\ \A i \in DOMAIN jobs :
       /\ jobs[i].pr \in PRs /\ jobs[i].at \in Stages
       /\ jobs[i].row \in 0..Len(rows)
       /\ jobs[i].head \in 0..MaxHeads
       /\ jobs[i].found \in 0..Len(comments[jobs[i].pr])
       /\ jobs[i].model \in 1..Models /\ jobs[i].tries \in 0..Retries
       /\ jobs[i].threw \in BOOLEAN
  /\ head \in [PRs -> 0..MaxHeads]
  /\ open \subseteq PRs
  /\ \A d \in deliveries : d.pr \in PRs
  /\ \A r \in DOMAIN rows :
       rows[r].pr \in PRs /\ rows[r].status \in {"queued", "success", "failed"}
  /\ {counted.success, counted.failed} \subseteq Nat
  /\ asked \in [PRs -> Nat]

\* The comments of a pull request that are reviews.
Reviews(k) == {c \in DOMAIN comments[k] : comments[k][c].opens # "note"}

\* A row the dashboard shows as a success describes a review that is on the
\* pull request, for its commit or a later one, through calls whose answer is
\* lost, failed reviews that had published and kills between the two writes.
SuccessIsShown ==
  \A r \in DOMAIN rows :
    rows[r].status = "success" =>
      \E c \in Reviews(rows[r].pr) : comments[rows[r].pr][c].head >= rows[r].head

\* "a full, billable LLM review for every PR that was merged or closed": closing
\* one buys nothing. Every review that begins has a webhook of its own that asked
\* for it (a push, another event, the worker's, or one of them delivered again
\* after an answer was lost), or repeats one a restart cut off, whatever the queue
\* coalesces, refuses or begins later.
ReviewsPaidFor ==
  \A k \in PRs :
    Cardinality({r \in DOMAIN rows : rows[r].pr = k})
      <= asked[k] + (MaxKills - budget.kill)

\* "find a previous comment ... and update it in place": a pull request whose
\* review is among the comments listed has that one alone, however often it is
\* reviewed and whichever call failed, as long as one review of it runs at a time
\* and its reviews open with the header.
OneReviewComment ==
  Durable => \A k \in PRs \ Bumps :
    (\E c \in Reviews(k) : c <= CommentPage) => Cardinality(Reviews(k)) = 1

\* "updated until commit": a review comment never goes back to an older commit
\* when one review of a pull request runs at a time.
CommitNeverGoesBack ==
  [][Durable => \A k \in PRs : \A c \in Reviews(k) :
       comments'[k][c].head >= comments[k][c].head]_vars

\* The comment above the publication, "persistent comment (replace prev "## PR
\* Reviewer Guide")", for every pull request.
PersistentComment == \A k \in PRs : Cardinality(Reviews(k)) <= 1
=============================================================================
