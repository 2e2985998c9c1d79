----------------------------- MODULE DiffBudget -----------------------------
(***************************************************************************)
(* Which part of a pull request the api shows to the model, and what it    *)
(* says of the rest: getDiffFiles of provider.ts, getPrDiff and            *)
(* generateFullPatch of budget.ts, getPrMultiDiffs of multi.ts, and the    *)
(* facts about dependencies that review.ts computes from the same files;   *)
(* then what improve.ts makes of the answers to its chunks, which it asks  *)
(* for all at the same time.                                               *)
(*                                                                         *)
(* A text has as many tokens as it has lines. GitHub gives a patch for     *)
(* every file, and the contents that could be loaded are those of the      *)
(* commits the patch is between.                                           *)
(***************************************************************************)
EXTENDS Hunks

CONSTANTS
  Inputs,    \* the pull requests, with the configuration of each
  Context,   \* lines of context in GitHub's patches
  Page,      \* files GitHub lists on a page
  MaxFull,   \* MAX_FILES_ALLOWED_FULL
  MaxNamed,  \* files the notice of a review names
  MaxCalls,  \* chunks improve.ts asks for
  Attempts,  \* what callWithFallback asks the models for one chunk
  MaxLost    \* bound: contents that could not be loaded

\* `quotes` are the lines with "no newline at end of file" in their text.
File == [name : Nat, script : Seq({"=", "+", "-"}), quotes : SUBSET Nat,
         main : BOOLEAN, section : Nat,
         kind : {"code", "prose", "manifest", "lockfile", "bunlock", "image"}]

\* The thresholds are whatever number the environment gives.
Config == [before : Nat, after : Nat, dynamic : Nat, soft : Int, hard : Int,
           max : Nat, prompt : Nat]

ASSUME DiffInputsAssumption ==
  \A i \in Inputs : i.pr \in Seq(File) /\ i.cfg \in Config
ASSUME DiffSizesAssumption ==
  {Context, Page, MaxFull, MaxNamed, MaxCalls, MaxLost} \subseteq Nat /\ Attempts \in Nat \ {0}

VARIABLES
  pr,      \* the files of the pull request
  cfg,     \* [before, after, dynamic, soft, hard, max, prompt]
  listed,  \* what getDiffFiles returned
  review,  \* what getPrDiff returned
  facts,   \* what analyseDependencyPr returned
  chunks,  \* what getPrMultiDiffs returned
  tries,   \* attempts that failed, of each chunk
  preds,   \* the suggestions of each chunk, or Null
  data,    \* the suggestions of the comment, in order
  answers, \* ghost: the last body the model sent for each chunk
  pc

diffs == <<pr, cfg, listed, review, facts, chunks>>
calls == <<tries, preds, data, answers>>
diffVars == <<diffs, calls, pc>>

None == [none |-> TRUE]

DiffInit ==
  /\ \E i \in Inputs : pr = i.pr /\ cfg = i.cfg
  /\ listed = <<>>
  /\ review = None
  /\ facts = None
  /\ chunks = <<>>
  /\ tries = <<>> /\ preds = <<>> /\ data = <<>> /\ answers = <<>>
  /\ pc = "list"

----------------------------------------------------------------------------
(* provider.ts getDiffFiles, filter.ts.                                    *)

\* isGeneratedOrInvalidFile: most lockfiles, but not bun.lock.
Generated(f) == f.kind \in {"image", "lockfile"}

PatchOf(f) == Patch(f.script, Context)

\* `base` and `head`: the content before and after was loaded.
Listed(f, base, head) ==
  [name |-> f.name, script |-> f.script, quotes |-> f.quotes, kind |-> f.kind,
   main |-> f.main, section |-> f.section, base |-> base, head |-> head]

\* The first page of files, without the generated ones and those whose content
\* did not change. The contents of the first MaxFull - 1 are loaded, but for
\* those in `lost`: getRepoFileContent answers "" when the request fails.
DiffFiles(files, lost) ==
  LET page == {k \in DOMAIN files : k <= Page}
      valid == Pick(files, {k \in page : ~Generated(files[k])})
      numbered == [k \in DOMAIN valid |->
                     Listed(valid[k], k < MaxFull /\ <<k, "base">> \notin lost,
                                      k < MaxFull /\ <<k, "head">> \notin lost)]
  IN Pick(numbered, {k \in DOMAIN numbered : PatchOf(numbered[k]) # <<>>})

----------------------------------------------------------------------------
(* budget.ts.                                                              *)

\* sortFilesByMainLanguages, for one main language.
MainFirst(files) ==
  Pick(files, {k \in DOMAIN files : files[k].main})
    \o Pick(files, {k \in DOMAIN files : ~files[k].main})

Extended(f) ==
  IF ~f.base \/ f.kind = "prose" THEN PatchOf(f)
  ELSE ExtendPatch(f.script, f.head, PatchOf(f), f.section, cfg)

\* The lines of a patch, the header of each hunk being its line 0.
RawLines(patch) == UNION {{k} \X (0..Len(patch[k].lines)) : k \in DOMAIN patch}

\* The whole diff with its prompt.
Whole(files) ==
  cfg.prompt + Cardinality(UNION {{k} \X RawLines(Extended(files[k])) :
                                    k \in DOMAIN files})

Removed(f) == HeadFile(f.script) = <<>>

\* handlePatchDeletions: a file that is gone, or that only loses lines, has
\* nothing to show.
Kept(f) == IF Removed(f) THEN <<>> ELSE OmitDeletionHunks(f.script, PatchOf(f))

\* The lines of converted hunks: the new part of each under its heading, the
\* old one too, if they have any.
Under(heading, lines) == IF lines = <<>> THEN {} ELSE {heading} \X (0..Len(lines))
Printed(hunks) ==
  UNION {{k} \X (Under("new", hunks[k].new) \cup Under("old", hunks[k].old)) :
           k \in DOMAIN hunks}

Compressed(f) ==
  [name |-> f.name,
   tokens |-> 1 + Cardinality(Printed(Converted(f.script, f.quotes, Kept(f))))]

Compressible(files) ==
  LET some == Pick(files, {k \in DOMAIN files : Kept(files[k]) # <<>>})
  IN [k \in DOMAIN some |-> Compressed(some[k])]

Unlimited == cfg.soft <= 0 \/ cfg.soft >= cfg.max

\* Mutants of Fill: the first file that does not fit ends the diff, and only
\* it is named; the size of the file itself is not counted.
FillUntilFull(acc, d) ==
  IF acc.remaining # <<>> THEN acc
  ELSE IF acc.total + d.tokens > cfg.max - cfg.soft
    THEN [acc EXCEPT !.remaining = Append(@, d.name)]
  ELSE [acc EXCEPT !.shown = Append(@, d.name), !.total = @ + d.tokens]

FillWhileRoom(acc, d) ==
  IF acc.total > cfg.max - cfg.hard
    THEN [acc EXCEPT !.remaining = Append(@, d.name)]
  ELSE [acc EXCEPT !.shown = Append(@, d.name), !.total = @ + d.tokens]

\* One file of generateFullPatch.
Fill(acc, d) ==
  IF \/ acc.total > Larger(cfg.max - cfg.hard, 0)
     \/ /\ acc.total + d.tokens > Larger(cfg.max - cfg.soft, 0)
        /\ ~Unlimited
    THEN [acc EXCEPT !.remaining = Append(@, d.name)]
  ELSE [acc EXCEPT !.shown = Append(@, d.name), !.total = @ + d.tokens]

Unfilled == [shown |-> <<>>, remaining |-> <<>>, total |-> cfg.prompt]
Filled(ds) == FoldLeft(Fill, Unfilled, ds)

\* A heading of getPrDiff with no file under it and its separator, if there is
\* room for a line. The words "...(truncated)", which clipTokens adds after it
\* has cut a text in the middle of a line, have no counterpart in lines.
Headed(total) == IF cfg.max - cfg.hard - total > 0 THEN total + 2 ELSE total

PrDiff(all) ==
  LET files == MainFirst(all)
      names == [k \in DOMAIN files |-> files[k].name]
      filled == Filled(Compressible(files))
  IN IF Whole(files) + cfg.soft < cfg.max
       THEN [shown |-> names, remaining |-> <<>>, total |-> Whole(files)]
       ELSE [filled EXCEPT !.total = Headed(Headed(Headed(@)))]

\* largePrNotice of review.ts: the first names, and how many more there are.
Notice(remaining) ==
  LET named == SubSeq(remaining, 1, Smaller(MaxNamed, Len(remaining)))
  IN [named |-> named, more |-> Len(remaining) - Len(named)]

----------------------------------------------------------------------------
(* multi.ts.                                                               *)

Flush(acc) ==
  IF acc.current = <<>> THEN acc
  ELSE [acc EXCEPT !.done = Append(@, acc.current), !.current = <<>>, !.tokens = 0]

Put(acc, d) ==
  [acc EXCEPT !.current = Append(@, d), !.tokens = @ + d.tokens]

\* One file of the chunked path; files past the last call are dropped.
Chunk(acc, d) ==
  IF acc.call > MaxCalls THEN acc
  ELSE IF acc.tokens + d.tokens > cfg.max - cfg.soft /\ acc.current # <<>>
    THEN LET next == [Flush(acc) EXCEPT !.call = @ + 1]
         IN IF next.call > MaxCalls THEN next ELSE Put(next, d)
  ELSE Put(acc, d)

\* Of two files of the same size the first comes first.
LargestFirst(ds) ==
  LET ahead(i) == {j \in DOMAIN ds : \/ ds[j].tokens > ds[i].tokens
                                     \/ ds[j].tokens = ds[i].tokens /\ j <= i}
  IN [k \in DOMAIN ds |-> ds[CHOOSE i \in DOMAIN ds : Cardinality(ahead(i)) = k]]

NoChunk == [done |-> <<>>, current |-> <<>>, tokens |-> 0, call |-> 1]
Chunked(ds) == FoldLeft(Chunk, NoChunk, ds)

\* The chunks, or the whole diff as one when it fits or nothing else is left.
MultiDiffs(files) ==
  LET acc == Flush(Chunked(LargestFirst(Compressible(files))))
      whole == << [k \in DOMAIN files |->
                     [name |-> files[k].name,
                      tokens |-> Cardinality(RawLines(Extended(files[k])))]] >>
  IN IF Whole(files) + cfg.soft < cfg.max \/ acc.done = <<>> THEN whole ELSE acc.done

----------------------------------------------------------------------------
(* dependency-facts.ts analyseDependencyPr.                                *)

Lockfile(f) == f.kind \in {"lockfile", "bunlock"}

Analysed(files) ==
  LET manifests == {f \in Range(files) : f.kind = "manifest"}
      locked == {f \in Range(files) : Lockfile(f)}
  IN [dependencyPr |-> manifests # {} /\ Range(files) \subseteq manifests \cup locked,
      unlocked |-> manifests # {} /\ locked = {}]

----------------------------------------------------------------------------
ListFiles ==
  /\ pc = "list"
  /\ \E lost \in SUBSET ((DOMAIN pr) \X {"base", "head"}) :
       /\ Cardinality(lost) <= MaxLost
       /\ listed' = DiffFiles(pr, lost)
  /\ pc' = "review"
  /\ UNCHANGED <<pr, cfg, review, facts, chunks, calls>>

\* The review tool: the diff it sends, the facts it leads with.
Review ==
  /\ pc = "review"
  /\ review' = PrDiff(listed)
  /\ facts' = Analysed(listed)
  /\ pc' = "improve"
  /\ UNCHANGED <<pr, cfg, listed, chunks, calls>>

----------------------------------------------------------------------------
(* improve.ts.                                                             *)

\* A chunk without an accepted answer.
Null == <<None>>

\* The chunks it sends. Without a file it stops.
Improve ==
  /\ pc = "improve" /\ listed # <<>>
  /\ chunks' = MultiDiffs(listed)
  /\ tries' = [i \in DOMAIN chunks' |-> 0]
  /\ preds' = [i \in DOMAIN chunks' |-> Null]
  /\ answers' = [i \in DOMAIN chunks' |-> "unusable"]
  /\ pc' = "asking"
  /\ UNCHANGED <<pr, cfg, listed, review, facts, data>>

\* What a model may send: no list, an empty one, a suggestion with a score, one
\* whose score is no number ("8/10").
Bodies == {"unusable", "none", "scored", "unscored"}

\* Mutant of parseSuggestionsYaml: a body that is no list is an empty one.
ParsedAsNothing(body, i) ==
  IF body \in {"unusable", "none"} THEN <<>>
  ELSE << [chunk |-> i, scored |-> body = "scored"] >>

\* null for a body that is no list, which costs the attempt.
parseSuggestionsYaml(body, i) ==
  CASE body = "unusable" -> Null
    [] body = "none" -> <<>>
    [] OTHER -> << [chunk |-> i, scored |-> body = "scored"] >>

\* One attempt of callChunk; one that fails without a body is an unusable one.
\* The chunk that has no attempt left rejects Promise.all, and nothing is
\* published of the others.
callChunk(i) ==
  /\ pc = "asking" /\ preds[i] = Null
  /\ \E body \in Bodies :
       /\ answers' = [answers EXCEPT ![i] = body]
       /\ preds' = [preds EXCEPT ![i] = parseSuggestionsYaml(body, i)]
       /\ tries' = [tries EXCEPT ![i] = IF preds'[i] = Null THEN @ + 1 ELSE @]
       /\ pc' = IF tries'[i] = Attempts THEN "failed" ELSE pc
  /\ UNCHANGED <<diffs, data>>

\* The lists in the order of the chunks, without the scores below 0, and a
\* score that is no number is not above it either.
Published ==
  /\ pc = "asking" /\ \A i \in DOMAIN preds : preds[i] # Null
  /\ LET merged == FlattenSeq(preds)
     IN data' = Pick(merged, {k \in DOMAIN merged : merged[k].scored})
  /\ pc' = "published"
  /\ UNCHANGED <<diffs, tries, preds, answers>>

DiffNext ==
  \/ ListFiles \/ Review \/ Improve
  \/ \E i \in DOMAIN preds : callChunk(i)
  \/ Published

DiffSpec == DiffInit /\ [][DiffNext]_diffVars
----------------------------------------------------------------------------
Adds(f) == \E i \in DOMAIN f.script : f.script[i] = "+"
JustListed == pc = "review"
Reviewed == review # None

(* A line the model is shown with a number has that number in the new file,   *)
(* and no added line is lost (hunk.ts): suggestions are placed by it. Files    *)
(* with the words "no newline at end of file" in a line are excepted.          *)
NumbersAreTrue ==
  JustListed => \A k \in DOMAIN listed : listed[k].quotes = {} =>
    LET f == listed[k]
        hunks == Converted(f.script, f.quotes, OmitDeletionHunks(f.script, PatchOf(f)))
        shown == UNION {{h.new[n] : n \in DOMAIN h.new} : h \in Range(hunks)}
    IN /\ \A x \in shown : x.number \in DOMAIN HeadFile(f.script)
                             /\ HeadFile(f.script)[x.number] = x.line
       /\ \A i \in DOMAIN f.script : f.script[i] = "+" =>
            \E x \in shown : x.line = i

(* The context extendPatch adds is there, if the new content was loaded: it is *)
(* lines both files have, or the empty piece after the last of them, and       *)
(* without its added lines an extended hunk is a part of the old file, without *)
(* its removed lines a part of the new one, each from the line its header      *)
(* names (extend.ts).                                                          *)
ContextIsReal ==
  JustListed => \A k \in DOMAIN listed : listed[k].head =>
    LET t == Split(listed[k].script)
        part(lines, file, start) ==
          lines = <<>> \/ lines = SubSeq(file, start, start + Len(lines) - 1)
    IN \A h \in Range(Extended(listed[k])) :
         /\ \A i \in h.extra : t[i] = "="
         /\ part(Unmarked(t, h.lines, "+"), BaseFile(t), h.start1)
         /\ part(Unmarked(t, h.lines, "-"), HeadFile(t), h.start2)

(* A file with new lines that was listed is in the prompt or named in the      *)
(* notice of the comment, or it is one of those the notice counts when there   *)
(* are too many to name, however the budget falls (review.ts largePrNotice).   *)
ReadOrNamed ==
  Reviewed =>
    LET notice == Notice(review.remaining)
        told == Range(review.shown) \cup Range(notice.named)
        untold == {listed[k].name : k \in {k \in DOMAIN listed : Adds(listed[k])}} \ told
    IN Cardinality(untold) <= notice.more

(* With thresholds that limit it, the prompt of a review fits the window of   *)
(* its model, if the prompt without the diff does.                            *)
PromptFits ==
  Reviewed /\ ~Unlimited /\ cfg.hard > 0 /\ cfg.prompt <= cfg.max - cfg.soft =>
    review.total <= cfg.max

(* The comment of the improve tool says what the model answered: it is written *)
(* only when every chunk was answered, in whatever order, it has the scored    *)
(* suggestions of each, in the order of the chunks, and so "No suggestions     *)
(* found" never stands for a chunk that failed (improve.ts callChunk).         *)
SuggestionsComplete ==
  pc = "published" =>
    /\ \A i \in DOMAIN chunks :
         /\ answers[i] # "unusable"
         /\ answers[i] = "scored" => \E k \in DOMAIN data : data[k].chunk = i
    /\ \A k, l \in DOMAIN data : k <= l => data[k].chunk <= data[l].chunk

(* "merge + filter by score threshold (default 0 -> keep all)": the comment    *)
(* says nothing was found only if the model found nothing.                     *)
AllScoresKept ==
  pc = "published" /\ data = <<>> => \A i \in DOMAIN chunks : answers[i] = "none"

(* "Lockfile not updated" is said only of a pull request that updates none    *)
(* (dependency-facts.ts: "it is right even when the model is weak").          *)
LockfileFactTrue ==
  facts # None /\ facts.dependencyPr /\ facts.unlocked =>
    ~\E k \in DOMAIN pr : Lockfile(pr[k])
=============================================================================
