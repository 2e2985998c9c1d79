---------------------------- MODULE ReviewVerdict ----------------------------
(***************************************************************************)
(* From what the model answered to what the worker makes of it: the api    *)
(* renders the answer as a table of rows (markdown.ts) and the worker      *)
(* reads the rows back and scores them (safety.ts).                        *)
(*                                                                         *)
(* An answer is [security, issues, effort, error]. The texts are told      *)
(* apart by how they begin, which is all that either side looks at:        *)
(*   "absent"   the field was not answered                                 *)
(*   "none"     "No", or an empty list of issues                           *)
(*   "denied"   a finding whose first word is No: "No, but see line 40"    *)
(*   "headed"   a finding that begins with a markdown heading, "### ...",  *)
(*              or with an emoji that heads a section                     *)
(*   "reported" any other finding                                          *)
(* error: a text holds one of ERROR_PATTERNS, "traceback" for example.     *)
(*                                                                         *)
(* No row that markdown.ts renders can match ISSUES_DANGER, TEST_MISSING   *)
(* or TEST_IRRELEVANT with an effect: the findings are not on the line of  *)
(* the emoji. The score stays within 3..10, so its clamp never acts.       *)
(***************************************************************************)
EXTENDS Integers

Readings == {"none", "denied", "headed", "reported"}

Answers == [security : Readings \cup {"absent"},
            issues   : Readings \cup {"absent"},
            effort   : 0..5,          \* 0: not a number, no row
            error    : BOOLEAN]

----------------------------------------------------------------------------
(* markdown.ts.                                                            *)

\* isValueNo: the first word decides.
IsValueNo(text) == text \in {"none", "denied"}

\* The rows: a heading says that there is nothing, or names the field and has
\* the text under it. An empty list of issues is rendered with a filler that
\* begins with No; security concerns that are not answered have no row.
SecurityRow(a) ==
  IF a.security = "absent" THEN [row |-> "absent"]
  ELSE IF IsValueNo(a.security) THEN [row |-> "clear"]
  ELSE [row |-> "text", text |-> a.security]

IssuesRow(a) ==
  IF a.issues = "absent" THEN [row |-> "absent"] ELSE [row |-> "text", text |-> a.issues]

----------------------------------------------------------------------------
(* safety.ts.                                                              *)

\* What is left of a row without its heading. A line that begins with a
\* markdown heading or a section's emoji ends the row (SEC_SECTION_END): of a text
\* that begins with one nothing is left.
Detail(row) == IF row.text = "headed" THEN "nothing" ELSE row.text

Negated(detail) == detail \in {"nothing", "none", "denied"}

\* readSecurityRow.
SecurityVerdict(a) ==
  LET r == SecurityRow(a)
  IN IF r.row # "text" THEN r.row
     ELSE IF Negated(Detail(r)) THEN "clear" ELSE "concern"

\* readIssuesRow.
IssuesVerdict(a) ==
  LET r == IssuesRow(a)
  IN IF r.row # "text" THEN "absent"
     ELSE IF Negated(Detail(r)) THEN "clear" ELSE "reported"

Score(a) ==
  5 + (IF SecurityVerdict(a) = "clear" THEN 2 ELSE 0)
    + (IF IssuesVerdict(a) = "clear" THEN 2 ELSE -1)
    + (IF a.effort >= 4 THEN -1 ELSE 1)

\* Mutant of Safe: the concern only costs points.
SafeByScore(a) == ~a.error /\ Score(a) >= 6

\* analyzeReviewSafety.
Safe(a) ==
  /\ ~a.error
  /\ SecurityVerdict(a) # "concern"
  /\ Score(a) >= 6

----------------------------------------------------------------------------
(* What a verdict should be. Badness orders the answers of a field.        *)

Badness(text) == IF text = "none" THEN 0 ELSE IF text = "absent" THEN 1 ELSE 2

\* An answer is at least as bad as another in every respect.
AtLeastAsBad(a, b) ==
  /\ Badness(b.security) <= Badness(a.security)
  /\ Badness(b.issues) <= Badness(a.issues)
  /\ b.effort <= a.effort
  /\ b.error => a.error

\* A field whose text is read for what it says.
Plain(a) == {a.security, a.issues} \cap {"denied", "headed"} = {}
=============================================================================
