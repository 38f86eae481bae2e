----------------------------- MODULE ModelRuns -----------------------------
(***************************************************************************)
(* application.py, _respond_to_message and start_reckoning, over the       *)
(* adapter of provider_adapters.py and the classes of                      *)
(* conversation_safety.py: one message answered, or one situation reckoned,*)
(* with the run record it leaves.                                          *)
(*                                                                         *)
(* A message is the kinds of its clauses.  What the model returns is what  *)
(* the output policy finds in it.  `attempts` counts the requests the      *)
(* provider received: the code keeps no such count, only what the adapter  *)
(* reports becomes the record.                                             *)
(***************************************************************************)
EXTENDS Naturals, FiniteSets

CONSTANTS
    MaxRetries,     \* of the adapter (2 in the installed application)
    Nothing

VARIABLES
    task,           \* what is asked: a message or a reckoning, and its clauses
    stage,          \* "asked", "calling", "answered", "failed", "writing", "done"
    attempts,       \* requests the provider has received
    content,        \* what the provider returned
    reported,       \* the calls the adapter reports with an answer or a failure
    record,         \* the run record, or Nothing
    left,           \* what is still to be appended to the transcript
    transcript,     \* what the transcript gained
    reply,          \* what the caller is going to get
    outcome         \* what it got: a speech, "raised", or Nothing yet

modelrun == <<task, stage, attempts, content, reported, record, left, transcript, reply, outcome>>

ClauseKinds == {"self", "other", "ambiguous", "quotation", "hypothetical", "historical", "none"}
Tasks == [kind : {"message"}, clauses : (SUBSET ClauseKinds) \ {{}},
          limited : BOOLEAN, kept : BOOLEAN]
            \cup [kind : {"reckoning"}, clauses : {{"none"}}, limited : {FALSE}, kept : {FALSE}]
\* What may be found in an answer: a prohibited fragment outside quotation
\* marks, one inside them, and whether the text frames it as discussion. An
\* answer of no use is an empty text or no reckoning.
Contents == [usable : BOOLEAN, unquoted : BOOLEAN, quoted : BOOLEAN, framed : BOOLEAN]
Useless == [usable |-> FALSE, unquoted |-> FALSE, quoted |-> FALSE, framed |-> FALSE]
Answers == {Useless} \cup {c \in Contents : c.usable}

Replies == {"model", "replacement", "emergency", "uncertain", "raised", Nothing}

TypeOK ==
    /\ task \in Tasks
    /\ stage \in {"asked", "calling", "answered", "failed", "writing", "done"}
    /\ attempts \in 0..MaxRetries + 1 /\ reported \in 0..MaxRetries + 1
    /\ content \in Answers
    /\ record \in [status : {"succeeded", "limited", "failed"}, calls : 0..MaxRetries + 1]
                    \cup {Nothing}
    /\ left \subseteq {"user", "assistant"} /\ transcript \subseteq {"user", "assistant"}
    /\ reply \in Replies /\ outcome \in Replies

Init ==
    /\ task \in Tasks
    /\ stage = "asked" /\ attempts = 0 /\ reported = 0
    /\ content = Useless /\ record = Nothing
    /\ left = {} /\ transcript = {}
    /\ reply = Nothing /\ outcome = Nothing

-----------------------------------------------------------------------------
(* What the application itself says.                                       *)

\* A clause that is only talk settles it (a mutant).
DangerOfTalk(clauses) ==
    IF clauses \cap {"quotation", "historical", "hypothetical"} # {} THEN "discussed"
    ELSE IF "self" \in clauses THEN "self"
    ELSE IF "other" \in clauses THEN "other"
    ELSE IF "ambiguous" \in clauses THEN "ambiguous"
    ELSE "none"

\* classify_danger: the worst clause decides; a quoted, past or supposed one
\* does not hide another.
Danger(clauses) ==
    IF "self" \in clauses THEN "self"
    ELSE IF "other" \in clauses THEN "other"
    ELSE IF "ambiguous" \in clauses THEN "ambiguous"
    ELSE IF clauses \cap {"quotation", "historical", "hypothetical"} # {} THEN "discussed"
    ELSE "none"

DangerResponse(danger) ==
    IF danger \in {"self", "other"} THEN "emergency"
    ELSE IF danger = "ambiguous" THEN "uncertain"
    ELSE Nothing

\* The record is saved; the transcript, if the session keeps one, comes next.
Recorded(status, calls, roles, says) ==
    /\ record' = [status |-> status, calls |-> calls]
    /\ left' = IF task.kept THEN roles ELSE {}
    /\ reply' = says
    /\ stage' = "writing"
    /\ UNCHANGED <<task, attempts, content, reported, transcript, outcome>>

\* One append, one line written: the user's first.
Append(role) ==
    /\ stage = "writing" /\ role \in left
    /\ role = "assistant" => "user" \notin left
    /\ left' = left \ {role} /\ transcript' = transcript \cup {role}
    /\ UNCHANGED <<task, stage, attempts, content, reported, record, reply, outcome>>

Tell ==
    /\ stage = "writing" /\ left = {}
    /\ outcome' = reply /\ stage' = "done"
    /\ UNCHANGED <<task, attempts, content, reported, record, left, transcript, reply>>

\* Answered without the provider.
Safeguard ==
    LET response == DangerResponse(Danger(task.clauses))
    IN  /\ stage = "asked" /\ task.kind = "message"
        /\ response # Nothing
        /\ Recorded("limited", 0, {"user", "assistant"}, response)

Send ==
    /\ stage = "asked"
    /\ task.kind = "message" => DangerResponse(Danger(task.clauses)) = Nothing
    /\ stage' = "calling"
    /\ UNCHANGED <<task, attempts, content, reported, record, left, transcript, reply, outcome>>

\* No grant for a required category, or required material over the budget.
Refuse ==
    /\ stage = "asked"
    /\ task.kind = "message" => DangerResponse(Danger(task.clauses)) = Nothing
    /\ outcome' = "raised" /\ stage' = "done"
    /\ UNCHANGED <<task, attempts, content, reported, record, left, transcript, reply>>

-----------------------------------------------------------------------------
(* The adapter. OpenAICompatibleAdapter._chat, _send_anthropic and the     *)
(* Gemini _chat repeat the same loop; only what ends it early differs.     *)

Attempt(next, report) ==
    /\ stage = "calling"
    /\ attempts' = attempts + 1
    /\ stage' = next /\ reported' = report
    /\ UNCHANGED <<task, record, left, transcript, reply, outcome>>

\* The retries alone (a mutant).
RetriesOnly(n) == n - 1

\* The calls reported with an answer: its retries and the first call.
Calls(n) == n

Answer(answer) ==
    /\ Attempt("answered", Calls(attempts + 1))
    /\ content' = answer

\* A status of 5xx or 429, or no connection, is tried again.
Unreachable ==
    /\ IF attempts < MaxRetries THEN Attempt("calling", 0)
       ELSE Attempt("failed", Calls(attempts + 1))
    /\ UNCHANGED content

\* Any other status, and an answer that cannot be read, ends it.
Rejected ==
    /\ Attempt("failed", Calls(attempts + 1))
    /\ UNCHANGED content

\* An answer cut off before any text is raised from within the attempt,
\* past the count the loop keeps.
CutOff ==
    /\ Attempt("failed", 0)
    /\ UNCHANGED content

\* What no handler of the adapter or the application expects.
Unexpected ==
    /\ stage = "calling"
    /\ attempts' = attempts + 1
    /\ outcome' = "raised" /\ stage' = "done"
    /\ UNCHANGED <<task, content, reported, record, left, transcript, reply>>

-----------------------------------------------------------------------------
(* What becomes of the answer.                                             *)

\* Any quotation will do (a mutant).
PolicyTakesQuotes(c) == IF c.unquoted THEN "replace" ELSE "allow"

\* classify_output.
Policy(c) ==
    IF c.unquoted THEN "replace"
    ELSE IF c.quoted /\ ~c.framed THEN "uncertain"
    ELSE "allow"

ToUser == task.kind = "message"

Fail ==
    /\ stage = "failed"
    /\ Recorded("failed", reported, {"user"}, "raised")

\* A message with no answer in it, or a reckoning that is not one.
Unusable ==
    /\ stage = "answered" /\ ~content.usable
    /\ Recorded("failed", reported, {"user"}, "raised")

Deliver ==
    LET spoken == IF Policy(content) = "allow" THEN "model" ELSE "replacement"
        full   == ~task.limited /\ spoken = "model" /\ Danger(task.clauses) = "none"
    IN  /\ stage = "answered" /\ ToUser /\ content.usable
        /\ Recorded(IF full THEN "succeeded" ELSE "limited", reported,
                    {"user", "assistant"}, spoken)

Reckon ==
    /\ stage = "answered" /\ ~ToUser /\ content.usable
    /\ IF Policy(content) = "allow" THEN Recorded("succeeded", reported, {}, "model")
       ELSE Recorded("limited", reported, {}, "raised")

\* The process ends with a call under way, an answer not yet recorded or a
\* transcript half written.
Die ==
    /\ stage # "done" /\ stage' = "done"
    /\ UNCHANGED <<task, attempts, content, reported, record, left, transcript, reply, outcome>>

Next ==
    \/ Safeguard \/ Send \/ Refuse
    \/ \E c \in Answers : Answer(c)
    \/ Unreachable \/ Rejected \/ CutOff \/ Unexpected
    \/ Fail \/ Unusable \/ Deliver \/ Reckon
    \/ \E role \in {"user", "assistant"} : Append(role)
    \/ Tell \/ Die

Spec == Init /\ [][Next]_modelrun

-----------------------------------------------------------------------------

(* Current danger anywhere in a message is answered by the application     *)
(* itself and never reaches a provider, whatever quoted, past or supposed  *)
(* danger stands beside it; a boundary the answer crosses is never spoken  *)
(* (classify_danger, classify_output, _respond_to_message).                *)
SpeechIsSafe ==
    /\ task.clauses \cap {"self", "other"} # {} =>
          attempts = 0 /\ reply \in {"emergency", Nothing}
    /\ reply = "model" => ~content.unquoted /\ (content.quoted => content.framed)

(* Whatever was tried again on the way, and wherever the process ends, no  *)
(* word of an answer reaches the user or the transcript without a record   *)
(* of it that counts every request the provider received, and that says it *)
(* succeeded only if nothing limited it (_chat, respond, _model_run_record *)
(* and the order of the writes in _respond_to_message).                    *)
AnswerIsOnRecord ==
    outcome \in Replies \ {"raised", Nothing} \/ "assistant" \in transcript =>
       /\ record # Nothing /\ record.status # "failed" /\ record.calls = attempts
       /\ record.status = "succeeded" =>
             ~task.limited /\ task.clauses = {"none"} /\ reply = "model"
       /\ task.kept => "user" \in transcript

(* The record of a failed run counts the requests the provider received    *)
(* (asserted of an unreachable provider by tests/test_cloud_provider_run). *)
(* It does not hold after CutOff, and no run checks it.                    *)
FailureCountsCalls ==
    record # Nothing /\ record.status = "failed" => record.calls = attempts
=============================================================================
