----------------------------- MODULE ProbeCall -----------------------------
(***************************************************************************)
(* One call of a prober (probers/), from the request to what the scheduler *)
(* and the services make of its outcome: stream_chat with its search for   *)
(* the terminator, the list_models of the three kinds of provider, the     *)
(* mapping of statuses and exceptions, the watchdog of _execute_probe, and *)
(* the model status and cooldown behind it.                                *)
(*                                                                         *)
(* The scheduler always asks for a stream, so _non_stream_chat is left     *)
(* out.  An error body either says "model not found" or does not.          *)
(***************************************************************************)
EXTENDS Naturals, Sequences

CONSTANTS
    Statuses,   \* HTTP statuses an upstream answers with
    Bytes,      \* what a stream is made of
    Terminator, \* the bytes that end it: "[DONE]", "finishReason", ...
    MaxBytes    \* bound on the bytes of a stream, for model checking

ASSUME ProbeCallAssumption ==
    /\ Statuses \subseteq 100 .. 599
    /\ Terminator \in Seq(Bytes) \ {<< >>}
    /\ MaxBytes \in Nat

VARIABLES
    target, kind, \* what is called, of which kind of provider
    static,       \* its base_url has a host of _STATIC_MODEL_LISTS
    stage,        \* "sent", "stream" or "body", "answered", "recorded"
    status,       \* of the response, 0 before there is one
    bytes, cuts,  \* history: read from the stream so far, and where its chunks begin
    ended,        \* how the call came back: "", "clean", "raised" or "crashed"
    outcome,      \* the ProbeOutcome
    verdict,      \* the model's status after it
    cooldown,     \* the provider is in cooldown
    told          \* the outcome is broadcast, and what was discovered saved

call == <<target, kind, static>>
heard == <<bytes, cuts>>
callVars == <<call, stage, status, heard, ended, outcome, verdict, cooldown, told>>

\* Of some length; aiter_bytes may yield an empty chunk, which is passed over.
Chunks == UNION {[1 .. n -> Bytes] : n \in 1 .. MaxBytes}

\* `terminator in chunk', at a position of it
Occurs(s, i) ==
    /\ i + Len(Terminator) - 1 <= Len(s)
    /\ \A j \in 1 .. Len(Terminator) : s[i + j - 1] = Terminator[j]
Found(s) == \E i \in 1 .. Len(s) : Occurs(s, i)
Ok(s) == s \in 200 .. 299

CallInit ==
    /\ target \in {"chat", "list"}
    /\ kind \in {"openai", "anthropic", "gemini"}
    /\ static \in BOOLEAN
    /\ static => kind = "openai" /\ target = "list"
    /\ stage = "sent"
    /\ status = 0 /\ bytes = << >> /\ cuts = {} /\ ended = ""
    /\ outcome = [success |-> FALSE, status |-> 0, code |-> "", missing |-> FALSE,
                  ttfb |-> FALSE, retry |-> FALSE, models |-> "none"]
    /\ verdict = "" /\ cooldown = "" /\ told = FALSE

-----------------------------------------------------------------------------
(* error_mapping.py.                                                        *)

\* (mutant) the range is tested before its members
Code_RangeFirst(s) ==
    CASE s \in 400 .. 499 -> "auth" [] s \in 500 .. 599 -> "server" [] OTHER -> ""
\* map_status_to_error; a status below 400 has no code.
Code(s) ==
    CASE s \in {401, 403}  -> "auth"
      [] s = 408           -> "timeout"
      [] s = 429           -> "rate_limit"
      [] s \in 500 .. 599  -> "server"
      [] s \in (400 .. 499) \ {401, 403, 408, 429} -> "other"
      [] OTHER             -> ""

\* map_exception_to_user_message: the TimeoutError of the watchdog is none of
\* httpx's.
Exceptions == {"timeout", "network", "decoding", "watchdog"}
ExceptionCode(e) == IF e \in {"timeout", "network"} THEN e ELSE "other"

-----------------------------------------------------------------------------
(* The ways a call comes back.                                              *)

Outcome(o, how) ==
    /\ outcome' = o
    /\ ended' = how
    /\ stage' = "answered"
    /\ UNCHANGED <<call, status, verdict, cooldown, told>>

Failed(s, c) == [outcome EXCEPT !.status = s, !.code = c]
Success(models) == [outcome EXCEPT !.success = TRUE, !.status = 200, !.models = models]

\* The status and the body of a refusal; a Retry-After of some seconds counts
\* with 429 only.
Refused(missing, retry) ==
    [Failed(status, Code(status)) EXCEPT !.missing = missing, !.retry = retry /\ status = 429]

\* (mutant) a stream that ends without an error has succeeded
Streamed_Ended(found, some) == [Failed(status, "") EXCEPT !.success = TRUE, !.ttfb = some]
\* Behind the loop over the chunks: terminator_seen, and whether first_byte_at is set.
Streamed(found, some) ==
    [Failed(status, IF found THEN "" ELSE "other") EXCEPT !.success = found, !.ttfb = some]

-----------------------------------------------------------------------------
(* The request and its response.                                            *)

\* list_models of Anthropic asks nobody.
ListNothing ==
    /\ stage = "sent" /\ target = "list" /\ kind = "anthropic"
    /\ Outcome([Success("none") EXCEPT !.status = 0], "clean")
    /\ UNCHANGED heard

\* The headers: stream_chat iterates over the body of a success only.
Respond(s) ==
    /\ stage = "sent"
    /\ target = "list" => kind # "anthropic"
    /\ status' = s
    /\ stage' = IF target = "chat" /\ Ok(s) THEN "stream" ELSE "body"
    /\ UNCHANGED <<call, heard, ended, outcome, verdict, cooldown, told>>

\* The chunk that holds the terminator is the last one read.
Chunk(c) ==
    /\ stage = "stream"
    /\ Len(bytes) + Len(c) <= MaxBytes
    /\ bytes' = bytes \o c
    /\ cuts' = cuts \cup {Len(bytes) + 1}
    /\ IF Found(c) THEN Outcome(Streamed(TRUE, TRUE), "clean")
       ELSE UNCHANGED <<call, stage, status, ended, outcome, verdict, cooldown, told>>

StreamEnds ==
    /\ stage = "stream"
    /\ Outcome(Streamed(FALSE, bytes # << >>), "clean")
    /\ UNCHANGED heard

\* aread
ErrorBody ==
    /\ stage = "body" /\ target = "chat"
    /\ \E missing, retry \in BOOLEAN : Outcome(Refused(missing, retry), "clean")
    /\ UNCHANGED heard

\* list_models: only 200 will do; an OpenAI-compatible host with a static list
\* is believed to have none of its own whatever it answers.  "twice": an id is
\* listed two times.
ListBody ==
    /\ stage = "body" /\ target = "list"
    /\ \/ /\ status = 200
          /\ \/ \E models \in {"none", "some", "twice"} : Outcome(Success(models), "clean")
             \/ Outcome(Failed(200, "other"), "clean")  \* not JSON
       \/ /\ status # 200
          /\ IF static THEN Outcome(Success("some"), "clean")
             ELSE \E retry \in BOOLEAN : Outcome(Refused(FALSE, retry), "clean")
    /\ UNCHANGED heard

\* JSON of another shape: the parser of OpenAI's list raises, and Gemini's
\* finds nothing in it.
BadShape ==
    /\ stage = "body" /\ target = "list" /\ status = 200
    /\ kind = "openai"
    /\ Outcome(Failed(0, "other"), "crashed")
    /\ UNCHANGED heard

\* An exception of httpx, up to the last byte of an error body, or the watchdog:
\* the status, if there was one, is not in the outcome.
Raise(e) ==
    /\ stage \in {"sent", "stream", "body"}
    /\ target = "list" => kind # "anthropic"
    /\ Outcome(Failed(0, ExceptionCode(e)), IF e = "watchdog" THEN "crashed" ELSE "raised")
    /\ UNCHANGED heard

-----------------------------------------------------------------------------
(* What becomes of it.                                                      *)

\* _model_status_from_failure, up to the count of failures
FailureStatus(o) ==
    IF o.code = "auth" \/ o.status \in {401, 403} THEN "unauthorized"
    ELSE IF o.code = "rate_limit" \/ o.status = 429 THEN "rate_limited"
    ELSE IF o.status = 404 \/ o.missing THEN "not_found"
    ELSE "failing"

\* record_outcome; upsert_discovered, which a doubled id makes fail on the
\* unique index; the broadcast; and the cooldown of a 429.
Record ==
    /\ stage = "answered"
    /\ stage' = "recorded"
    /\ verdict' = IF target = "list" THEN ""
                  ELSE IF outcome.success THEN "online" ELSE FailureStatus(outcome)
    /\ told' = (ended # "crashed" /\ outcome.models # "twice")
    /\ cooldown' = IF outcome.status # 429 THEN ""
                   ELSE IF outcome.retry THEN "as told" ELSE "default"
    /\ UNCHANGED <<call, status, heard, ended, outcome>>

CallNext ==
    \/ ListNothing
    \/ \E s \in Statuses : Respond(s)
    \/ \E c \in Chunks : Chunk(c)
    \/ StreamEnds \/ ErrorBody \/ ListBody \/ BadShape
    \/ \E e \in Exceptions : Raise(e)
    \/ Record

CallSpec == CallInit /\ [][CallNext]_callVars

-----------------------------------------------------------------------------
(* Properties.                                                              *)

\* The terminator is in s, and no chunk begins inside it.
Whole(s, begins) ==
    \E i \in 1 .. Len(s) :
        /\ Occurs(s, i)
        /\ \A j \in 2 .. Len(Terminator) : i + j - 1 \notin begins

\* A chat probe is green exactly for an answer whose bytes, however they were cut into
\* chunks, hold the terminator with no cut inside it; it is then an answer of success,
\* read without an exception.
SuccessIsComplete ==
    stage \in {"answered", "recorded"} /\ target = "chat" =>
        /\ outcome.success <=> Whole(bytes, cuts)
        /\ outcome.success => Ok(status) /\ ended = "clean"

\* What a model is said to suffer from is what its upstream said, through both
\* mappings: a key is called bad, a model missing or a provider limited only by an
\* answer read to its end, never by a timeout, a cut connection or a stream without
\* an end; and 429 is followed by a cooldown, of the length asked for if any.
FailureIsClassified ==
    stage = "recorded" /\ target = "chat" =>
        /\ verdict = "unauthorized" <=> ended = "clean" /\ status \in {401, 403}
        /\ verdict = "rate_limited" <=> ended = "clean" /\ status = 429
        /\ verdict = "not_found" => ended = "clean" /\ (status = 404 \/ outcome.missing)
        /\ cooldown # "" <=> verdict = "rate_limited"
        /\ outcome.retry => cooldown = "as told"

-----------------------------------------------------------------------------
(* What the docs and comments say and the code does not do.                 *)

\* _streaming.py:53: the stream is read until the terminator is found.  One that
\* is split over two chunks never is.
TerminatorIsFound ==
    stage = "recorded" /\ ended = "clean" /\ Found(bytes) => outcome.success

\* scheduler.py:685: a 429 sets a cooldown.  Not if its body cannot be read, nor
\* for a host with a static list.
LimitIsHeard == stage = "recorded" /\ status = 429 => cooldown # ""

\* openai_base.py:26: the static list stands in for a list that is not there.
StaticMeans404 ==
    stage = "recorded" /\ static /\ outcome.success => status \in {200, 404}

\* services/models.py:244: discovered models are inserted.
DiscoveredIsKept == stage = "recorded" /\ outcome.models # "none" => told
=============================================================================
