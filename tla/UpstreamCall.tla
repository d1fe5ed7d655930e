---------------------------- MODULE UpstreamCall ----------------------------
(***************************************************************************)
(* One logical upstream call of an adapter (backend/app/adapters):         *)
(*   "complete"  BaseAdapter.complete over _timed_events and the OpenAI    *)
(*               compatible stream: timeouts, retries, aggregation;        *)
(*   "probe"     the model listing through BaseAdapter._with_retry.        *)
(* A piece of text or a tool-call fragment is represented by the attempt   *)
(* that produced it: a replay shows as two attempts in one result.         *)
(***************************************************************************)
EXTENDS Naturals, Sequences

CONSTANTS MaxRetries,   \* adapter.max_retries
          MaxKept       \* bound: pieces of text and tool calls kept in all

ASSUME RetriesAssumption == MaxRetries \in Nat
ASSUME KeptAssumption    == MaxKept \in Nat

VARIABLES
    mode,       \* "complete" or "probe"
    pc,         \* where the call stands
    attempt,    \* 1 .. MaxRetries + 1
    options,    \* whether this request carries stream_options
    got,        \* got_event: whether this attempt has had an event
    parts,      \* text pieces kept, each by its attempt
    fragments,  \* tool-call fragments kept, each by its attempt
    requests,   \* HTTP requests made so far
    error       \* what the last failure was: "none", "retryable", "fatal", "foreign"

callVars == <<mode, pc, attempt, options, got, parts, fragments, requests, error>>

LastAttempt == MaxRetries + 1

CallInit ==
    /\ mode \in {"complete", "probe"}
    /\ pc = "idle"
    /\ attempt = 1
    /\ options = (mode = "complete")
    /\ got = FALSE
    /\ parts = <<>>
    /\ fragments = <<>>
    /\ requests = 0
    /\ error = "none"

(* A request goes out; each attempt first asks for usage events.           *)
Send ==
    /\ pc = "idle"
    /\ pc' = "connecting"
    /\ requests' = requests + 1
    /\ UNCHANGED <<mode, attempt, options, got, parts, fragments, error>>

(* _create_stream: a 400 may mean the service does not know the option, so *)
(* the request is made once more without it.                               *)
DropOptions ==
    /\ pc = "connecting"
    /\ mode = "complete"
    /\ options
    /\ options' = FALSE
    /\ requests' = requests + 1
    /\ UNCHANGED <<mode, pc, attempt, got, parts, fragments, error>>

Connected ==
    /\ pc = "connecting"
    /\ mode = "complete"
    /\ pc' = "streaming"
    /\ UNCHANGED <<mode, attempt, options, got, parts, fragments, requests, error>>

(* One StreamEvent: text and tool-call fragments are kept; reasoning,      *)
(* usage and finish_reason events, of which there is no end, are not.      *)
Event ==
    /\ pc = "streaming"
    /\ pc' = "handling"
    /\ got' = TRUE
    /\ \/ /\ Len(parts) + Len(fragments) < MaxKept
          /\ \/ parts' = Append(parts, attempt) /\ UNCHANGED fragments
             \/ fragments' = Append(fragments, attempt) /\ UNCHANGED parts
       \/ UNCHANGED <<parts, fragments>>
    /\ UNCHANGED <<mode, attempt, options, requests, error>>

(* The next anext, under a wait_for of its own: the idle timer restarts.   *)
NextWait ==
    /\ pc = "handling"
    /\ pc' = "streaming"
    /\ UNCHANGED <<mode, attempt, options, got, parts, fragments, requests, error>>

Finish ==
    /\ \/ mode = "complete" /\ pc = "streaming"
       \/ mode = "probe" /\ pc = "connecting"
    /\ pc' = "returned"
    /\ UNCHANGED <<mode, attempt, options, got, parts, fragments, requests, error>>

-----------------------------------------------------------------------------
(* Slip: max_retries taken for the number of attempts.                     *)
SlipOneTooFew(kind) ==
    /\ kind = "retryable"
    /\ parts = <<>>
    /\ attempt < MaxRetries

(* Slip: the text kept so far does not stop a retry.                       *)
SlipReplay(kind) ==
    /\ kind = "retryable"
    /\ attempt < LastAttempt

(* The retry rule of complete: only a retryable error, only while no text  *)
(* has been kept, only while attempts are left.                            *)
MayRetry(kind) ==
    /\ kind = "retryable"
    /\ parts = <<>>
    /\ attempt < LastAttempt

(* An AdapterError reaches the except clause of complete.                  *)
Fail(kind) ==
    /\ error' = kind
    /\ pc' = IF MayRetry(kind) THEN "backoff" ELSE "raised"
    /\ UNCHANGED <<mode, attempt, options, got, parts, fragments, requests>>

(* The SDK reports an error and map_openai_error classifies it: connection,*)
(* rate limit, 5xx and unknown errors are retryable, at any point of the   *)
(* stream; authentication and 4xx are fatal.                               *)
SdkError ==
    /\ mode = "complete"
    /\ pc \in {"connecting", "streaming"}
    /\ \E kind \in {"retryable", "fatal"} : Fail(kind)

(* Slip: the timer is for the gaps between events only.                    *)
SlipIdleOnly ==
    /\ mode = "complete"
    /\ pc = "streaming"
    /\ got
    /\ Fail("fatal")

(* _timed_events: no event within timeout_seconds.  Before the first event *)
(* the whole call may be repeated, after it not.                           *)
TimedOut ==
    /\ mode = "complete"
    /\ pc \in {"connecting", "streaming"}
    /\ Fail(IF got THEN "fatal" ELSE "retryable")

(* An exception that is no APIError is neither mapped nor caught.          *)
ForeignError ==
    /\ pc \in {"connecting", "streaming"}
    /\ error' = "foreign"
    /\ pc' = "raised"
    /\ UNCHANGED <<mode, attempt, options, got, parts, fragments, requests>>

(* probe: _with_retry catches AdapterError only, but models.list raises    *)
(* the SDK's own errors, which probe maps outside of it.                   *)
ProbeError ==
    /\ mode = "probe"
    /\ pc = "connecting"
    /\ \E kind \in {"retryable", "fatal"} : error' = kind
    /\ pc' = "raised"
    /\ UNCHANGED <<mode, attempt, options, got, parts, fragments, requests>>

(* The sleep is over: the next attempt starts from scratch, keeping parts  *)
(* and fragments.                                                          *)
BackoffEnds ==
    /\ pc = "backoff"
    /\ pc' = "connecting"
    /\ attempt' = attempt + 1
    /\ options' = TRUE
    /\ got' = FALSE
    /\ requests' = requests + 1
    /\ UNCHANGED <<mode, parts, fragments, error>>

-----------------------------------------------------------------------------
CallNext ==
    \/ Send
    \/ DropOptions
    \/ Connected
    \/ Event
    \/ NextWait
    \/ Finish
    \/ SdkError
    \/ TimedOut
    \/ ForeignError
    \/ ProbeError
    \/ BackoffEnds

CallSpec == CallInit /\ [][CallNext]_callVars

(* Only what the caller's side controls is fair: its own steps, wait_for's *)
(* timer, which runs from one event to the next, the sleep, and for probe  *)
(* the SDK's timeout. The upstream may never do anything.                  *)
FairSpec ==
    /\ CallSpec
    /\ WF_callVars(Send) /\ WF_callVars(NextWait) /\ WF_callVars(BackoffEnds)
    /\ WF_callVars(TimedOut) /\ WF_callVars(ProbeError)

Over == pc \in {"returned", "raised"}

-----------------------------------------------------------------------------
(* Properties *)

(* Every variable has its type.                                            *)
CallTypeOK ==
    /\ mode \in {"complete", "probe"}
    /\ pc \in {"idle", "connecting", "streaming", "handling", "backoff", "returned", "raised"}
    /\ attempt \in 1..LastAttempt
    /\ options \in BOOLEAN
    /\ got \in BOOLEAN
    /\ parts \in Seq(1..LastAttempt)
    /\ fragments \in Seq(1..LastAttempt)
    /\ requests \in Nat
    /\ error \in {"none", "retryable", "fatal", "foreign"}

(* The text of a result comes from one attempt, the last one: a stream     *)
(* that broke after output is never replayed on top of what was kept.      *)
TextFromOneAttempt ==
    \A i \in 1..Len(parts) : parts[i] = attempt

(* A call gives up with a retryable error only when it had no retry left   *)
(* or had already kept text.                                               *)
GivesUpOnlyWhenSpent ==
    mode = "complete" /\ pc = "raised" /\ error = "retryable" =>
        attempt = LastAttempt \/ parts # <<>>

(* However the upstream behaves, a logical call costs at most two requests *)
(* per attempt, so retries and the options fallback do not multiply.       *)
RequestBudget == requests <= 2 * LastAttempt

(* Every retry there is is used, and no more requests than these allow.    *)
RetriesAreSpent == GivesUpOnlyWhenSpent /\ RequestBudget

(* A call returns or raises, whatever the upstream does not do: only one   *)
(* that goes on sending events for ever (base.py: no limit on the whole)   *)
(* keeps it.                                                               *)
EveryCallEnds == <>Over \/ []<>(pc = "handling")

=============================================================================
