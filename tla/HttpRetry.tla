---- MODULE HttpRetry ----
(***************************************************************************)
(* The bounded retry of crates/amd-adapters/src/http.rs, and that of the   *)
(* SDK's util/http.ts.  A script is what a server would do at each attempt *)
(* the client may make.                                                    *)
(***************************************************************************)
EXTENDS Integers, Sequences, SequencesExt

Reply == {
  "ok",            \* success, with a body that is read
  "unreadable",    \* success, with a body that is not what was asked for
  "cut off",       \* success, with a body that breaks off or comes too late
  "too many",      \* 429
  "server error",  \* 5xx
  "refused",       \* any other status
  "no answer",     \* no status: the transport fails or times out
  "not sent"       \* the request cannot be built
}

\* Milliseconds waited before the n-th retry.
Backoff(n) == 250 * (IF n > 4 THEN 8 ELSE 2 ^ (n - 1))

\* Mutant: too many requests are a refusal like another.
FailsFastOn4xx == {"ok", "unreadable", "cut off", "refused", "not sent", "too many"}

\* get_json returns on these at once: whatever becomes of a body is an error
\* of decoding, the client's timeout while it is read included.
Final == {"ok", "unreadable", "cut off", "refused", "not sent"}

\* getJson of the SDK: only a body that was read and a refusal end it.
SdkFinal == {"ok", "refused"}

\* The loop over the attempts.
Fetch(script, final) ==
  FoldLeft(
    LAMBDA s, reply :
      IF s.done THEN s
      ELSE [done |-> reply \in final,
            answer |-> reply,
            attempts |-> s.attempts + 1,
            waited |-> s.waited + (IF s.attempts = 0 THEN 0 ELSE Backoff(s.attempts))],
    [done |-> FALSE, answer |-> "no answer", attempts |-> 0, waited |-> 0],
    script)

GetJson(script) == Fetch(script, Final)
SdkGetJson(script) == Fetch(script, SdkFinal)

----
\* What is tried again: the server asks for it, fails, or is not heard from.
Retryable == {"too many", "server error", "no answer"}

\* No attempt follows a success, a refusal or a request that cannot be sent
\* ("hammering a free service we depend on is both rude and
\* counterproductive"); while the server asks to wait, fails or is not heard
\* from, none is given up on before the last; and the waiting is bounded.  A
\* body that breaks off is given up on, although the next might be read.
RetriesWhatHelps(script) ==
  LET got == GetJson(script) IN
    /\ got.attempts \in 1 .. Len(script)
    /\ got.answer = script[got.attempts]
    /\ \A n \in 1 .. got.attempts - 1 : script[n] \in Retryable
    /\ got.attempts = Len(script) \/ got.answer \notin Retryable
    /\ got.waited <= 2000 * (got.attempts - 1)

\* The SDK makes the attempts of the services, and more only where they give
\* up on a body or on a request that cannot be sent.
SdkRetriesAgree(script) ==
  LET ours == GetJson(script)
      theirs == SdkGetJson(script) IN
    /\ theirs.attempts >= ours.attempts
    /\ theirs.attempts > ours.attempts => ours.answer \in {"unreadable", "cut off", "not sent"}
    /\ theirs.attempts = ours.attempts
         => theirs.answer = ours.answer /\ theirs.waited = ours.waited
====
