----------------------------- MODULE RateLimit -----------------------------
(***************************************************************************)
(* The token bucket that throttles a session's data connection             *)
(* (rate_limit in ftp_session.c, called before every send and after every  *)
(* receive when FTP_TRANSFER_RATE_LIMIT_BPS is set).  A call asks for at   *)
(* most what the bucket can hold: one that asks for more never returns.    *)
(*                                                                         *)
(* Time is counted in ticks of the monotonic clock, Second of them to the  *)
(* second.  The history variables granted and mark watch one window of     *)
(* time, which may open at any moment.                                     *)
(***************************************************************************)
EXTENDS Integers

CONSTANTS
  Second,     \* 1000000000 ns
  Rate,       \* FTP_TRANSFER_RATE_LIMIT_BPS
  Cap,        \* FTP_TRANSFER_RATE_BURST_BYTES, or the rate
  Word,       \* 2^64: products wrap
  Idle,       \* the ticks that may pass before a call
  MaxCalls    \* bound on the number of calls

\* Half a second earns a token, and what the sleeps compute does not wrap.
ASSUME RateAssumption ==
  /\ {Second, Rate, Cap, Word, MaxCalls} \subseteq Nat \ {0} /\ Idle \subseteq Nat
  /\ (Second \div 2) * Rate >= Second
  /\ Rate * Second + Cap * Second < Word

VARIABLES
  now,          \* monotonic_ns()
  rl_last_ns,   \* session->rl_last_ns
  rl_tokens,    \* session->rl_tokens
  need,         \* bytes of the call being served, 0 between calls
  calls,        \* calls made
  granted,      \* bytes let through in the window
  mark          \* when the window opened, 0 before that

rateVars == <<now, rl_last_ns, rl_tokens, need, calls, granted, mark>>

RateInit ==
  /\ now = 1 /\ rl_last_ns = 0 /\ rl_tokens = 0
  /\ need = 0 /\ calls = 0 /\ granted = 0 /\ mark = 0

\* Variant: tokens pile up while the session is idle.
RefillUncapped(last, tokens, t) == tokens + (((t - last) * Rate) % Word) \div Second

\* The tokens at time t, last refilled at time last.
Refill(last, tokens, t) ==
  LET sum == tokens + (((t - last) * Rate) % Word) \div Second
  IN  IF sum > Cap THEN Cap ELSE sum

Take(tokens, n) ==
  IF tokens >= n
  THEN rl_tokens' = tokens - n /\ granted' = granted + n /\ need' = 0
  ELSE rl_tokens' = tokens /\ need' = n /\ UNCHANGED granted

\* A call for n bytes, d ticks after the last thing that happened.
rate_limit(n, d) ==
  /\ need = 0 /\ calls < MaxCalls
  /\ calls' = calls + 1
  /\ now' = now + d
  /\ rl_last_ns' = now'
  /\ Take(IF rl_last_ns = 0 THEN Cap ELSE Refill(rl_last_ns, rl_tokens, now'), n)
  /\ UNCHANGED mark

\* How long to sleep for the missing tokens: rounded up, half a second at most.
Sleep(missing) ==
  LET wait == (missing * Second + Rate - 1) \div Rate
  IN  IF wait > Second \div 2 THEN Second \div 2 ELSE wait

\* usleep returns, perhaps a tick late, and the bucket is refilled.
Wake(late) ==
  /\ need > 0
  /\ now' = now + Sleep(need - rl_tokens) + late
  /\ rl_last_ns' = now'
  /\ Take(Refill(rl_last_ns, rl_tokens, now'), need)
  /\ UNCHANGED <<calls, mark>>

OpenWindow ==
  /\ mark = 0
  /\ mark' = now /\ granted' = 0
  /\ UNCHANGED <<now, rl_last_ns, rl_tokens, need, calls>>

RateEnded == need = 0 /\ calls = MaxCalls /\ UNCHANGED rateVars

RateNext ==
  \/ \E n \in 1 .. Cap, d \in Idle : rate_limit(n, d)
  \/ \E late \in {0, 1} : Wake(late)
  \/ OpenWindow
  \/ RateEnded

RateSpec == RateInit /\ [][RateNext]_rateVars

-----------------------------------------------------------------------------
(* Properties.                                                             *)

\* In no window of time does the session get more than the burst and what the
\* rate allows for the time passed, whatever the idle time before it and
\* however the refills are rounded.
RateIsBounded == mark > 0 => (granted - Cap) * Second <= Rate * (now - mark)

=============================================================================
