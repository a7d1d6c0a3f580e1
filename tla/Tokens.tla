------------------------------ MODULE Tokens --------------------------------
(***************************************************************************)
(* The sessions of one user: the pairs of tokens auth.service.ts and       *)
(* token.ts issue, their rotation, the sign-out everywhere with the        *)
(* cut-off auth.middleware.ts checks, and the code that resets a forgotten *)
(* password.                                                               *)
(*                                                                         *)
(* A tick of the clock is half a second, so that what is rounded to whole  *)
(* seconds shows.  All instances share one clock, and Redis answers: when  *)
(* it does not, isRevoked lets every valid token pass.  A refresh token is *)
(* known by its id, which is as unique as its hash, and outlives the run.  *)
(***************************************************************************)
EXTENDS Integers, FiniteSets

CONSTANTS
  Calls,        \* the requests served at one time
  RefreshIds,   \* the ids randomUUID may give
  AccessTTL,    \* JWT_ACCESS_TTL, in seconds
  MarkerTTL,    \* how long a cut-off is kept: a day, in seconds
  MaxAttempts,  \* SMS_CODE_MAX_ATTEMPTS
  MaxTicks,     \* bound: the clock stops there
  MaxCodes,     \* bound: the codes asked for
  MaxCounted    \* bound: the counter of guesses is not told apart from there

ASSUME TokensAssumption ==
  /\ IsFiniteSet(Calls) /\ IsFiniteSet(RefreshIds)
  /\ {AccessTTL, MarkerTTL, MaxAttempts, MaxTicks, MaxCodes, MaxCounted} \subseteq Nat
  /\ AccessTTL <= MarkerTTL /\ MaxAttempts < MaxCounted

VARIABLES
  tick,
  issued,         \* ids handed out
  refreshTokens,  \* ids with an entry in Redis
  signed,         \* the ticks at which an access token was signed
  revokedBefore,  \* [second, until]: the cut-off and the tick it is kept to
  call,           \* [at, id, n, guess, owed, then]: what each request is doing
  ended,          \* history: the latest tick a finished sign-out read
  reordered,      \* history: a cut-off was written after a later one
  smsCode,        \* the code in Redis, numbered as they are drawn; 0 if absent
  smsAttempts,    \* the counter of guesses; 0 if absent
  expiring,       \* the counter has been given a time to live
  codeFirst,      \* the code will expire before the counter
  codes,          \* codes drawn
  looked,         \* history: the guesses the code was compared with
  resets,         \* history: how often the counter was reset while the code was there
  stragglers,     \* history: guesses counted and not yet compared as it was drawn
  clearers        \* history: other requests that had still to clear the counter then

tokenVars == <<tick, issued, signed, revokedBefore, ended, reordered>>
codeHistory == <<looked, resets, stragglers, clearers>>
resetVars == <<smsCode, smsAttempts, expiring, codeFirst, codes, codeHistory>>
sessionVars == <<tokenVars, refreshTokens, call, resetVars>>

NoId == "no id"
Idle == [at |-> "idle", id |-> NoId, n |-> 0, guess |-> 0,
         owed |-> {}, then |-> "idle"]
CallPlaces == {"idle", "signing", "storing", "rotating", "scanning", "cutting", "marking",
           "clearing", "expiring", "guessing", "cleaning"}

SessionTypeOK ==
  /\ tick \in 0..MaxTicks /\ ended \in 0..MaxTicks
  /\ refreshTokens \subseteq issued /\ issued \subseteq RefreshIds
  /\ signed \subseteq 0..MaxTicks
  /\ revokedBefore \in [second : Nat, until : Nat]
  /\ call \in [Calls -> [at : CallPlaces, id : RefreshIds \cup {NoId}, n : Nat,
                         guess : 0..MaxCodes,
                         owed : SUBSET RefreshIds, then : CallPlaces]]
  /\ {reordered, expiring, codeFirst} \subseteq BOOLEAN
  /\ codes \in 0..MaxCodes /\ smsCode \in 0..codes
  /\ smsAttempts \in 0..MaxCounted
  /\ {looked, resets, stragglers, clearers} \subseteq Nat
  /\ expiring => smsAttempts > 0

SessionInit ==
  /\ tick = 0 /\ ended = 0 /\ reordered = FALSE
  /\ issued = {} /\ refreshTokens = {} /\ signed = {}
  /\ revokedBefore = [second |-> 0, until |-> 0]
  /\ call = [c \in Calls |-> Idle]
  /\ smsCode = 0 /\ smsAttempts = 0 /\ codes = 0
  /\ looked = 0 /\ resets = 0 /\ stragglers = 0 /\ clearers = 0
  /\ expiring = FALSE /\ codeFirst = FALSE

-----------------------------------------------------------------------------
(* Tokens *)

\* The seconds of iat, and the next whole second of a cut-off.
Second(t) == t \div 2
Mutant_CutOffDown(t) == t \div 2
CutOff(t) == (t + 1) \div 2

\* verify: an access token signed at t has not expired.
Verified(t) == Second(tick) < Second(t) + AccessTTL
\* isRevoked, as long as Redis keeps the cut-off.
Revoked(t) == tick < revokedBefore.until /\ Second(t) < revokedBefore.second
\* authenticate: the token lets a request through.
Accepted(t) == Verified(t) /\ ~Revoked(t)

At(c, place) == call[c].at = place
Put(c, r) == call' = [call EXCEPT ![c] = r]
Become(c, place) == Put(c, [Idle EXCEPT !.at = place])
Return(c) == Put(c, Idle)
\* revokeAllRefreshTokens begins: what is refreshTokens throughout the scan it will meet.
Scan(c, next) == Put(c, [Idle EXCEPT !.at = "scanning", !.owed = refreshTokens, !.then = next])

Tick ==
  /\ tick < MaxTicks
  /\ tick' = tick + 1
  /\ UNCHANGED <<issued, refreshTokens, signed, revokedBefore, call, ended, reordered, resetVars>>

\* A sign-in or a sign-up reaches issueSession.
Authenticated(c) ==
  /\ At(c, "idle")
  /\ Become(c, "signing")
  /\ UNCHANGED <<tokenVars, refreshTokens, resetVars>>

\* issueTokenPair signs both tokens.
IssueTokenPair(c) ==
  /\ At(c, "signing")
  /\ \E id \in RefreshIds \ issued :
       /\ issued' = issued \cup {id}
       /\ Put(c, [Idle EXCEPT !.at = "storing", !.id = id])
  /\ signed' = signed \cup {tick}
  /\ UNCHANGED <<tick, refreshTokens, revokedBefore, ended, reordered, resetVars>>

StoreRefreshToken(c) ==
  /\ At(c, "storing")
  /\ refreshTokens' = refreshTokens \cup {call[c].id}
  /\ Return(c)
  /\ UNCHANGED <<tokenVars, resetVars>>

\* refresh looks the presented token up; one that is gone drops every session.
Refresh(c, id) ==
  /\ At(c, "idle") /\ id \in issued
  /\ \/ id \in refreshTokens /\ Put(c, [Idle EXCEPT !.at = "rotating", !.id = id])
     \/ id \notin refreshTokens /\ Scan(c, "idle")
  /\ UNCHANGED <<tokenVars, refreshTokens, resetVars>>

Rotate(c) ==
  /\ At(c, "rotating")
  /\ refreshTokens' = refreshTokens \ {call[c].id}
  /\ Become(c, "signing")
  /\ UNCHANGED <<tokenVars, resetVars>>

\* The account is missing, blocked or deactivated; a crash looks the same.
GiveUp(c) ==
  /\ ~At(c, "idle")
  /\ Return(c)
  /\ UNCHANGED <<tokenVars, refreshTokens, resetVars>>

Logout(c, id) ==
  /\ At(c, "idle") /\ id \in issued
  /\ refreshTokens' = refreshTokens \ {id}
  /\ UNCHANGED <<tokenVars, call, resetVars>>

LogoutEverywhere(c) ==
  /\ At(c, "idle")
  /\ Scan(c, "cutting")
  /\ UNCHANGED <<tokenVars, refreshTokens, resetVars>>

\* A batch of the scan, deleted: any keys that are there.
ScanBatch(c) ==
  /\ At(c, "scanning")
  /\ \E batch \in (SUBSET refreshTokens) \ {{}} :
       /\ refreshTokens' = refreshTokens \ batch
       /\ Put(c, [call[c] EXCEPT !.owed = @ \ batch])
  /\ UNCHANGED <<tokenVars, resetVars>>

\* The cursor is back at zero.
EndScan(c) ==
  /\ At(c, "scanning") /\ call[c].owed \cap refreshTokens = {}
  /\ Become(c, call[c].then)
  /\ UNCHANGED <<tokenVars, refreshTokens, resetVars>>

\* Date.now() is read when the command is sent, and the command lands later.
ReadClock(c) ==
  /\ At(c, "cutting")
  /\ Put(c, [Idle EXCEPT !.at = "marking", !.n = tick])
  /\ UNCHANGED <<tokenVars, refreshTokens, resetVars>>

WriteCutOff(c) ==
  LET read == call[c].n IN
  /\ At(c, "marking")
  /\ revokedBefore' = [second |-> CutOff(read), until |-> tick + 2 * MarkerTTL]
  /\ reordered' = (reordered \/ read < ended)
  /\ ended' = IF read > ended THEN read ELSE ended
  /\ Return(c)
  /\ UNCHANGED <<tick, issued, refreshTokens, signed, resetVars>>

-----------------------------------------------------------------------------
(* The reset of a forgotten password *)

Mutant_OneMore(n) == n > MaxAttempts + 1
OverLimit(n) == n > MaxAttempts

\* The requests that have written a code and not yet forgotten the guesses, and the guesses
\* the counter has let through that have still to be compared.
Clearing == {c \in Calls : At(c, "clearing")}
Awaited == {c \in Calls : call[c].at \in {"expiring", "guessing"} /\ ~OverLimit(call[c].n)}

\* The counter is gone: a code that is there may be guessed at anew.
ForgetGuesses ==
  /\ smsAttempts' = 0 /\ expiring' = FALSE
  /\ resets' = IF smsCode # 0 THEN resets + 1 ELSE resets
  /\ UNCHANGED <<looked, stragglers, clearers>>

\* requestPasswordReset writes a new code over the old one...
RequestPasswordReset(c) ==
  /\ At(c, "idle") /\ codes < MaxCodes
  /\ codes' = codes + 1 /\ smsCode' = codes + 1
  /\ codeFirst' = FALSE
  /\ looked' = 0 /\ resets' = 0
  /\ stragglers' = Cardinality(Awaited) /\ clearers' = Cardinality(Clearing)
  /\ Become(c, "clearing")
  /\ UNCHANGED <<tokenVars, refreshTokens, smsAttempts, expiring>>

\* ... forgets the guesses, and sends it; a message that fails changes nothing.
ClearAttempts(c) ==
  /\ At(c, "clearing")
  /\ ForgetGuesses
  /\ Return(c)
  /\ UNCHANGED <<tokenVars, refreshTokens, smsCode, codeFirst, codes>>

\* resetPassword counts the guess first: of some code drawn before, or of none (0).
CountGuess(c, guess) ==
  /\ At(c, "idle")
  /\ smsAttempts' = IF smsAttempts < MaxCounted THEN smsAttempts + 1 ELSE MaxCounted
  /\ Put(c, [Idle EXCEPT !.at = IF smsAttempts = 0 THEN "expiring" ELSE "guessing",
                         !.n = smsAttempts', !.guess = guess])
  /\ UNCHANGED <<tokenVars, refreshTokens, smsCode, expiring, codeFirst, codes, codeHistory>>

\* The first guess gives the counter the code's time to live.
ExpireCounter(c) ==
  /\ At(c, "expiring")
  /\ expiring' = (smsAttempts > 0)
  /\ codeFirst' = TRUE
  /\ Put(c, [call[c] EXCEPT !.at = "guessing"])
  /\ UNCHANGED <<tokenVars, refreshTokens, smsCode, smsAttempts, codes, codeHistory>>

TooManyRequests(c) ==
  /\ At(c, "guessing") /\ OverLimit(call[c].n)
  /\ smsCode' = 0
  /\ Return(c)
  /\ UNCHANGED <<tokenVars, refreshTokens, smsAttempts, expiring, codeFirst, codes, codeHistory>>

\* The code is read and compared; the right guess has its password saved.
CompareCode(c) ==
  /\ At(c, "guessing") /\ ~OverLimit(call[c].n)
  /\ looked' = IF smsCode # 0 THEN looked + 1 ELSE looked
  /\ Become(c, IF smsCode # 0 /\ call[c].guess = smsCode THEN "cleaning" ELSE "idle")
  /\ UNCHANGED <<tokenVars, refreshTokens, smsCode, smsAttempts, expiring, codeFirst, codes,
                 resets, stragglers, clearers>>

\* The code has served: whatever code is there goes, and every refresh token.
CleanUp(c) ==
  /\ At(c, "cleaning")
  /\ smsCode' = 0 /\ smsAttempts' = 0 /\ expiring' = FALSE
  /\ Scan(c, "idle")
  /\ UNCHANGED <<tokenVars, refreshTokens, codeFirst, codes, codeHistory>>

\* Both live SMS_CODE_TTL_SECONDS: the one that was written first goes first.
CodeExpires ==
  /\ smsCode # 0 /\ (expiring => codeFirst)
  /\ smsCode' = 0
  /\ UNCHANGED <<tokenVars, refreshTokens, call, smsAttempts, expiring, codeFirst, codes, codeHistory>>

AttemptsExpire ==
  /\ expiring /\ (smsCode # 0 => ~codeFirst)
  /\ ForgetGuesses
  /\ UNCHANGED <<tokenVars, refreshTokens, call, smsCode, codeFirst, codes>>

-----------------------------------------------------------------------------
\* Everything a request does with tokens; the scan serves both kinds of request.
TokenStep(c) ==
  \/ Authenticated(c) \/ IssueTokenPair(c) \/ StoreRefreshToken(c) \/ Rotate(c)
  \/ LogoutEverywhere(c) \/ ScanBatch(c) \/ EndScan(c) \/ ReadClock(c) \/ WriteCutOff(c)
  \/ GiveUp(c)
  \/ \E id \in RefreshIds : Refresh(c, id) \/ Logout(c, id)

ResetStep(c) ==
  \/ RequestPasswordReset(c) \/ ClearAttempts(c)
  \/ ExpireCounter(c) \/ TooManyRequests(c) \/ CompareCode(c) \/ CleanUp(c)
  \/ \E guess \in 0..codes : CountGuess(c, guess)

SessionNext ==
  \/ Tick \/ CodeExpires \/ AttemptsExpire
  \/ \E c \in Calls : TokenStep(c) \/ ResetStep(c)

SessionSpec == SessionInit /\ [][SessionNext]_sessionVars

-----------------------------------------------------------------------------
\* "They are refused from the next whole second, and the marker outlives the
\* longest access token it could apply to": once logoutEverywhere is done, no access
\* token signed before it read the clock is ever accepted again, whatever is refreshed
\* meanwhile -- unless two sign-outs wrote their cut-offs in the wrong order.
CutOffHolds == ~reordered => \A t \in signed : t < ended => ~Accepted(t)

\* The code "survives a fixed number of guesses": it is compared with no more than
\* SMS_CODE_MAX_ATTEMPTS for the counter as its request found it and as many again for
\* each time the counter is reset meanwhile, whichever guesses they are, but for those
\* already counted when it was drawn; and the resets are its own request's, one that
\* expires and one of each request it overtook, however all of them fall together.
GuessesBounded ==
  /\ looked <= MaxAttempts * (1 + resets) + stragglers
  /\ resets <= 2 + clearers
=============================================================================
