-------------------------------- MODULE Guard --------------------------------
(***************************************************************************)
(* Admission of API calls: JWTAuthorizer.authenticate of app/security.py   *)
(* over the tables replay_jti and rate_windows.                            *)
(*                                                                         *)
(* A call decodes its token, enters the token's jti (deleting the rows of  *)
(* expired tokens) and counts itself in the current window of its subject  *)
(* (deleting old windows).  No other call gets in between, but the clock   *)
(* is read anew by each of the three and may have moved on.                *)
(***************************************************************************)
EXTENDS Naturals, FiniteSets, FiniteSetsExt

CONSTANTS
  Tokens, Subjects,
  SubjectOf,  \* [Tokens -> Subjects], the claim sub
  ExpOf,      \* [Tokens -> Nat], the claim exp, in seconds
  None,
  Leeway,     \* seconds a token is still decoded after exp
  Limit,      \* rate_limit_requests
  Window,     \* rate_limit_window_seconds
  MaxTime,    \* bound on the clock
  MaxCalls    \* bound on the calls

ASSUME GuardConstants ==
  /\ SubjectOf \in [Tokens -> Subjects] /\ ExpOf \in [Tokens -> Nat]
  /\ None \notin Tokens /\ Leeway \in Nat /\ Limit \in Nat \ {0}
  /\ Window \in Nat \ {0} /\ MaxTime \in Nat /\ MaxCalls \in Nat

VARIABLES
  now,
  jti,    \* table replay_jti: tokens, each with its own expires_at
  rate,   \* table rate_windows: count by subject and window_start, 0 for no row
  token,  \* the token of the call in progress
  at,     \* what that call does next
  calls,
  \* History, which the properties read.
  uses,     \* how often a token was accepted before it expired
  admitted, \* admissions by subject and second
  refused   \* subjects and windows that saw a refusal by the rate limit

tables == <<jti, rate>>
history == <<uses, admitted, refused>>
vars == <<now, tables, token, at, calls, history>>

Times == 0..MaxTime

\* Type invariant.
TypeOK ==
  /\ now \in Times /\ jti \subseteq Tokens
  /\ rate \in [Subjects -> [Times -> 0..MaxCalls]]
  /\ token \in Tokens \cup {None} /\ at \in {"idle", "jti", "rate"}
  /\ at = "idle" <=> token = None
  /\ calls \in 0..MaxCalls
  /\ uses \in [Tokens -> 0..MaxCalls]
  /\ admitted \in [Subjects -> [Times -> 0..MaxCalls]]
  /\ refused \subseteq Subjects \X Times
  /\ \A s \in Subjects, w \in Times : rate[s][w] > 0 => w % Window = 0

WindowAt(t) == t - (t % Window)

-----------------------------------------------------------------------------
Tick ==
  /\ now < MaxTime
  /\ now' = now + 1
  /\ UNCHANGED <<tables, token, at, calls, history>>

\* jwt.decode: a token is expired once exp <= now - leeway.
Decode(t) ==
  /\ at = "idle" /\ calls < MaxCalls
  /\ calls' = calls + 1
  /\ IF ExpOf[t] + Leeway > now
     THEN token' = t /\ at' = "jti"
     ELSE UNCHANGED <<token, at>>
  /\ UNCHANGED <<now, tables, history>>

SlipExpired == {t \in Tokens : ExpOf[t] < now + Leeway}  \* leeway added, not taken off

\* DELETE FROM replay_jti WHERE expires_at < now.
Expired == {t \in Tokens : ExpOf[t] < now}

\* accept_jti: a token that is still in the table is a replay (409).
AcceptJti ==
  LET known == jti \ Expired IN
  /\ at = "jti"
  /\ jti' = known \cup {token}
  /\ IF token \in known
     THEN at' = "idle" /\ token' = None /\ UNCHANGED uses
     ELSE /\ at' = "rate" /\ UNCHANGED token
          /\ uses' = IF now <= ExpOf[token] THEN [uses EXCEPT ![token] = @ + 1] ELSE uses
  /\ UNCHANGED <<now, rate, calls, admitted, refused>>

SlipTrimmed(r) ==  \* deletes the current window with the old ones
  [s \in Subjects |-> [w \in Times |-> IF w <= WindowAt(now) THEN 0 ELSE r[s][w]]]

\* DELETE FROM rate_windows WHERE window_start < window - 2 * window_seconds.
Trimmed(r) ==
  [s \in Subjects |->
    [w \in Times |-> IF w + 2 * Window < WindowAt(now) THEN 0 ELSE r[s][w]]]

SlipThisWindow == now  \* a row for every second
SlipOneWindow  == 0    \* one row for good

ThisWindow == WindowAt(now)

\* check_rate: the call is counted, admitted or not, then compared (429).
CheckRate ==
  LET s == SubjectOf[token]
      count == rate[s][ThisWindow] + 1 IN
  /\ at = "rate"
  /\ rate' = Trimmed([rate EXCEPT ![s][ThisWindow] = count])
  /\ IF count <= Limit
     THEN admitted' = [admitted EXCEPT ![s][now] = @ + 1] /\ UNCHANGED refused
     ELSE refused' = refused \cup {<<s, WindowAt(now)>>} /\ UNCHANGED admitted
  /\ at' = "idle" /\ token' = None
  /\ UNCHANGED <<now, jti, calls, uses>>

-----------------------------------------------------------------------------
Init ==
  /\ now = 0 /\ jti = {} /\ token = None /\ at = "idle" /\ calls = 0
  /\ rate = [s \in Subjects |-> [w \in Times |-> 0]]
  /\ uses = [t \in Tokens |-> 0]
  /\ admitted = [s \in Subjects |-> [t \in Times |-> 0]]
  /\ refused = {}

Next == Tick \/ (\E t \in Tokens : Decode(t)) \/ AcceptJti \/ CheckRate

Spec == Init /\ [][Next]_vars

-----------------------------------------------------------------------------
(* Properties. *)

Admissions(s, S) == MapThenSumSet(LAMBDA t : admitted[s][t], S)

\* A token is good for one call: until it expires accept_jti accepts it once,
\* although every call deletes rows of that table.
UsedOnce == \A t \in Tokens : uses[t] <= 1

\* Wherever a span of one window begins, it sees at most twice the limit, and
\* an aligned one at most the limit: the deletion of old rows never forgets one
\* that still counts.
RateBound ==
  \A s \in Subjects, from \in Times :
    LET n == Admissions(s, {t \in Times : from <= t /\ t < from + Window}) IN
    n <= IF from % Window = 0 THEN Limit ELSE 2 * Limit

\* A call is refused by the rate limit only in a window in which its subject has
\* had all its calls: earlier windows and refused calls of other subjects, or
\* replayed tokens, take nothing away.
RefusedOnlyAtLimit ==
  \A r \in refused :
    Admissions(r[1], {t \in Times : WindowAt(t) = r[2]}) = Limit
=============================================================================
